---------------------------------- MODULE Dns ----------------------------------
(***************************************************************************)
(* The DNS manager of the desktop client: it points the host at the VPN's  *)
(* resolver and gives the host its own one back.  A backend per host:      *)
(* /etc/resolv.conf itself, with a backup beside it; resolvectl;           *)
(* resolvconf; the dynamic store of macOS; the NRPT rules of Windows.  The *)
(* client can crash at any step and run again, and other programs write    *)
(* resolv.conf at any time.                                                *)
(***************************************************************************)
EXTENDS Naturals, FiniteSets

CONSTANTS Contents,    \* what the user's resolv.conf may hold
          Services,    \* network services of a Mac
          MaxRuns,     \* bound on runs of the client
          MaxEdits     \* bound on what other programs do

Missing == "missing"
Ours == "lightway"
ASSUME DnsBounds ==
  /\ Contents # {} /\ Contents \cap {Missing, Ours} = {} /\ Services # {} /\ Missing \notin Services
  /\ MaxRuns \in Nat /\ MaxEdits \in Nat

VARIABLES
  backend,    \* detect_backend, or the platform
  file,       \* RESOLV_CONF
  backup,     \* RESOLV_CONF_BACKUP
  user,       \* what was last in resolv.conf and not written by the client
  over,       \* overrides registered with the host: commands, or services
  primary,    \* macOS: the primary service
  service_id, \* macOS: service_id
  manual,     \* macOS: services with a DNS value the user set
  spoilt,     \* macOS: those of them the client has overwritten or removed
  named,      \* macOS: every service_id so far
  setup,      \* setup
  step,       \* where the client is
  trouble,    \* what excuses an override that stays
  runs, edits

dnsVars == <<backend, file, backup, user, over, primary, service_id, manual, spoilt, named, setup, step, trouble, runs, edits>>
manualVars == <<manual, spoilt, named>>

Backends == {"direct", "resolvectl", "resolvconf", "macos", "windows"}
Steps == {"down", "ready", "linking", "writing", "domain", "held", "restoring", "ended"}

DnsInit ==
  /\ backend \in Backends
  /\ user \in (IF backend = "direct" THEN Contents \cup {Missing} ELSE {Missing}) /\ file = user
  /\ backup = Missing /\ over = {} /\ primary \in (IF backend = "macos" THEN Services ELSE {Missing})
  /\ manual \in SUBSET (IF backend = "macos" THEN Services ELSE {}) /\ spoilt = {} /\ named = {}
  /\ service_id = Missing /\ setup = FALSE /\ step = "down" /\ trouble = {}
  /\ runs = 0 /\ edits = 0

DnsNew ==
  /\ step \in {"down", "ended"} /\ runs < MaxRuns
  /\ runs' = runs + 1 /\ step' = "ready" /\ setup' = FALSE /\ service_id' = Missing
  /\ UNCHANGED <<backend, file, backup, user, over, primary, manualVars, trouble, edits>>

-----------------------------------------------------------------------------
(* set_dns of resolv.conf: backup, then write_atomic.                      *)

BacksUpAlways == file # Missing
BacksUp == file \notin {Missing, Ours}

DirectSet ==
  /\ backend = "direct" /\ step = "ready"
  /\ IF BacksUp THEN backup' = Missing /\ step' = "linking"
     ELSE step' = "writing" /\ UNCHANGED backup
  /\ UNCHANGED <<backend, file, user, over, primary, service_id, manualVars, setup, trouble, runs, edits>>

(* fs::hard_link: it fails if the file is gone by now.                     *)
HardLink(ok) ==
  /\ step = "linking"
  /\ IF ok /\ file # Missing THEN backup' = file /\ step' = "writing"
     ELSE step' = "held" /\ UNCHANGED backup
  /\ UNCHANGED <<backend, file, user, over, primary, service_id, manualVars, setup, trouble, runs, edits>>

write_atomic(ok) ==
  /\ step = "writing"
  /\ step' = "held"
  /\ IF ok THEN file' = Ours /\ setup' = TRUE /\ UNCHANGED trouble
     ELSE trouble' = trouble \cup {"refused"} /\ UNCHANGED <<file, setup>>
  /\ UNCHANGED <<backend, backup, user, over, primary, service_id, manualVars, runs, edits>>

(* reset: a file that is not the client's own is left, and the backup goes. *)
GeneratedByLightway == file = Ours
DirectReset ==
  /\ backend = "direct" /\ step = "held"
  /\ IF ~setup THEN step' = "ended" /\ UNCHANGED <<backup, setup>>
     ELSE IF GeneratedByLightway THEN step' = "restoring" /\ UNCHANGED <<backup, setup>>
     ELSE step' = "ended" /\ backup' = Missing /\ setup' = FALSE
  /\ UNCHANGED <<backend, file, user, over, primary, service_id, manualVars, trouble, runs, edits>>

(* Without a backup it is NoResolvConfBackup, and the client's file stays. *)
Restore(ok) ==
  /\ step = "restoring"
  /\ step' = "ended"
  /\ IF ok /\ backup # Missing THEN file' = backup /\ backup' = Missing /\ setup' = FALSE
     ELSE UNCHANGED <<file, backup, setup>>
  /\ trouble' = IF ~ok /\ backup # Missing THEN trouble \cup {"refused"} ELSE trouble
  /\ UNCHANGED <<backend, user, over, primary, service_id, manualVars, runs, edits>>

-----------------------------------------------------------------------------
(* set_dns through a command or a system call.  resolvectl takes two; a    *)
(* resolvconf that fails may have registered the interface all the same.   *)

CommandSet(ok, done) ==
  /\ backend \in {"resolvectl", "resolvconf"} /\ step = "ready"
  /\ ok => done
  /\ over' = IF done THEN {"dns"} ELSE over
  /\ step' = IF ok /\ backend = "resolvectl" THEN "domain" ELSE "held"
  /\ setup' = (ok /\ backend = "resolvconf")
  /\ trouble' = IF ~ok /\ over' # {} THEN trouble \cup {"refused"} ELSE trouble
  /\ UNCHANGED <<backend, file, backup, user, primary, service_id, manualVars, runs, edits>>

DomainSet(ok) ==
  /\ step = "domain"
  /\ step' = "held" /\ setup' = ok
  /\ over' = IF ok THEN over \cup {"domain"} ELSE over
  /\ UNCHANGED <<backend, file, backup, user, primary, service_id, manualVars, trouble, runs, edits>>

(* macOS: the service, if there is one, is remembered before its value is  *)
(* set, and the cache may fail to be flushed after that.  A value the user *)
(* had set on the service is overwritten.                                  *)
MacSet(ok, flushed) ==
  /\ service_id' = primary /\ named' = named \cup {primary}
  /\ over' = IF ok THEN over \cup {primary} ELSE over
  /\ spoilt' = IF ok THEN spoilt \cup (manual \cap {primary}) ELSE spoilt
MacSetDns(ok, flushed) ==
  /\ backend = "macos" /\ step = "ready"
  /\ IF primary = Missing THEN UNCHANGED <<over, service_id, spoilt, named>> ELSE MacSet(ok, flushed)
  /\ step' = "held"
  /\ UNCHANGED <<backend, file, backup, user, primary, manual, setup, trouble, runs, edits>>

(* Windows: the rule of an earlier run goes first.                         *)
WindowsSetDns(removed, added) ==
  /\ backend = "windows" /\ step = "ready"
  /\ step' = "held" /\ setup' = (removed /\ added)
  /\ over' = IF ~removed THEN over ELSE IF added THEN {"dns"} ELSE {}
  /\ UNCHANGED <<backend, file, backup, user, primary, service_id, manualVars, trouble, runs, edits>>

(* reset_dns.  The interface resolvectl configured goes with the client.   *)
(* The value removed on macOS is the one of service_id, whoever set it.    *)
Removes == CASE backend = "macos" -> over \ {service_id}
             [] backend = "windows" -> {}
             [] OTHER -> IF setup THEN {} ELSE over
CommandReset(ok) ==
  /\ backend # "direct" /\ step = "held"
  /\ step' = "ended"
  /\ over' = IF backend = "resolvectl" THEN {} ELSE IF ok THEN Removes ELSE over
  /\ setup' = (setup /\ ~ok) /\ service_id' = IF ok THEN Missing ELSE service_id
  /\ spoilt' = IF backend = "macos" /\ ok THEN spoilt \cup (manual \cap {service_id}) ELSE spoilt
  /\ trouble' = IF ok \/ over = {} THEN trouble ELSE trouble \cup {"refused"}
  /\ UNCHANGED <<backend, file, backup, user, primary, manual, named, runs, edits>>

-----------------------------------------------------------------------------
Crash ==
  /\ step \notin {"down", "ended"}
  /\ step' = "down" /\ setup' = FALSE /\ service_id' = Missing
  /\ over' = IF backend = "resolvectl" THEN {} ELSE over
  /\ UNCHANGED <<backend, file, backup, user, primary, manualVars, trouble, runs, edits>>

(* Another program writes resolv.conf, in place or by renaming a new file  *)
(* over it, or deletes it.  In place, it also writes a hard link of it.    *)
Rewrite(c, inplace) ==
  /\ backend = "direct" /\ edits < MaxEdits
  /\ edits' = edits + 1 /\ user' = c /\ file' = c
  /\ LET linked == step = "writing" /\ backup # Missing /\ backup = file
     IN /\ backup' = IF inplace /\ linked /\ c # Missing THEN c ELSE backup
        /\ trouble' = IF (step = "writing" /\ backup' # c) \/ step = "restoring"
                      THEN trouble \cup {"raced"} ELSE trouble
  /\ UNCHANGED <<backend, over, primary, service_id, manualVars, setup, step, runs>>

PrimaryMoves(s) ==
  /\ backend = "macos" /\ edits < MaxEdits /\ s # primary
  /\ edits' = edits + 1 /\ primary' = s
  /\ trouble' = IF over = {} THEN trouble ELSE trouble \cup {"moved"}
  /\ UNCHANGED <<backend, file, backup, user, over, service_id, manualVars, setup, step, runs>>

DnsNext ==
  \/ DnsNew \/ DirectSet \/ DirectReset \/ Crash
  \/ \E ok \in BOOLEAN : HardLink(ok) \/ write_atomic(ok) \/ Restore(ok) \/ DomainSet(ok) \/ CommandReset(ok)
  \/ \E ok, done \in BOOLEAN : CommandSet(ok, done) \/ MacSetDns(ok, done) \/ WindowsSetDns(ok, done)
  \/ \E c \in Contents \cup {Missing}, inplace \in BOOLEAN : Rewrite(c, inplace)
  \/ \E s \in Services \cup {Missing} : PrimaryMoves(s)

DnsSpec == DnsInit /\ [][DnsNext]_dnsVars

-----------------------------------------------------------------------------
DnsTypeOK ==
  /\ file \in Contents \cup {Missing, Ours} /\ backup \in Contents \cup {Missing}
  /\ user \in Contents \cup {Missing} /\ step \in Steps
  /\ over \subseteq Services \cup {"dns", "domain"} /\ service_id \in Services \cup {Missing}
  /\ manual \subseteq Services /\ spoilt \subseteq manual

(* The user's resolv.conf survives a crash at any step: it is in place, or *)
(* the client's own is and the backup holds it.  The exceptions are        *)
(* programs that replace the file between the backup and the rename, or    *)
(* between the check and the restore.                                      *)
Recoverable ==
  backend = "direct" /\ "raced" \notin trouble /\ user # Missing =>
    file = user \/ (file = Ours /\ backup = user)

(* A client that ended in order, in this run or after crashes of earlier   *)
(* ones, has left no override, if the host refused nothing, no program     *)
(* raced it and the primary service stayed.  A host that had no resolv.conf*)
(* is left with the client's: there is no backup to restore.               *)
DnsReleased ==
  step = "ended" /\ trouble = {} => over = {} /\ (file = Ours => user = Missing)

(* A DNS value the user had set on a service of a Mac is lost only if the  *)
(* client was pointed at that service: set_dns overwrites it and reset_dns *)
(* removes it, and it is not given back.                                   *)
OtherServicesKept == spoilt \subseteq named

(* Through crashes at any step the user's resolv.conf is kept, and given   *)
(* back, and no override of the client outlives it, with the exceptions    *)
(* the parts name (dns_manager.rs).                                        *)
DnsSafe ==
  /\ DnsTypeOK
  /\ Recoverable
  /\ DnsReleased
  /\ OtherServicesKept
=============================================================================
