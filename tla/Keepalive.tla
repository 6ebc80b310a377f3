------------------------------- MODULE Keepalive -------------------------------
(***************************************************************************)
(* The client's keepalive task: a loop over one channel of messages, an    *)
(* interval that is restarted by every turn of the loop and a timeout that *)
(* is not. Around it, as far as it matters to the task: the tunnel coming  *)
(* Online, pongs, the event task that reports them, the task that reports  *)
(* outside traffic, and the application, which suspends keepalives and     *)
(* reports network changes.                                                *)
(***************************************************************************)
EXTENDS Naturals, Sequences

CONSTANTS
    Intervals,     \* intervals that fit into the timeout
    Capacity,      \* of the channel
    MaxPongs,      \* pongs under way
    MaxCalls       \* calls of the application and of the traffic around the task

ASSUME KeepaliveAssumption ==
    /\ Intervals \in Nat \ {0} /\ Capacity \in Nat \ {0}
    /\ MaxPongs \in Nat \ {0} /\ MaxCalls \in Nat

Events == {"Online", "ReplyReceived"}
AppMessages == {"NetworkChange", "TracerDeltaExceeded", "Suspend"}
Messages == Events \cup AppMessages \cup {"OutsideActivity"}
States == {"Suspended", "Inactive", "Needed", "Waiting", "Pending"}
Results == {"None", "Timedout", "Cancelled"}
Off == Intervals + 1     \* a timeout that is not running

VARIABLES
    state,      \* the task's State
    timeout,    \* Off, or the intervals left until the timeout completes
    result,     \* what the task has returned, "None" while it runs
    continuous, \* Config::continuous
    timely,     \* do answers beat the timeout, and reports of activity find room
    rx,         \* the channel to the task
    events,     \* events on their way through handle_events
    online,     \* is the tunnel Online
    down,       \* has the path gone silent, for good
    pongs,      \* pongs under way
    heard,      \* the I/O task has read frames, and has yet to report activity
    calls       \* calls made so far

keepaliveVars == <<state, timeout, result, continuous, timely, rx, events, online, down, pongs, heard, calls>>
task == <<state, timeout, result, continuous, timely>>
path == <<online, down, pongs, events, heard, calls>>

KeepaliveInit ==
    /\ state = "Inactive" /\ timeout = Off /\ result = "None"
    /\ continuous \in BOOLEAN /\ timely \in BOOLEAN
    /\ rx = <<>> /\ events = <<>>
    /\ online = FALSE /\ down = FALSE /\ pongs = 0
    /\ heard = FALSE /\ calls = 0

(***************************************************************************)
(* The task.                                                               *)
(***************************************************************************)
Running == result = "None"

Take(m) == Running /\ rx # <<>> /\ Head(rx) = m /\ rx' = Tail(rx) /\ UNCHANGED <<result, continuous, timely, path>>

HandleOnline ==
    /\ Take("Online")
    /\ state' = IF state \in {"Inactive", "Suspended"} /\ continuous THEN "Waiting" ELSE state
    /\ UNCHANGED timeout

\* A plausible slip: traffic restarts the interval and leaves the timeout running.
ActivityLeavesTimeout ==
    /\ Take("OutsideActivity")
    /\ UNCHANGED <<state, timeout>>

HandleOutsideActivity ==
    /\ Take("OutsideActivity")
    /\ timeout' = Off
    /\ UNCHANGED state

HandleReplyReceived ==
    /\ Take("ReplyReceived")
    /\ state' = IF continuous THEN "Waiting" ELSE "Inactive"
    /\ timeout' = Off

HandleNetworkChange ==
    /\ Take("NetworkChange")
    /\ state' = "Needed" /\ timeout' = Off

HandleTracerDeltaExceeded ==
    /\ Take("TracerDeltaExceeded")
    /\ state' = IF state \in {"Pending", "Suspended"} THEN state ELSE "Needed"
    /\ UNCHANGED timeout

HandleSuspend ==
    /\ Take("Suspend")
    /\ state' = "Suspended" /\ timeout' = Off

\* conn.keepalive() sends a ping only when Online; its pong sets out unless
\* the path is down.
Pinged == IF online /\ ~down /\ pongs < MaxPongs THEN pongs + 1 ELSE pongs

\* A plausible slip: every keepalive starts the timeout afresh.
RearmAlways(t) == Intervals

\* The timeout is started only if it is not running.
Armed(t) == IF t = Off THEN Intervals ELSE t

\* A keepalive is needed now.
SendNeeded ==
    /\ Running /\ state = "Needed"
    /\ pongs' = Pinged /\ state' = "Pending" /\ timeout' = Armed(timeout)
    /\ UNCHANGED <<result, continuous, timely, rx, events, online, down, heard, calls>>

Passed(t) == IF t \in {Off, 0} THEN t ELSE t - 1

\* Messages restart the interval and not the timeout, of which more may pass.
TimePasses ==
    /\ Running /\ timeout \in 1..Intervals /\ timeout' = timeout - 1
    /\ UNCHANGED <<state, result, continuous, timely, rx, path>>

\* The interval passes, and with it that part of the timeout.
SendInterval ==
    /\ Running /\ state \in {"Pending", "Waiting"}
    /\ pongs' = Pinged /\ state' = "Pending" /\ timeout' = Armed(Passed(timeout))
    /\ UNCHANGED <<result, continuous, timely, rx, events, online, down, heard, calls>>

\* Something is under way that will clear the timeout.
Holds(q, m) == \E i \in 1..Len(q) : q[i] = m
AnswerUnderWay ==
    \/ pongs > 0 /\ ~down
    \/ heard
    \/ Holds(events, "ReplyReceived")
    \/ Holds(rx, "ReplyReceived") \/ Holds(rx, "OutsideActivity")

TimeoutElapses ==
    /\ Running /\ timeout = 0
    /\ timely => ~AnswerUnderWay
    /\ result' = "Timedout"
    /\ UNCHANGED <<state, timeout, continuous, timely, rx, path>>

\* The last handle to the task is dropped.
Cancel ==
    /\ Running /\ result' = "Cancelled"
    /\ UNCHANGED <<state, timeout, continuous, timely, rx, path>>

(***************************************************************************)
(* Around the task.                                                        *)
(***************************************************************************)
HasRoom == Len(rx) < Capacity

\* The reply to the authentication request is read: the Online event.
GoOnline ==
    /\ ~online /\ ~down /\ ~heard
    /\ online' = TRUE /\ heard' = TRUE /\ events' = Append(events, "Online")
    /\ UNCHANGED <<task, rx, down, pongs, calls>>

\* A pong is read: the KeepaliveReply event.
PongArrives ==
    /\ pongs > 0 /\ ~down /\ ~heard /\ Len(events) < MaxPongs
    /\ pongs' = pongs - 1 /\ heard' = TRUE /\ events' = Append(events, "ReplyReceived")
    /\ UNCHANGED <<task, rx, online, down, calls>>

\* Other frames are read.
Traffic ==
    /\ calls < MaxCalls /\ online /\ ~down /\ ~heard
    /\ heard' = TRUE /\ calls' = calls + 1
    /\ UNCHANGED <<task, rx, online, down, pongs, events>>

\* The I/O task reports activity, unless the channel is full (try_send).
OutsideActivity ==
    /\ heard /\ heard' = FALSE
    /\ timely => HasRoom
    /\ rx' = IF HasRoom THEN Append(rx, "OutsideActivity") ELSE rx
    /\ UNCHANGED <<task, online, down, pongs, events, calls>>

\* handle_events passes an event on, waiting for room in the channel.
ForwardEvent ==
    /\ events # <<>> /\ HasRoom
    /\ rx' = Append(rx, Head(events)) /\ events' = Tail(events)
    /\ UNCHANGED <<task, online, down, pongs, heard, calls>>

\* The application calls suspend, the network changes, the tracer fires (never
\* with continuous keepalives).
Call(m) ==
    /\ calls < MaxCalls /\ HasRoom
    /\ m = "TracerDeltaExceeded" => ~continuous
    /\ rx' = Append(rx, m) /\ calls' = calls + 1
    /\ UNCHANGED <<task, online, down, pongs, heard, events>>

\* The path goes silent, with whatever is under way.
PathDown ==
    /\ ~down /\ down' = TRUE
    /\ UNCHANGED <<task, rx, events, online, pongs, heard, calls>>

Handle ==
    \/ HandleOnline \/ HandleOutsideActivity \/ HandleReplyReceived
    \/ HandleNetworkChange \/ HandleTracerDeltaExceeded \/ HandleSuspend

KeepaliveNext ==
    \/ Handle \/ SendNeeded \/ SendInterval \/ TimePasses \/ TimeoutElapses \/ Cancel
    \/ GoOnline \/ PongArrives \/ Traffic \/ OutsideActivity \/ ForwardEvent \/ PathDown
    \/ \E m \in AppMessages : Call(m)

KeepaliveSpec == KeepaliveInit /\ [][KeepaliveNext]_keepaliveVars

(* The task is run, its timers fire, handle_events and the I/O task run.   *)
Fairness ==
    /\ WF_keepaliveVars(Handle) /\ WF_keepaliveVars(SendNeeded) /\ WF_keepaliveVars(SendInterval)
    /\ WF_keepaliveVars(TimeoutElapses) /\ WF_keepaliveVars(ForwardEvent) /\ WF_keepaliveVars(OutsideActivity)
LiveSpec == KeepaliveSpec /\ Fairness

(***************************************************************************)
(* Properties.                                                             *)
(***************************************************************************)
KeepaliveTypeOK ==
    /\ state \in States /\ timeout \in 0..Off
    /\ result \in Results /\ continuous \in BOOLEAN
    /\ rx \in Seq(Messages) /\ events \in Seq(Events)
    /\ online \in BOOLEAN /\ down \in BOOLEAN /\ heard \in BOOLEAN /\ timely \in BOOLEAN
    /\ pongs \in Nat /\ calls \in Nat

\* What the comment above the timeout branch of keepalive() relies on: the
\* timeout runs only while a reply is pending, through every message handled.
TimeoutOnlyPending == timeout # Off => state = "Pending"

\* On a path that is up, whose answers beat the timeout, an Online tunnel is
\* never taken for dead: each reply and all traffic clear the timeout.
NoFalseAlarm == [][timely /\ Running /\ result' = "Timedout" => down \/ ~online]_keepaliveVars

\* With continuous keepalives, an Online tunnel whose path has gone silent is
\* given up unless keepalives stay suspended: from every state of the task the
\* next keepalive is due, and the repeats do not put the timeout off.
SilenceFound ==
    <>[](continuous /\ online /\ down /\ state # "Suspended") => <>~Running
=============================================================================
