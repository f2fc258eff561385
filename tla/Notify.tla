-------------------------------- MODULE Notify --------------------------------
(***************************************************************************)
(* Telling the household about an incident (app/services/notifications):   *)
(* every replica schedules dispatch tasks, and the tasks of all replicas   *)
(* meet only in notification_deliveries, whose rows are at once the dedupe *)
(* record and the hourly window.  A replica also remembers for a while     *)
(* that no channel is configured.                                          *)
(*                                                                         *)
(* An alert is what one dedupe key names: an incident, a reason and, for   *)
(* an escalation, its level.  Both replicas may raise the same one, each   *)
(* of them once between two of its crashes.                                *)
(***************************************************************************)
EXTENDS Integers, FiniteSets

CONSTANTS
    NtReplicas, NtChannels, NtAlerts,
    NtJobs,          \* which replica may raise which alert
    NtSeverity,      \* the severity rank of each alert
    NtFloor,         \* min_severity of each channel
    NtPolicyFloor,   \* min_severity of the household
    NtOverride,      \* quiet_hours_override_severity
    NtLimit,         \* max_per_hour
    NtHour,          \* the trailing window, in ticks
    NtCacheTTL,      \* _NO_CHANNEL_TTL_SECONDS, in ticks
    NtClock,         \* bound: ticks
    NtMishaps        \* bound: crashes, and changes of a channel by the administrator

ASSUME NotifyAssumption ==
    /\ NtJobs \subseteq NtReplicas \X NtAlerts
    /\ NtSeverity \in [NtAlerts -> Nat] /\ NtFloor \in [NtChannels -> Nat]
    /\ {NtPolicyFloor, NtOverride, NtCacheTTL, NtMishaps} \subseteq Nat
    /\ {NtLimit, NtHour, NtClock} \subseteq Nat \ {0}

VARIABLES
    ntNow,
    channelState,    \* "off" (or not created yet), "on" or "deleted"
    onSince,         \* history: when a channel was last enabled
    noneUntil,       \* _no_channels_until of each replica; 0 is None
    tasks,           \* the dispatch of each alert on each replica
    deliveries,      \* notification_deliveries
    sent,            \* history: the sends that were made
    ntMishaps

notifyVars == <<ntNow, channelState, onSince, noneUntil, tasks, deliveries, sent, ntMishaps>>

NtIdle  == [pc |-> "idle", specs |-> {}, at |-> {}]
NtAlert(t) == t[2]

\* should_notify: quiet hours never hold back what is severe enough.
ShouldNotify(a, quiet) ==
    /\ NtSeverity[a] >= NtPolicyFloor
    /\ quiet => NtSeverity[a] >= NtOverride

Remembered(r) == noneUntil[r] > ntNow      \* no_channels_configured
Enabled == {c \in NtChannels : channelState[c] = "on"}

\* notify_incident: schedules the dispatch, which reads the policy first.
NtNotify(t, quiet) ==
    /\ tasks[t].pc = "idle" /\ ~Remembered(t[1])
    /\ ShouldNotify(NtAlert(t), quiet)
    /\ tasks' = [tasks EXCEPT ![t].pc = "policy"]
    /\ UNCHANGED <<ntNow, channelState, onSince, noneUntil, deliveries, sent, ntMishaps>>

\* enabled_channels: the rows are read, and after the await the replica
\* remembers whether there were any.
NtSelect(t) ==
    /\ tasks[t].pc = "policy"
    /\ tasks' = [tasks EXCEPT ![t] = [pc |-> "selected", specs |-> Enabled, at |-> {}]]
    /\ UNCHANGED <<ntNow, channelState, onSince, noneUntil, deliveries, sent, ntMishaps>>

RememberUntil(specs) == IF specs = {} THEN ntNow + NtCacheTTL ELSE 0
NtRemember(t) ==
    /\ tasks[t].pc = "selected"
    /\ noneUntil' = [noneUntil EXCEPT ![t[1]] = RememberUntil(tasks[t].specs)]
    /\ tasks' = [tasks EXCEPT ![t].pc = "next"]
    /\ UNCHANGED <<ntNow, channelState, onSince, deliveries, sent, ntMishaps>>

\* The loop is over: every channel was tried.
NtReturn(t) ==
    /\ tasks[t].pc = "next" /\ tasks[t].specs = {}
    /\ tasks' = [tasks EXCEPT ![t].pc = "over"]
    /\ UNCHANGED <<ntNow, channelState, onSince, noneUntil, deliveries, sent, ntMishaps>>

Past(t, c) == [tasks EXCEPT ![t] = [pc |-> "next", specs |-> @.specs \ {c}, at |-> {}]]

BelowFloor(t, c) ==
    /\ tasks[t].pc = "next" /\ c \in tasks[t].specs
    /\ NtSeverity[NtAlert(t)] < NtFloor[c]
    /\ tasks' = Past(t, c)
    /\ UNCHANGED <<ntNow, channelState, onSince, noneUntil, deliveries, sent, ntMishaps>>

\* claim_delivery: the insert is refused when the pair has a row.
TakenNever(c, a) == c \notin NtChannels  \* mutant: no unique constraint
Taken(c, a) == \E d \in deliveries : d.channel = c /\ d.alert = a
NtClaim(t, c) ==
    /\ tasks[t].pc = "next" /\ c \in tasks[t].specs
    /\ NtSeverity[NtAlert(t)] >= NtFloor[c]
    /\ IF Taken(c, NtAlert(t))
       THEN tasks' = Past(t, c) /\ UNCHANGED deliveries
       ELSE /\ tasks' = [tasks EXCEPT ![t] = [@ EXCEPT !.pc = "count", !.at = {c}]]
            /\ deliveries' = deliveries \union
                  {[channel |-> c, alert |-> NtAlert(t), at |-> ntNow, status |-> "pending"]}
    /\ UNCHANGED <<ntNow, channelState, onSince, noneUntil, sent, ntMishaps>>

\* recent_delivery_count: the claims of the trailing window but one's own.
Recent(c, a) ==
    Cardinality({d \in deliveries : d.channel = c /\ d.alert # a /\ d.at >= ntNow - NtHour})

\* finish_delivery, if the row is still there.
Finished(c, a, status) ==
    {IF d.channel = c /\ d.alert = a THEN [d EXCEPT !.status = status] ELSE d : d \in deliveries}

NtCount(t, c) ==
    /\ tasks[t].pc = "count" /\ c \in tasks[t].at
    /\ IF Recent(c, NtAlert(t)) >= NtLimit
       THEN tasks' = Past(t, c) /\ deliveries' = Finished(c, NtAlert(t), "rate_limited")
       ELSE tasks' = [tasks EXCEPT ![t].pc = "send"] /\ UNCHANGED deliveries
    /\ UNCHANGED <<ntNow, channelState, onSince, noneUntil, sent, ntMishaps>>

\* The send; whether it arrived is known or not, and a failed one is not retried.
NtSend(t, c) ==
    /\ tasks[t].pc = "send" /\ c \in tasks[t].at
    /\ tasks' = [tasks EXCEPT ![t].pc = "finish"]
    /\ \E d \in deliveries \union {[channel |-> c, alert |-> NtAlert(t), at |-> ntNow, status |-> "pending"]} :
          /\ d.channel = c /\ d.alert = NtAlert(t)
          /\ Taken(c, NtAlert(t)) => d \in deliveries
          /\ sent' = sent \union {[channel |-> c, by |-> t, alert |-> NtAlert(t), claimed |-> d.at,
                                    life |-> ntMishaps]}
    /\ UNCHANGED <<ntNow, channelState, onSince, noneUntil, deliveries, ntMishaps>>

\* "done" stands for sent and for failed.
NtFinish(t, c) ==
    /\ tasks[t].pc = "finish" /\ c \in tasks[t].at
    /\ deliveries' = Finished(c, NtAlert(t), "done")
    /\ tasks' = Past(t, c)
    /\ UNCHANGED <<ntNow, channelState, onSince, noneUntil, sent, ntMishaps>>

\* The administrator, on any replica: a change is known to that replica at once.
SetChannel(r, c, state) ==
    /\ state # channelState[c] /\ channelState[c] # "deleted"
    /\ ntMishaps < NtMishaps /\ ntMishaps' = ntMishaps + 1
    /\ channelState' = [channelState EXCEPT ![c] = state]
    /\ onSince' = [onSince EXCEPT ![c] = IF state = "on" THEN ntNow ELSE @]
    /\ deliveries' = IF state = "deleted" THEN {d \in deliveries : d.channel # c} ELSE deliveries
    /\ noneUntil' = [noneUntil EXCEPT ![r] = 0]
    /\ UNCHANGED <<ntNow, tasks, sent>>

NtCrash(r) ==
    /\ ntMishaps < NtMishaps /\ ntMishaps' = ntMishaps + 1
    /\ tasks' = [t \in NtJobs |-> IF t[1] = r THEN NtIdle ELSE tasks[t]]
    /\ noneUntil' = [noneUntil EXCEPT ![r] = 0]
    /\ UNCHANGED <<ntNow, channelState, onSince, deliveries, sent>>

\* A tick is long beside two database statements, but not beside a send.
NtTick ==
    /\ ntNow < NtClock
    /\ \A t \in NtJobs : tasks[t].pc \notin {"selected", "count"}
    /\ ntNow' = ntNow + 1
    /\ UNCHANGED <<channelState, onSince, noneUntil, tasks, deliveries, sent, ntMishaps>>

NotifyInit ==
    /\ ntNow = 1
    /\ channelState \in [NtChannels -> {"off", "on"}]
    /\ onSince = [c \in NtChannels |-> 1] /\ noneUntil = [r \in NtReplicas |-> 0]
    /\ tasks = [t \in NtJobs |-> NtIdle] /\ deliveries = {} /\ sent = {}
    /\ ntMishaps = 0

NtStep(t) ==
    \/ \E quiet \in BOOLEAN : NtNotify(t, quiet)
    \/ NtSelect(t) \/ NtRemember(t) \/ NtReturn(t)
    \/ \E c \in NtChannels :
          BelowFloor(t, c) \/ NtClaim(t, c) \/ NtCount(t, c) \/ NtSend(t, c) \/ NtFinish(t, c)

NotifyNext ==
    \/ \E t \in NtJobs : NtStep(t)
    \/ \E r \in NtReplicas, c \in NtChannels, s \in {"on", "off", "deleted"} : SetChannel(r, c, s)
    \/ \E r \in NtReplicas : NtCrash(r)
    \/ NtTick

NotifySpec == NotifyInit /\ [][NotifyNext]_notifyVars

\* --- properties ------------------------------------------------------------

\* Every variable has its type.
NotifyTypeOK ==
    /\ ntNow \in 1..NtClock /\ ntMishaps \in 0..NtMishaps
    /\ channelState \in [NtChannels -> {"off", "on", "deleted"}]
    /\ onSince \in [NtChannels -> 1..NtClock]
    /\ noneUntil \in [NtReplicas -> 0..(NtClock + NtCacheTTL)]
    /\ tasks \in [NtJobs -> [pc : {"idle", "policy", "selected", "next", "count", "send", "finish", "over"},
                             specs : SUBSET NtChannels, at : SUBSET NtChannels]]
    /\ deliveries \subseteq [channel : NtChannels, alert : NtAlerts, at : 1..NtClock,
                             status : {"pending", "done", "rate_limited"}]

\* One alert reaches a channel once, whichever replicas raise it and whenever
\* they crash (claim_delivery, and no retry of a failed send); a channel that
\* was deleted in between has lost its rows and is left out.
SentOnce ==
    \A s1, s2 \in sent :
        s1.channel = s2.channel /\ s1.alert = s2.alert /\ channelState[s1.channel] # "deleted"
            => s1 = s2

\* No channel gets more than max_per_hour alerts claimed within one hour, with
\* tasks of several replicas claiming and counting at the same time.
HourlyLimit ==
    \A c \in NtChannels, from \in 1..NtClock :
        channelState[c] # "deleted" =>
            Cardinality({s \in sent : s.channel = c /\ s.claimed \in from..(from + NtHour)}) <= NtLimit

\* A channel enabled on one replica is noticed by every other one within the
\* time to live: none of them still believes there is no channel.
ChannelNoticed ==
    \A r \in NtReplicas, c \in NtChannels :
        channelState[c] = "on" /\ ntNow >= onSince[c] + NtCacheTTL => ~Remembered(r)

\* The promises of dispatch: each alert once, at a bearable rate, and a channel
\* that was just set up is used.
AlertsAreRationed == SentOnce /\ HourlyLimit /\ ChannelNoticed
================================================================================
