---------------------------- MODULE FaultPolicy ----------------------------
(***************************************************************************)
(* Sunspot::FaultPolicy as TbcSessionProxy uses it (fault_policy.rb,       *)
(* session_proxy/tbc_session_proxy.rb): hosts are taken in turn, a failing *)
(* host is charged, a host charged three times is passed over, a failing   *)
(* call is tried again a bounded number of times.                          *)
(*                                                                         *)
(* A call of the proxy first makes one session per collection it needs     *)
(* (gen_session, each taking a host), then makes its requests.  Everything *)
(* the policy knows is in instance variables of the proxy, which the       *)
(* threads that share the proxy share.  The Redis store is not modelled.   *)
(***************************************************************************)
EXTENDS Naturals, FiniteSets, Sequences, Sorting

CONSTANTS
    Threads,        \* threads that use the proxy
    Hosts,          \* host names; numbers, so that they sort
    Seeds,          \* config.hostnames, in order
    Calls,          \* the calls the application makes
    MaxRetries,     \* max_retries of the proxy
    AdminRequests,  \* TRUE if the list of live nodes may have to be asked for
    Odd,            \* what may happen to a request on a host that is up:
                    \* subset of {"4xx", "5xx", "timeout"}
    MaxCalls,       \* bound: calls in a behaviour
    MaxFlips,       \* bound: hosts going down or coming back
    MaxHours        \* bound: hours that pass

ASSUME HostsAssumption ==
    /\ IsFiniteSet(Hosts)
    /\ Hosts \subseteq Nat \ {0}
    /\ Seeds \in Seq(Hosts)
    /\ Seeds # << >>

ASSUME RetriesAssumption ==
    /\ MaxRetries \in Nat
    /\ MaxCalls \in Nat
    /\ MaxFlips \in Nat
    /\ MaxHours \in Nat

VARIABLES
    up,         \* hosts that answer
    nodes,      \* the cached list of live nodes
    faults,     \* @faulty_hosts: the counts, 0 for a host without an entry
    old,        \* hosts whose last fault is more than an hour ago
    hostIndex,  \* @host_index
    current,    \* @current_hostname
    run,        \* per thread, the call it makes
    failed,     \* history: per host, requests it failed since a call that had a
                \* session on it ended well
    troubled,   \* history: hosts that have been down or failed a request
    calls, flips, hours  \* how much of the bounds is used

vars == <<up, nodes, faults, old, hostIndex, current, run, failed,
          troubled, calls, flips, hours>>
policy == <<faults, old, hostIndex, current>>
clocks == <<troubled, calls, flips, hours>>

Nobody == 0  \* nil

SeedSet == {Seeds[i] : i \in DOMAIN Seeds}

(***************************************************************************)
(* A call: its kind, how many sessions it makes (groups), and which of     *)
(* them each of its requests goes to, in order (to).  The requests of one  *)
(* session may be several: index! and remove! commit after the update, and *)
(* remove sends one request per object.                                    *)
(*                                                                         *)
(* "update": index, remove, commit, optimize, remove_all, remove_by_id and *)
(* their like.  "remove_by_id!": a handler inside a handler, one session.  *)
(* "search": its block returns from the method.  "probe": dirty? and       *)
(* delete_dirty?, which make sessions and send nothing, without a handler. *)
(***************************************************************************)
Requests(kind) == CASE kind = "probe" -> {<< >>}
                    [] kind = "search" -> {<<1>>}
                    [] kind = "remove_by_id!" -> {<<1, 1>>}
                    [] OTHER -> Seq(Nat \ {0}) \ {<< >>}

ASSUME CallsAssumption ==
    /\ Calls \subseteq [kind : {"update", "probe", "search", "remove_by_id!"},
                       groups : Nat \ {0}, to : Seq(Nat \ {0})]
    /\ \A c \in Calls :
         /\ c.to \in Requests(c.kind)
         /\ \A i \in DOMAIN c.to : c.to[i] <= c.groups

Sends(call) == Len(call.to)

(***************************************************************************)
(* A thread: where it is (pc), the hosts it may take (selected), the hosts *)
(* of the sessions it made (taken), its requests that went well (sent),    *)
(* the retries of the outer and of the inner handler, the tries that       *)
(* failed, and how its last call ended.                                    *)
(***************************************************************************)
Fresh == [pc |-> "idle", call |-> [kind |-> "none", groups |-> 0, to |-> << >>],
          selected |-> << >>, taken |-> << >>, sent |-> 0,
          retries |-> 0, inner |-> 0, tries |-> 0, ended |-> "none"]

\* The call of the thread is over; what it was and its tries are remembered.
Over(r, ended) == [Fresh EXCEPT !.call = r.call, !.tries = r.tries, !.ended = ended]

Becomes(t, state) == run' = [run EXCEPT ![t] = state]

Init ==
    /\ up = Hosts
    /\ nodes = Hosts
    /\ faults = [h \in Hosts |-> 0]
    /\ old = {}
    /\ hostIndex = 0
    /\ current = Nobody
    /\ run = [t \in Threads |-> Fresh]
    /\ failed = [h \in Hosts |-> 0]
    /\ troubled = {}
    /\ calls = 0
    /\ flips = 0
    /\ hours = 0

FaultLimit == 3

Faulty(h) == faults[h] >= FaultLimit

Begin(t, call) ==
    /\ run[t].pc = "idle"
    /\ calls < MaxCalls
    /\ calls' = calls + 1
    /\ Becomes(t, [Fresh EXCEPT !.pc = "select", !.call = call])
    /\ UNCHANGED <<up, nodes, policy, failed, troubled, flips, hours>>

-----------------------------------------------------------------------------
(* Failing: with_exception_handling.                                       *)

\* update_faulty_host for the current host, once per handler that sees the
\* exception, then clean_faulty_state, which forgets what is an hour old.
Charge(n) ==
    LET fresh == old \ IF n > 0 THEN {current} ELSE {} IN
    /\ faults' = [h \in Hosts |->
                     (IF h \in fresh THEN 0 ELSE faults[h])
                         + (IF h = current THEN n ELSE 0)]
    /\ old' = {}

\* The inner handler of remove_by_id! is around its first request only.
InInner(r) == r.call.kind = "remove_by_id!" /\ r.pc = "send" /\ r.sent = 0

\* Seeded fault: the inner handler does not count its retries.
InnerRetryUncounted(r) == [r EXCEPT !.tries = @ + 1]

\* The block of the inner handler is tried again, over the same session.
InnerRetry(r) == [r EXCEPT !.inner = @ + 1, !.tries = @ + 1]

\* The block of the outer handler is tried again from its beginning.
OuterRetry(r) == [r EXCEPT !.pc = "select", !.selected = << >>, !.taken = << >>,
                           !.sent = 0, !.inner = 0,
                           !.retries = @ + 1, !.tries = @ + 1]

\* Seeded fault: one retry too many.
MayRetryOnceMore(r) == r.retries <= MaxRetries

MayRetry(r) == r.retries < MaxRetries

\* An exception the handlers rescue; server is server_fault_exception?.
Fails(t, server) ==
    LET r == run[t]
        again == InInner(r) /\ r.inner < MaxRetries
        seen == IF InInner(r) /\ ~again THEN 2 ELSE 1
    IN  /\ Charge(IF server THEN seen ELSE 0)
        /\ Becomes(t, IF again THEN InnerRetry(r)
                      ELSE IF MayRetry(r) THEN OuterRetry(r)
                      ELSE Over([r EXCEPT !.tries = @ + 1], "exhausted"))
        /\ UNCHANGED <<hostIndex, current>>

-----------------------------------------------------------------------------
(* take_hostname, which gen_session calls.                                 *)

Selected(list) ==
    LET good == {h \in list \cup SeedSet : ~Faulty(h)}
    IN  IF good = {} THEN Seeds ELSE Sorted(good)

\* live_nodes answers from its cache, or asks a seed host.
Select(t) ==
    /\ run[t].pc = "select"
    /\ \/ UNCHANGED nodes
       \/ AdminRequests /\ SeedSet \cap up # {} /\ nodes' = up
    /\ Becomes(t, [run[t] EXCEPT !.pc = "force", !.selected = Selected(nodes')])
    /\ UNCHANGED <<up, policy, failed, clocks>>

\* The seed host that live_nodes, or collections, asks does not answer.
SelectFails(t) ==
    /\ run[t].pc = "select"
    /\ AdminRequests
    /\ \E h \in SeedSet \ up : failed' = [failed EXCEPT ![h] = @ + 1]
    /\ IF run[t].call.kind = "probe"
       THEN Becomes(t, Over(run[t], "raised")) /\ UNCHANGED policy
       ELSE Fails(t, TRUE)
    /\ UNCHANGED <<up, nodes, clocks>>

ForceIndex(t) ==
    /\ run[t].pc = "force"
    /\ hostIndex' = hostIndex % Len(run[t].selected)
    /\ Becomes(t, [run[t] EXCEPT !.pc = "pick"])
    /\ UNCHANGED <<up, nodes, faults, old, current, failed, clocks>>

\* nil if another thread has moved the turn past the end of this selection.
PickHost(t) ==
    LET list == run[t].selected IN
    /\ run[t].pc = "pick"
    /\ current' = IF hostIndex < Len(list) THEN list[hostIndex + 1] ELSE Nobody
    /\ Becomes(t, [run[t] EXCEPT !.pc = "read"])
    /\ UNCHANGED <<up, nodes, faults, old, hostIndex, failed, clocks>>

\* The next line reads the current host again, and splits it.
ReadHost(t) ==
    /\ run[t].pc = "read"
    /\ current # Nobody
    /\ Becomes(t, [run[t] EXCEPT !.pc = "advance", !.taken = Append(@, current)])
    /\ UNCHANGED <<up, nodes, policy, failed, clocks>>

\* nil.split raises NoMethodError, which no handler retries.
ReadNothing(t) ==
    /\ run[t].pc = "read"
    /\ current = Nobody
    /\ Becomes(t, Over(run[t], "raised"))
    /\ UNCHANGED <<up, nodes, policy, failed, clocks>>

\* Seeded fault: the turn stays where it is.
SameTurn(n) == hostIndex % n

NextTurn(n) == (hostIndex + 1) % n

Advance(t) ==
    LET r == run[t] IN
    /\ r.pc = "advance"
    /\ hostIndex' = NextTurn(Len(r.selected))
    /\ Becomes(t, IF Len(r.taken) < r.call.groups THEN [r EXCEPT !.pc = "select"]
                  ELSE IF Sends(r.call) = 0 THEN Over(r, "returned")
                  ELSE [r EXCEPT !.pc = "send"])
    /\ UNCHANGED <<up, nodes, faults, old, current, failed, clocks>>

-----------------------------------------------------------------------------
(* The requests of the call.                                               *)

\* The session the next request of t goes to was made for this host.
Target(r) == r.taken[r.call.to[r.sent + 1]]

\* Seeded fault: a success forgives nothing.
ResetNothing == UNCHANGED <<faults, old>>

\* reset_counter_faulty(@current_hostname)
Reset ==
    /\ faults' = [h \in Hosts |-> IF h = current THEN 0 ELSE faults[h]]
    /\ old' = old \ {current}

\* Seeded fault: the same request again.
NothingSent(r) == r

OneSent(r) == [r EXCEPT !.sent = @ + 1]

\* A handler whose block is done resets the current host.  The block of search
\* returns from the method, past the reset.
Succeed(t) ==
    LET r == run[t]
        done == r.sent + 1 = Sends(r.call)
    IN  /\ r.pc = "send"
        /\ Target(r) \in up
        /\ IF (done /\ r.call.kind # "search") \/ InInner(r)
           THEN Reset ELSE UNCHANGED <<faults, old>>
        /\ failed' = [h \in Hosts |-> IF done /\ \E i \in DOMAIN r.taken : r.taken[i] = h
                                     THEN 0 ELSE failed[h]]
        /\ Becomes(t, IF done THEN Over(r, "returned") ELSE OneSent(r))
        /\ UNCHANGED <<up, nodes, hostIndex, current, clocks>>

\* Connection refused, or a 5xx of a host that may be up.
Refused(t) ==
    /\ run[t].pc = "send"
    /\ Target(run[t]) \notin up \/ "5xx" \in Odd
    /\ failed' = [failed EXCEPT ![Target(run[t])] = @ + 1]
    /\ Fails(t, TRUE)
    /\ troubled' = troubled \cup {Target(run[t])}
    /\ UNCHANGED <<up, nodes, calls, flips, hours>>

\* An RSolr::Error::Http that is not a 5xx: retried, nobody is charged.
Rejected(t) ==
    /\ "4xx" \in Odd
    /\ run[t].pc = "send"
    /\ Target(run[t]) \in up
    /\ Fails(t, FALSE)
    /\ troubled' = troubled \cup {Target(run[t])}
    /\ UNCHANGED <<up, nodes, failed, calls, flips, hours>>

\* Any other error leaves at once.
TimesOut(t) ==
    /\ "timeout" \in Odd
    /\ run[t].pc = "send"
    /\ Becomes(t, Over(run[t], "raised"))
    /\ UNCHANGED <<up, nodes, policy, failed, clocks>>

-----------------------------------------------------------------------------
(* The world.                                                              *)

HostDown(h) ==
    /\ flips < MaxFlips
    /\ h \in up
    /\ up' = up \ {h}
    /\ troubled' = troubled \cup {h}
    /\ flips' = flips + 1
    /\ UNCHANGED <<nodes, policy, run, failed, calls, hours>>

HostUp(h) ==
    /\ flips < MaxFlips
    /\ h \in Hosts \ up
    /\ up' = up \cup {h}
    /\ flips' = flips + 1
    /\ UNCHANGED <<nodes, policy, run, failed, troubled, calls, hours>>

HourPasses ==
    /\ hours < MaxHours
    /\ hours' = hours + 1
    /\ old' = {h \in Hosts : faults[h] > 0}
    /\ UNCHANGED <<up, nodes, faults, hostIndex, current, run, failed, troubled,
                   calls, flips>>

Step(t) ==
    \/ Select(t) \/ SelectFails(t)
    \/ ForceIndex(t) \/ PickHost(t) \/ ReadHost(t) \/ ReadNothing(t) \/ Advance(t)
    \/ Succeed(t) \/ Refused(t) \/ Rejected(t) \/ TimesOut(t)

Next ==
    \/ \E t \in Threads : Step(t) \/ \E call \in Calls : Begin(t, call)
    \/ \E h \in Hosts : HostDown(h) \/ HostUp(h)
    \/ HourPasses

Spec == Init /\ [][Next]_vars

\* The threads keep running.
FairSpec == Spec /\ \A t \in Threads : WF_vars(Step(t))
-----------------------------------------------------------------------------
(* Properties.                                                             *)

Endings == {"none", "returned", "raised", "exhausted"}

TypeOK ==
    /\ up \subseteq Hosts
    /\ nodes \subseteq Hosts
    /\ faults \in [Hosts -> Nat]
    /\ old \subseteq Hosts
    /\ hostIndex \in Nat
    /\ current \in Hosts \cup {Nobody}
    /\ failed \in [Hosts -> Nat]
    /\ troubled \subseteq Hosts
    /\ run \in [Threads ->
         [pc : {"idle", "select", "force", "pick", "read", "advance", "send"},
          call : Calls \cup {[kind |-> "none", groups |-> 0, to |-> << >>]},
          selected : Seq(Hosts), taken : Seq(Hosts), sent : Nat,
          retries : 0 .. MaxRetries, inner : 0 .. MaxRetries, tries : Nat,
          ended : Endings]]

\* with_exception_handling: a call is given up after max_retries retries and
\* not before, also when one handler runs inside another.
GivesUpInTime ==
    \A t \in Threads :
        /\ run[t].tries <= (MaxRetries + 1) * (MaxRetries + 1)
        /\ run[t].call.kind # "remove_by_id!" => run[t].tries <= MaxRetries + 1
        /\ run[t].ended = "exhausted" => run[t].tries > MaxRetries

\* faulty?: "in fault state if and only if number of fault >= 3".  A host that is
\* passed over has failed three requests since a call on it ended well, each of
\* which was charged to it and to no other host; and one that failed three is
\* passed over, unless faults have been forgotten after an hour.
FaultyMeansFailed ==
    \A h \in Hosts :
        /\ Faulty(h) => failed[h] >= FaultLimit
        /\ hours = 0 /\ failed[h] >= FaultLimit => Faulty(h)

\* As long as only one host has ever been in trouble, the turn passes it: no call is
\* given up.
OneDownTolerated ==
    Cardinality(troubled) <= 1 => \A t \in Threads : run[t].ended # "exhausted"

\* Whatever fails, every call ends.
EveryCallEnds == \A t \in Threads : run[t].pc # "idle" ~> run[t].pc = "idle"
=============================================================================
