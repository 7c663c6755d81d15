------------------------- MODULE FaultPolicyProofs -------------------------
(***************************************************************************)
(* Proofs about the fault policy.  For any number of threads, hosts,       *)
(* collections and retries: its types, and that with_exception_handling    *)
(* gives a call up in time.  For one thread whose calls write to one       *)
(* collection each, with any number of requests: just the hosts that       *)
(* failed three requests are faulty, and one host in trouble is passed     *)
(* over.                                                                   *)
(***************************************************************************)
EXTENDS FaultPolicy, SortingProofs, SequenceTheorems

\* A thread's record has these fields and no other.
Record(r) == DOMAIN r = {"pc", "call", "selected", "taken", "sent", "retries",
                         "inner", "tries", "ended"}

\* While a call runs, its failed tries are those its handlers have counted: a
\* round of the outer handler costs at most MaxRetries + 1 of them.
Running(r) ==
    /\ r.retries <= r.tries
    /\ r.tries <= r.retries * (MaxRetries + 1) + r.inner
    /\ r.call.kind # "remove_by_id!" => r.tries = r.retries /\ r.inner = 0
    /\ r.ended = "none"

Ended(r) ==
    /\ r.tries <= (MaxRetries + 1) * (MaxRetries + 1)
    /\ r.call.kind # "remove_by_id!" => r.tries <= MaxRetries + 1
    /\ r.ended = "exhausted" => r.tries > MaxRetries

Counted(r) ==
    /\ Record(r)
    /\ r.retries \in 0 .. MaxRetries
    /\ r.inner \in 0 .. MaxRetries
    /\ r.tries \in Nat
    /\ IF r.pc = "idle" THEN Ended(r) ELSE Running(r)

TriesCounted ==
    /\ DOMAIN run = Threads
    /\ run = [t \in Threads |-> run[t]]
    /\ \A t \in Threads : Counted(run[t])

-----------------------------------------------------------------------------
(* Arithmetic of the bound.                                                *)

\* One more round costs MaxRetries + 1 more tries.
LEMMA RoundCost ==
    ASSUME NEW m \in Nat, NEW r \in Nat
    PROVE  /\ r * (m + 1) \in Nat
           /\ (r + 1) * (m + 1) = r * (m + 1) + (m + 1)
  OBVIOUS

\* Rounds within the limit stay within the bound of the whole call.
LEMMA RoundsBounded ==
    ASSUME NEW m \in Nat, NEW r \in 0 .. m
    PROVE  /\ r * (m + 1) \in Nat
           /\ r * (m + 1) + m + 1 <= (m + 1) * (m + 1)
<1>1. r * (m + 1) \in Nat
  OBVIOUS
<1>2. PICK d \in Nat : r + d = m
  <2>1. m - r \in Nat /\ r + (m - r) = m
    OBVIOUS
  <2> QED BY <2>1
<1>3. (m + 1) * (m + 1) = r * (m + 1) + d * (m + 1) + (m + 1)
  BY <1>2
<1>4. d * (m + 1) \in Nat
  OBVIOUS
<1> QED BY <1>1, <1>3, <1>4

-----------------------------------------------------------------------------
(* What the steps do to one thread's record.                               *)

\* Changing where a running call is, and what it has taken or sent, counts nothing.
LEMMA MovesCounted ==
    ASSUME NEW r, Counted(r), r.pc # "idle", NEW q, Record(q), q.pc # "idle",
           q.call = r.call, q.retries = r.retries, q.inner = r.inner,
           q.tries = r.tries, q.ended = r.ended
    PROVE  Counted(q)
  BY DEF Counted, Running

\* The two moves that change a list of the thread as well.
LEMMA ListMovesCounted ==
    ASSUME NEW r, Counted(r), r.pc # "idle", NEW list
    PROVE  /\ Counted([r EXCEPT !.pc = "force", !.selected = list])
           /\ Counted([r EXCEPT !.pc = "advance", !.taken = list])
<1>1. Record(r)
  BY DEF Counted
<1> DEFINE q1 == [r EXCEPT !.pc = "force", !.selected = list]
           q2 == [r EXCEPT !.pc = "advance", !.taken = list]
<1>2. /\ Record(q1) /\ q1.pc = "force" /\ q1.call = r.call /\ q1.retries = r.retries
      /\ q1.inner = r.inner /\ q1.tries = r.tries /\ q1.ended = r.ended
  BY <1>1 DEF Record
<1>3. /\ Record(q2) /\ q2.pc = "advance" /\ q2.call = r.call /\ q2.retries = r.retries
      /\ q2.inner = r.inner /\ q2.tries = r.tries /\ q2.ended = r.ended
  BY <1>1 DEF Record
<1>4. Counted(q1) /\ Counted(q2)
  <2> HIDE DEF q1, q2
  <2> QED BY <1>2, <1>3, MovesCounted
<1> QED BY <1>4

\* A running call ends within the bound, whatever ends it.
LEMMA OverCounted ==
    ASSUME NEW r, Counted(r), r.pc # "idle", NEW ended, ended # "exhausted"
    PROVE  Counted(Over(r, ended))
<1>1. /\ r.retries \in 0 .. MaxRetries /\ r.inner \in 0 .. MaxRetries
      /\ r.tries \in Nat /\ Running(r)
  BY DEF Counted
<1>2. MaxRetries \in Nat
  BY RetriesAssumption
<1>3. /\ r.retries * (MaxRetries + 1) \in Nat
      /\ r.retries * (MaxRetries + 1) + MaxRetries + 1 <= (MaxRetries + 1) * (MaxRetries + 1)
  BY <1>1, <1>2, RoundsBounded
<1>4. (MaxRetries + 1) * (MaxRetries + 1) \in Nat
  BY <1>2
<1>5. Ended(Over(r, ended))
  <2>1. r.tries <= (MaxRetries + 1) * (MaxRetries + 1)
    BY <1>1, <1>2, <1>3, <1>4 DEF Running
  <2>2. r.call.kind # "remove_by_id!" => r.tries <= MaxRetries + 1
    BY <1>1, <1>2 DEF Running
  <2> QED BY <2>1, <2>2 DEF Ended, Over, Fresh
<1> DEFINE q == Over(r, ended)
<1>6. /\ q.pc = "idle" /\ q.retries = 0 /\ q.inner = 0 /\ q.tries = r.tries
      /\ Record(q)
  BY DEF Record, Over, Fresh
<1> QED
  <2> HIDE DEF q
  <2>1. Ended(q)
    BY <1>5 DEF q
  <2>2. Counted(q)
    BY <1>1, <1>2, <1>6, <2>1 DEF Counted
  <2> QED BY <2>2 DEF q

\* A failure of a running call counts as one try, and the call goes on with a
\* retry of a handler or is given up.
LEMMA FailureCounted ==
    ASSUME NEW t \in Threads, TriesCounted, run[t].pc # "idle",
           NEW server, Fails(t, server)
    PROVE  TriesCounted'
<1> DEFINE r == run[t]
           again == InInner(r) /\ r.inner < MaxRetries
           q == IF again THEN InnerRetry(r)
                ELSE IF MayRetry(r) THEN OuterRetry(r)
                ELSE Over([r EXCEPT !.tries = @ + 1], "exhausted")
<1>1. run' = [run EXCEPT ![t] = q]
  BY DEF Fails, Becomes
<1>2. Counted(r)
  BY DEF TriesCounted
<1>3. /\ r.retries \in 0 .. MaxRetries /\ r.inner \in 0 .. MaxRetries
      /\ r.tries \in Nat /\ Running(r) /\ Record(r)
  BY <1>2 DEF Counted
<1>4. MaxRetries \in Nat
  BY RetriesAssumption
<1>5. Counted(q)
  <2>1. CASE again
    <3>1. q = [r EXCEPT !.inner = @ + 1, !.tries = @ + 1]
      BY <2>1 DEF InnerRetry
    <3>2. /\ q.pc = r.pc /\ q.call = r.call /\ q.retries = r.retries
          /\ q.inner = r.inner + 1 /\ q.tries = r.tries + 1 /\ q.ended = r.ended
          /\ Record(q)
      BY <3>1, <1>3 DEF Record
    <3>3. r.call.kind = "remove_by_id!" /\ r.inner < MaxRetries
      BY <2>1 DEF InInner
    <3>4. r.retries * (MaxRetries + 1) \in Nat
      BY <1>3, <1>4, RoundCost
    <3>5. Running(q)
      BY <3>2, <3>3, <3>4, <1>3, <1>4 DEF Running
    <3> QED BY <3>2, <3>3, <3>5, <1>3, <1>4 DEF Counted
  <2>2. CASE ~again /\ MayRetry(r)
    <3>1. q = OuterRetry(r)
      BY <2>2
    <3>2. /\ q.pc = "select" /\ q.call = r.call /\ q.retries = r.retries + 1
          /\ q.inner = 0 /\ q.tries = r.tries + 1 /\ q.ended = r.ended
          /\ Record(q)
      BY <3>1, <1>3 DEF Record, OuterRetry
    <3>3. r.retries < MaxRetries
      BY <2>2 DEF MayRetry
    <3>4. /\ r.retries * (MaxRetries + 1) \in Nat
          /\ q.retries * (MaxRetries + 1) = r.retries * (MaxRetries + 1) + (MaxRetries + 1)
      <4> HIDE DEF r, q
      <4>1. r.retries \in Nat
        BY <1>3, <1>4
      <4> QED BY <3>2, <4>1, <1>4, RoundCost
    <3>5. r.tries + 1 <= q.retries * (MaxRetries + 1) + 0
      BY <3>4, <1>3, <1>4 DEF Running
    <3>6. Running(q)
      BY <3>2, <3>5, <1>3, <1>4 DEF Running
    <3> QED BY <3>2, <3>3, <3>6, <1>3, <1>4 DEF Counted
  <2>3. CASE ~again /\ ~MayRetry(r)
    <3>1. q = Over([r EXCEPT !.tries = @ + 1], "exhausted")
      BY <2>3
    <3>2. /\ q.pc = "idle" /\ q.call = r.call /\ q.retries = 0 /\ q.inner = 0
          /\ q.tries = r.tries + 1 /\ q.ended = "exhausted" /\ Record(q)
      BY <3>1, <1>3 DEF Record, Over, Fresh
    <3>3. r.retries = MaxRetries
      BY <2>3, <1>3, <1>4 DEF MayRetry
    <3>4. /\ r.retries * (MaxRetries + 1) \in Nat
          /\ r.retries * (MaxRetries + 1) + MaxRetries + 1 <= (MaxRetries + 1) * (MaxRetries + 1)
      BY <1>3, <1>4, RoundsBounded
    <3>5. q.tries <= (MaxRetries + 1) * (MaxRetries + 1)
      <4>1. (MaxRetries + 1) * (MaxRetries + 1) \in Nat
        BY <1>4
      <4> QED BY <4>1, <3>2, <3>4, <1>3, <1>4 DEF Running
    <3>6. Ended(q)
      BY <3>2, <3>3, <3>5, <1>3, <1>4 DEF Ended, Running
    <3> QED BY <3>2, <3>6, <1>3, <1>4 DEF Counted
  <2> QED BY <2>1, <2>2, <2>3
<1> HIDE DEF q
<1> QED BY <1>1, <1>5 DEF TriesCounted

\* The record of one thread is replaced by a counted one.
LEMMA BecomesCounted ==
    ASSUME NEW t \in Threads, TriesCounted, NEW q, Counted(q), Becomes(t, q)
    PROVE  TriesCounted'
  BY DEF TriesCounted, Becomes

-----------------------------------------------------------------------------

\* The threads start idle, with nothing counted.
LEMMA InitCounted == Init => TriesCounted
  BY RetriesAssumption
  DEF Init, TriesCounted, Counted, Record, Ended, Fresh

\* Every step of every thread, and of the world, keeps the tries counted.
LEMMA NextCounted == TriesCounted /\ [Next]_vars => TriesCounted'
<1> SUFFICES ASSUME TriesCounted, [Next]_vars
             PROVE  TriesCounted'
  OBVIOUS
<1>1. ASSUME NEW t \in Threads, NEW call \in Calls, Begin(t, call)
      PROVE  TriesCounted'
  <2> DEFINE q == [Fresh EXCEPT !.pc = "select", !.call = call]
  <2>1. Counted(q)
    <3>1. /\ q.pc = "select" /\ q.retries = 0 /\ q.inner = 0 /\ q.tries = 0
          /\ q.ended = "none" /\ Record(q)
      BY DEF Record, Fresh
    <3> HIDE DEF q
    <3>2. 0 * (MaxRetries + 1) = 0 /\ MaxRetries \in Nat
      BY RetriesAssumption
    <3>3. Running(q)
      BY <3>1, <3>2 DEF Running
    <3> QED BY <3>1, <3>2, <3>3 DEF Counted
  <2>2. Becomes(t, q)
    BY <1>1 DEF Begin
  <2> QED BY <2>1, <2>2, BecomesCounted
<1>2. ASSUME NEW t \in Threads, Step(t)
      PROVE  TriesCounted'
  <2> DEFINE r == run[t]
  <2>0. Counted(r) /\ Record(r)
    BY DEF TriesCounted, Counted
  <2>1. CASE Select(t)
    <3>1. /\ r.pc = "select"
          /\ Becomes(t, [r EXCEPT !.pc = "force", !.selected = Selected(nodes')])
      BY <2>1 DEF Select
    <3>2. ASSUME NEW list PROVE Counted([r EXCEPT !.pc = "force", !.selected = list])
      BY <2>0, <3>1, ListMovesCounted
    <3> QED BY <3>1, <3>2, BecomesCounted
  <2>2. CASE SelectFails(t)
    <3>1. r.pc = "select"
      BY <2>2 DEF SelectFails
    <3>2. CASE r.call.kind = "probe"
      <4>1. Becomes(t, Over(r, "raised"))
        BY <2>2, <3>2 DEF SelectFails
      <4> QED BY <2>0, <3>1, <4>1, OverCounted, BecomesCounted
    <3>3. CASE r.call.kind # "probe"
      <4>1. Fails(t, TRUE)
        BY <2>2, <3>3 DEF SelectFails
      <4> QED BY <3>1, <4>1, FailureCounted
    <3> QED BY <3>2, <3>3
  <2>3. CASE ForceIndex(t)
    <3>1. r.pc = "force" /\ Becomes(t, [r EXCEPT !.pc = "pick"])
      BY <2>3 DEF ForceIndex
    <3>2. Counted([r EXCEPT !.pc = "pick"])
      BY <2>0, <3>1, MovesCounted DEF Record
    <3> QED BY <3>1, <3>2, BecomesCounted
  <2>4. CASE PickHost(t)
    <3>1. r.pc = "pick" /\ Becomes(t, [r EXCEPT !.pc = "read"])
      BY <2>4 DEF PickHost
    <3>2. Counted([r EXCEPT !.pc = "read"])
      BY <2>0, <3>1, MovesCounted DEF Record
    <3> QED BY <3>1, <3>2, BecomesCounted
  <2>5. CASE ReadHost(t)
    <3>1. /\ r.pc = "read"
          /\ Becomes(t, [r EXCEPT !.pc = "advance", !.taken = Append(@, current)])
      BY <2>5 DEF ReadHost
    <3>2. ASSUME NEW list PROVE Counted([r EXCEPT !.pc = "advance", !.taken = list])
      BY <2>0, <3>1, ListMovesCounted
    <3> QED BY <3>1, <3>2, BecomesCounted
  <2>6. CASE ReadNothing(t)
    <3>1. r.pc = "read" /\ Becomes(t, Over(r, "raised"))
      BY <2>6 DEF ReadNothing
    <3> QED BY <2>0, <3>1, OverCounted, BecomesCounted
  <2>7. CASE Advance(t)
    <3>1. r.pc = "advance"
      BY <2>7 DEF Advance
    <3>2. PICK q \in {[r EXCEPT !.pc = "select"], Over(r, "returned"), [r EXCEPT !.pc = "send"]} :
            Becomes(t, q)
      BY <2>7 DEF Advance
    <3>3. Counted([r EXCEPT !.pc = "select"])
      BY <2>0, <3>1, MovesCounted DEF Record
    <3>4. Counted([r EXCEPT !.pc = "send"])
      BY <2>0, <3>1, MovesCounted DEF Record
    <3>5. Counted(Over(r, "returned"))
      BY <2>0, <3>1, OverCounted
    <3>6. Counted(q)
      BY <3>2, <3>3, <3>4, <3>5
    <3> QED BY <3>2, <3>6, BecomesCounted
  <2>8. CASE Succeed(t)
    <3>1. r.pc = "send"
      BY <2>8 DEF Succeed
    <3>2. PICK q \in {Over(r, "returned"), OneSent(r)} : Becomes(t, q)
      BY <2>8 DEF Succeed
    <3>3. Counted(OneSent(r))
      BY <2>0, <3>1, MovesCounted DEF Record, OneSent
    <3>4. Counted(Over(r, "returned"))
      BY <2>0, <3>1, OverCounted
    <3>5. Counted(q)
      BY <3>2, <3>3, <3>4
    <3> QED BY <3>2, <3>5, BecomesCounted
  <2>9. CASE Refused(t)
    <3>1. r.pc = "send" /\ Fails(t, TRUE)
      BY <2>9 DEF Refused
    <3> QED BY <3>1, FailureCounted
  <2>10. CASE Rejected(t)
    <3>1. r.pc = "send" /\ Fails(t, FALSE)
      BY <2>10 DEF Rejected
    <3> QED BY <3>1, FailureCounted
  <2>11. CASE TimesOut(t)
    <3>1. r.pc = "send" /\ Becomes(t, Over(r, "raised"))
      BY <2>11 DEF TimesOut
    <3> QED BY <2>0, <3>1, OverCounted, BecomesCounted
  <2> QED BY <1>2, <2>1, <2>2, <2>3, <2>4, <2>5, <2>6, <2>7, <2>8, <2>9, <2>10, <2>11 DEF Step
<1>3. ASSUME NEW h \in Hosts, HostDown(h) \/ HostUp(h)
      PROVE  TriesCounted'
  BY <1>3 DEF HostDown, HostUp, TriesCounted
<1>4. CASE HourPasses
  BY <1>4 DEF HourPasses, TriesCounted
<1>5. CASE UNCHANGED vars
  BY <1>5 DEF vars, TriesCounted
<1> QED BY <1>1, <1>2, <1>3, <1>4, <1>5 DEF Next

\* with_exception_handling, nested or not, tries a call max_retries + 1 times
\* (squared when one handler is inside another), and never gives up earlier.
THEOREM GivenUpInTime == Spec => []GivesUpInTime
<1>1. TriesCounted => GivesUpInTime
  <2> SUFFICES ASSUME TriesCounted, NEW t \in Threads
               PROVE  /\ run[t].tries <= (MaxRetries + 1) * (MaxRetries + 1)
                      /\ run[t].call.kind # "remove_by_id!" => run[t].tries <= MaxRetries + 1
                      /\ run[t].ended = "exhausted" => run[t].tries > MaxRetries
    BY DEF GivesUpInTime
  <2>1. Counted(run[t])
    BY DEF TriesCounted
  <2>2. CASE run[t].pc = "idle"
    BY <2>1, <2>2 DEF Counted, Ended
  <2>3. CASE run[t].pc # "idle"
    <3>1. Counted(Over(run[t], "returned"))
      BY <2>1, <2>3, OverCounted
    <3>2. Ended(Over(run[t], "returned"))
      BY <3>1 DEF Counted, Over, Fresh
    <3>3. /\ run[t].tries <= (MaxRetries + 1) * (MaxRetries + 1)
          /\ run[t].call.kind # "remove_by_id!" => run[t].tries <= MaxRetries + 1
      BY <3>2 DEF Ended, Over, Fresh
    <3>4. run[t].ended = "none"
      BY <2>1, <2>3 DEF Counted, Running
    <3> QED BY <3>3, <3>4
  <2> QED BY <2>2, <2>3
<1> QED BY <1>1, InitCounted, NextCounted, PTL DEF Spec

-----------------------------------------------------------------------------
(* Every state is well formed.                                             *)

Places == {"idle", "select", "force", "pick", "read", "advance", "send"}
NoKind == [kind |-> "none", groups |-> 0, to |-> << >>]

Runs == [pc : Places, call : Calls \cup {NoKind}, selected : Seq(Hosts), taken : Seq(Hosts),
         sent : Nat, retries : 0 .. MaxRetries, inner : 0 .. MaxRetries, tries : Nat,
         ended : Endings]

\* A thread that is about to take a host has hosts to choose from; one that sends
\* has a request to send and has made its sessions.
ThreadOK(r) ==
    /\ r \in Runs
    /\ r.pc \in {"force", "pick", "read", "advance"} => r.selected # << >>
    /\ r.pc # "idle" => r.call \in Calls
    /\ r.pc \notin {"idle", "send"} => r.sent = 0
    /\ r.pc = "send" => r.sent < Sends(r.call) /\ r.call.groups <= Len(r.taken)

WorldOK ==
    /\ up \subseteq Hosts /\ nodes \subseteq Hosts /\ troubled \subseteq Hosts
    /\ failed \in [Hosts -> Nat]

PolicyOK ==
    /\ faults \in [Hosts -> Nat] /\ old \subseteq Hosts
    /\ hostIndex \in Nat /\ current \in Hosts \cup {Nobody}

ThreadsOK == run = [t \in Threads |-> run[t]] /\ \A t \in Threads : ThreadOK(run[t])

TypeInv == WorldOK /\ PolicyOK /\ ThreadsOK

LEMMA SeedsAreHosts == SeedSet \subseteq Hosts
  BY HostsAssumption DEF SeedSet

\* There is always a host to select.
LEMMA SelectedType ==
    ASSUME NEW list, list \subseteq Hosts
    PROVE  Selected(list) \in Seq(Hosts) /\ Selected(list) # << >>
<1> DEFINE good == {h \in list \cup SeedSet : ~Faulty(h)}
<1>1. good \subseteq Hosts
  BY SeedsAreHosts
<1>2. CASE good = {}
  BY <1>2, HostsAssumption DEF Selected
<1>3. CASE good # {}
  <2>1. IsFiniteSet(good) /\ good \subseteq Nat
    BY <1>1, HostsAssumption, FS_Subset
  <2>2. Selected(list) = Sorted(good)
    BY <1>3 DEF Selected
  <2> HIDE DEF good
  <2>3. Cardinality(good) \in Nat /\ Sorted(good) \in [1 .. Cardinality(good) -> good]
    BY <2>1, SortedProperties
  <2>4. Sorted(good) \in Seq(Hosts) /\ Len(Sorted(good)) = Cardinality(good)
    BY <1>1, <2>3
  <2>5. Cardinality(good) # 0
    BY <1>3, <2>1, FS_EmptySet
  <2>. QED BY <2>2, <2>4, <2>5
<1>. QED BY <1>2, <1>3

\* A call that is over leaves an idle thread.
LEMMA EndedOK ==
    ASSUME NEW c, NEW call \in Calls \cup {NoKind}, c.call = call,
           NEW n \in Nat, c.tries = n, NEW ended \in Endings
    PROVE  ThreadOK(Over(c, ended)) /\ Over(c, ended).pc = "idle"
<1> DEFINE q == [pc |-> "idle", call |-> call, selected |-> << >>, taken |-> << >>,
                 sent |-> 0, retries |-> 0, inner |-> 0, tries |-> n, ended |-> ended]
<1>1. Over(c, ended) = q
  <2>1. Over(c, ended) = [Fresh EXCEPT !.call = call, !.tries = n, !.ended = ended]
    BY DEF Over
  <2>. QED BY <2>1 DEF Fresh
<1>2. 0 \in 0 .. MaxRetries /\ << >> \in Seq(Hosts) /\ "idle" \in Places /\ 0 \in Nat
  BY RetriesAssumption DEF Places
<1>3. q \in Runs
  BY <1>2 DEF Runs
<1>4. q.pc = "idle"
  OBVIOUS
<1> HIDE DEF q
<1>. QED BY <1>1, <1>3, <1>4 DEF ThreadOK

LEMMA OverOK ==
    ASSUME NEW r, ThreadOK(r), NEW n \in {r.tries, r.tries + 1}, NEW ended \in Endings
    PROVE  ThreadOK(Over([r EXCEPT !.tries = n], ended))
<1> DEFINE c == [r EXCEPT !.tries = n]
<1>1. r.tries \in Nat /\ n \in Nat /\ r.call \in Calls \cup {NoKind}
  BY DEF ThreadOK, Runs
<1>2. c.tries = n /\ c.call = r.call
  BY DEF ThreadOK, Runs
<1> HIDE DEF c
<1>3. ThreadOK(Over(c, ended))
  BY <1>1, <1>2, EndedOK
<1>. QED BY <1>3 DEF c

LEMMA OverNowOK ==
    ASSUME NEW r, ThreadOK(r), NEW ended \in Endings
    PROVE  ThreadOK(Over(r, ended))
<1>1. [r EXCEPT !.tries = r.tries] = r
  BY DEF ThreadOK, Runs
<1>2. ThreadOK(Over([r EXCEPT !.tries = r.tries], ended))
  BY OverOK
<1>. QED BY <1>1, <1>2

\* The number of requests of a call.
LEMMA SendsType ==
    ASSUME NEW c \in Calls
    PROVE  /\ c.to \in Seq(Nat \ {0}) /\ Sends(c) \in Nat /\ c.groups \in Nat \ {0}
           /\ \A i \in 1 .. Sends(c) : c.to[i] \in 1 .. c.groups
<1>1. /\ c.to \in Seq(Nat \ {0}) /\ c.groups \in Nat \ {0}
      /\ \A i \in DOMAIN c.to : c.to[i] <= c.groups
  BY CallsAssumption
<1>2. PICK to \in Seq(Nat \ {0}) : to = c.to
  BY <1>1
<1>3. Len(to) \in Nat /\ \A i \in 1 .. Len(to) : to[i] \in Nat \ {0} /\ to[i] <= c.groups
  BY <1>1, <1>2
<1>4. \A i \in 1 .. Len(to) : to[i] \in 1 .. c.groups
  BY <1>1, <1>3
<1>. QED BY <1>1, <1>2, <1>3, <1>4 DEF Sends

\* A request goes to a session that was made, so to a host.
LEMMA TargetType ==
    ASSUME NEW r, ThreadOK(r), r.pc = "send"
    PROVE  Target(r) \in Hosts
<1>1. /\ r.call \in Calls /\ r.sent \in Nat /\ r.taken \in Seq(Hosts)
      /\ r.sent < Sends(r.call) /\ r.call.groups <= Len(r.taken)
  BY DEF ThreadOK, Runs
<1>2. Sends(r.call) \in Nat /\ r.call.groups \in Nat
  BY <1>1, SendsType
<1>3. r.sent + 1 \in 1 .. Sends(r.call)
  BY <1>1, <1>2
<1>4. PICK i : i = r.call.to[r.sent + 1] /\ i \in 1 .. r.call.groups
  BY <1>1, <1>3, SendsType
<1>5. PICK list \in Seq(Hosts) : list = r.taken
  BY <1>1
<1>6. Len(list) \in Nat /\ r.call.groups <= Len(list)
  BY <1>1, <1>5
<1>7. i \in 1 .. Len(list)
  BY <1>2, <1>4, <1>6
<1>8. list[i] \in Hosts
  BY <1>5, <1>7
<1>. QED BY <1>4, <1>5, <1>8 DEF Target

\* Moves of a running call.
LEMMA MovesOK ==
    ASSUME NEW r, ThreadOK(r), NEW list \in Seq(Hosts)
    PROVE  /\ r.pc = "select" /\ list # << >> =>
                ThreadOK([r EXCEPT !.pc = "force", !.selected = list])
           /\ r.pc = "force" => ThreadOK([r EXCEPT !.pc = "pick"])
           /\ r.pc = "pick" => ThreadOK([r EXCEPT !.pc = "read"])
           /\ r.pc = "read" => ThreadOK([r EXCEPT !.pc = "advance", !.taken = list])
           /\ r.pc = "advance" => ThreadOK([r EXCEPT !.pc = "select"])
           /\ r.pc = "advance" /\ 0 < Sends(r.call) /\ r.call.groups <= Len(r.taken) =>
                ThreadOK([r EXCEPT !.pc = "send"])
           /\ r.pc = "send" /\ r.sent + 1 < Sends(r.call) => ThreadOK(OneSent(r))
<1>1. ASSUME NEW pc \in Places, pc \notin {"idle", "send"}, r.pc \notin {"idle", "send"},
             pc \in {"force", "pick", "read", "advance"} => r.selected # << >>
      PROVE  ThreadOK([r EXCEPT !.pc = pc])
  BY <1>1 DEF ThreadOK, Runs
<1>2. {"force", "pick", "read", "advance", "select", "send"} \subseteq Places
  BY DEF Places
<1>3. r.pc = "select" /\ list # << >> =>
          ThreadOK([r EXCEPT !.pc = "force", !.selected = list])
  BY <1>2 DEF ThreadOK, Runs
<1>4. r.pc = "read" => ThreadOK([r EXCEPT !.pc = "advance", !.taken = list])
  BY <1>2 DEF ThreadOK, Runs
<1>5. r.pc = "send" /\ r.sent + 1 < Sends(r.call) => ThreadOK(OneSent(r))
  <2>0. r \in Runs
    BY DEF ThreadOK
  <2>1. OneSent(r) \in Runs
    <3>1. PICK n \in Nat : n = r.sent + 1
      BY <2>0 DEF Runs
    <3>2. [r EXCEPT !.sent = n] \in Runs
      BY <2>0 DEF Runs
    <3>3. OneSent(r) = [r EXCEPT !.sent = n]
      BY <3>1 DEF OneSent
    <3>. QED BY <3>2, <3>3
  <2>2. /\ OneSent(r).pc = r.pc /\ OneSent(r).call = r.call /\ OneSent(r).taken = r.taken
        /\ OneSent(r).sent = r.sent + 1
    BY <2>0 DEF Runs, OneSent
  <2>. QED BY <2>1, <2>2 DEF ThreadOK
<1>6. r.pc = "force" => ThreadOK([r EXCEPT !.pc = "pick"])
  BY <1>1, <1>2 DEF ThreadOK
<1>7. r.pc = "pick" => ThreadOK([r EXCEPT !.pc = "read"])
  BY <1>1, <1>2 DEF ThreadOK
<1>8. r.pc = "advance" => ThreadOK([r EXCEPT !.pc = "select"])
  BY <1>1, <1>2 DEF ThreadOK
<1>9. r.pc = "advance" /\ 0 < Sends(r.call) /\ r.call.groups <= Len(r.taken) =>
          ThreadOK([r EXCEPT !.pc = "send"])
  BY <1>2 DEF ThreadOK, Runs
<1>. QED BY <1>3, <1>4, <1>5, <1>6, <1>7, <1>8, <1>9

LEMMA BecomesOK ==
    ASSUME ThreadsOK, NEW t \in Threads, NEW q, ThreadOK(q), Becomes(t, q)
    PROVE  ThreadsOK'
<1>1. \A u \in Threads : run'[u] = IF u = t THEN q ELSE run[u]
  BY DEF ThreadsOK, Becomes
<1>2. \A u \in Threads : ThreadOK(run'[u])
  BY <1>1 DEF ThreadsOK
<1>3. run' = [u \in Threads |-> run'[u]]
  BY DEF ThreadsOK, Becomes
<1>. QED BY <1>2, <1>3 DEF ThreadsOK, ThreadOK

LEMMA ChargeOK ==
    ASSUME PolicyOK, NEW n \in Nat, Charge(n), UNCHANGED <<hostIndex, current>>
    PROVE  PolicyOK'
<1> DEFINE fresh == old \ IF n > 0 THEN {current} ELSE {}
<1>1. /\ old' = {}
      /\ faults' = [h \in Hosts |-> (IF h \in fresh THEN 0 ELSE faults[h])
                                        + (IF h = current THEN n ELSE 0)]
  BY DEF Charge
<1> HIDE DEF fresh
<1>2. faults' \in [Hosts -> Nat]
  BY <1>1 DEF PolicyOK
<1>. QED BY <1>1, <1>2 DEF PolicyOK

LEMMA FailsOK ==
    ASSUME TypeInv, TriesCounted, NEW t \in Threads, run[t].pc # "idle",
           NEW server, Fails(t, server)
    PROVE  PolicyOK' /\ ThreadsOK'
<1> DEFINE r == run[t]
           again == InInner(r) /\ r.inner < MaxRetries
           seen == IF InInner(r) /\ ~again THEN 2 ELSE 1
           n == IF server THEN seen ELSE 0
           q == IF again THEN InnerRetry(r)
                ELSE IF MayRetry(r) THEN OuterRetry(r)
                ELSE Over([r EXCEPT !.tries = @ + 1], "exhausted")
<1>1. Charge(n) /\ n \in Nat /\ Becomes(t, q) /\ UNCHANGED <<hostIndex, current>>
  BY DEF Fails
<1>2. PolicyOK'
  <2> HIDE DEF n
  <2>. QED BY <1>1, ChargeOK DEF TypeInv
<1>3. ThreadOK(r)
  BY DEF TypeInv, ThreadsOK
<1>4. MaxRetries \in Nat /\ r.retries \in 0 .. MaxRetries /\ r.inner \in 0 .. MaxRetries
      /\ r.tries \in Nat
  BY <1>3, RetriesAssumption DEF ThreadOK, Runs
<1>5. ThreadOK(q)
  <2>1. CASE again
    <3>1. r.inner + 1 \in 0 .. MaxRetries /\ r.tries + 1 \in Nat
      BY <1>4, <2>1
    <3>2. InnerRetry(r) \in Runs
      BY <1>3, <3>1 DEF InnerRetry, ThreadOK, Runs
    <3>3. /\ InnerRetry(r).pc = r.pc /\ InnerRetry(r).call = r.call
          /\ InnerRetry(r).sent = r.sent /\ InnerRetry(r).taken = r.taken
          /\ InnerRetry(r).selected = r.selected
      BY <1>3 DEF InnerRetry, ThreadOK, Runs
    <3>4. ThreadOK(InnerRetry(r))
      BY <1>3, <3>2, <3>3 DEF ThreadOK
    <3>. QED BY <2>1, <3>4
  <2>2. CASE ~again /\ MayRetry(r)
    <3>1. r.retries + 1 \in 0 .. MaxRetries /\ 0 \in 0 .. MaxRetries /\ r.tries + 1 \in Nat
      BY <1>4, <2>2 DEF MayRetry
    <3>2. ThreadOK(OuterRetry(r))
      <4>1. << >> \in Seq(Hosts) /\ "select" \in Places
        BY DEF Places
      <4>2. OuterRetry(r) \in Runs
        BY <1>3, <3>1, <4>1 DEF OuterRetry, ThreadOK, Runs
      <4>3. /\ OuterRetry(r).pc = "select" /\ OuterRetry(r).sent = 0
            /\ OuterRetry(r).call \in Calls
        BY <1>3 DEF OuterRetry, ThreadOK, Runs
      <4>. QED BY <4>2, <4>3 DEF ThreadOK
    <3>. QED BY <2>2, <3>2
  <2>3. CASE ~again /\ ~MayRetry(r)
    <3>1. ThreadOK(Over([r EXCEPT !.tries = r.tries + 1], "exhausted"))
      BY <1>3, OverOK DEF Endings
    <3>. QED BY <2>3, <3>1
  <2>. QED BY <2>1, <2>2, <2>3
<1> HIDE DEF q
<1>6. ThreadsOK'
  BY <1>1, <1>5, BecomesOK DEF TypeInv
<1>. QED BY <1>2, <1>6

LEMMA StepOK ==
    ASSUME TypeInv, TriesCounted, NEW t \in Threads, Step(t)
    PROVE  TypeInv'
<1> DEFINE r == run[t]
<1>1. ThreadOK(r) /\ WorldOK /\ PolicyOK /\ ThreadsOK
  BY DEF TypeInv, ThreadsOK
<1>2. CASE Select(t)
  <2>1. /\ r.pc = "select"
        /\ Becomes(t, [r EXCEPT !.pc = "force", !.selected = Selected(nodes')])
        /\ nodes' \in {nodes, up} /\ UNCHANGED <<up, policy, failed, clocks>>
    BY <1>2 DEF Select
  <2>2. nodes' \subseteq Hosts
    BY <1>1, <2>1 DEF WorldOK
  <2>3. PICK list : list = Selected(nodes') /\ list \in Seq(Hosts) /\ list # << >>
    <3>1. ASSUME NEW n, n \subseteq Hosts
          PROVE  Selected(n) \in Seq(Hosts) /\ Selected(n) # << >>
      BY <3>1, SelectedType
    <3>. QED BY <2>2, <3>1
  <2>4. ThreadsOK'
    BY <1>1, <2>1, <2>3, MovesOK, BecomesOK
  <2>. QED BY <1>1, <2>1, <2>2, <2>4 DEF TypeInv, WorldOK, PolicyOK, policy, clocks
<1>3. CASE SelectFails(t)
  <2>1. UNCHANGED <<up, nodes, clocks>> /\ \E h \in SeedSet \ up : failed' = [failed EXCEPT ![h] = @ + 1]
    BY <1>3 DEF SelectFails
  <2>2. WorldOK'
    BY <1>1, <2>1, SeedsAreHosts DEF WorldOK, clocks
  <2>3. CASE r.call.kind = "probe"
    <3>1. Becomes(t, Over(r, "raised")) /\ UNCHANGED policy
      BY <1>3, <2>3 DEF SelectFails
    <3>2. ThreadsOK'
      BY <1>1, <3>1, OverNowOK, BecomesOK DEF Endings
    <3>. QED BY <1>1, <2>2, <3>1, <3>2 DEF TypeInv, PolicyOK, policy
  <2>4. CASE r.call.kind # "probe"
    <3>1. Fails(t, TRUE) /\ r.pc # "idle"
      BY <1>3, <2>4 DEF SelectFails
    <3>. QED BY <2>2, <3>1, FailsOK DEF TypeInv
  <2>. QED BY <2>3, <2>4
<1>4. CASE ForceIndex(t)
  <2>1. /\ r.pc = "force" /\ hostIndex' = hostIndex % Len(r.selected)
        /\ Becomes(t, [r EXCEPT !.pc = "pick"])
        /\ UNCHANGED <<up, nodes, faults, old, current, failed, clocks>>
    BY <1>4 DEF ForceIndex
  <2>2. r.selected \in Seq(Hosts) /\ r.selected # << >>
    BY <1>1, <2>1 DEF ThreadOK, Runs
  <2>3. Len(r.selected) \in Nat \ {0}
    BY <2>2
  <2>4. hostIndex' \in Nat
    BY <1>1, <2>1, <2>3 DEF PolicyOK
  <2>5. ThreadsOK'
    BY <1>1, <2>1, <2>2, MovesOK, BecomesOK
  <2>. QED BY <1>1, <2>1, <2>4, <2>5 DEF TypeInv, WorldOK, PolicyOK, clocks
<1>5. CASE PickHost(t)
  <2>1. /\ r.pc = "pick"
        /\ current' = IF hostIndex < Len(r.selected) THEN r.selected[hostIndex + 1] ELSE Nobody
        /\ Becomes(t, [r EXCEPT !.pc = "read"])
        /\ UNCHANGED <<up, nodes, faults, old, hostIndex, failed, clocks>>
    BY <1>5 DEF PickHost
  <2>2. PICK list \in Seq(Hosts) : list = r.selected
    BY <1>1 DEF ThreadOK, Runs
  <2>3. hostIndex \in Nat /\ Len(list) \in Nat
    BY <1>1, <2>2 DEF PolicyOK
  <2>4. hostIndex < Len(list) => list[hostIndex + 1] \in Hosts
    BY <2>2, <2>3
  <2>5. current' \in Hosts \cup {Nobody}
    BY <2>1, <2>2, <2>4
  <2>6. ThreadsOK'
    BY <1>1, <2>1, <2>2, MovesOK, BecomesOK
  <2>. QED BY <1>1, <2>1, <2>5, <2>6 DEF TypeInv, WorldOK, PolicyOK, clocks
<1>6. CASE ReadHost(t)
  <2>1. /\ r.pc = "read" /\ current # Nobody
        /\ Becomes(t, [r EXCEPT !.pc = "advance", !.taken = Append(@, current)])
        /\ UNCHANGED <<up, nodes, policy, failed, clocks>>
    BY <1>6 DEF ReadHost
  <2>2. r.taken \in Seq(Hosts) /\ current \in Hosts
    BY <1>1, <2>1 DEF ThreadOK, Runs, PolicyOK
  <2>3. PICK list : list = Append(r.taken, current) /\ list \in Seq(Hosts)
    <3>1. ASSUME NEW h \in Hosts PROVE Append(r.taken, h) \in Seq(Hosts)
      BY <2>2
    <3>. QED BY <2>2, <3>1
  <2>4. ThreadOK([r EXCEPT !.pc = "advance", !.taken = list])
    BY <1>1, <2>1, <2>3, MovesOK
  <2>5. Becomes(t, [r EXCEPT !.pc = "advance", !.taken = list])
    BY <2>1, <2>3
  <2>6. ThreadsOK'
    BY <1>1, <2>4, <2>5, BecomesOK
  <2>. QED BY <1>1, <2>1, <2>6 DEF TypeInv, WorldOK, PolicyOK, policy, clocks
<1>7. CASE ReadNothing(t)
  <2>1. Becomes(t, Over(r, "raised")) /\ UNCHANGED <<up, nodes, policy, failed, clocks>>
    BY <1>7 DEF ReadNothing
  <2>2. ThreadsOK'
    BY <1>1, <2>1, OverNowOK, BecomesOK DEF Endings
  <2>. QED BY <1>1, <2>1, <2>2 DEF TypeInv, WorldOK, PolicyOK, policy, clocks
<1>8. CASE Advance(t)
  <2>1. /\ r.pc = "advance" /\ hostIndex' = NextTurn(Len(r.selected))
        /\ \/ Becomes(t, [r EXCEPT !.pc = "select"]) \/ Becomes(t, Over(r, "returned"))
           \/ /\ ~(Len(r.taken) < r.call.groups) /\ Sends(r.call) # 0
              /\ Becomes(t, [r EXCEPT !.pc = "send"])
        /\ UNCHANGED <<up, nodes, faults, old, current, failed, clocks>>
    BY <1>8 DEF Advance
  <2>2. r.selected \in Seq(Hosts) /\ r.selected # << >>
    BY <1>1, <2>1 DEF ThreadOK, Runs
  <2>3. Len(r.selected) \in Nat \ {0}
    BY <2>2
  <2>4. hostIndex' \in Nat
    BY <1>1, <2>1, <2>3 DEF PolicyOK, NextTurn
  <2>5. ThreadsOK'
    <3>1. ThreadOK([r EXCEPT !.pc = "select"])
      BY <1>1, <2>1, <2>2, MovesOK
    <3>2. ThreadOK(Over(r, "returned"))
      BY <1>1, OverNowOK DEF Endings
    <3>3. ASSUME ~(Len(r.taken) < r.call.groups), Sends(r.call) # 0
          PROVE  ThreadOK([r EXCEPT !.pc = "send"])
      <4>1. r.call \in Calls /\ r.taken \in Seq(Hosts)
        BY <1>1, <2>1 DEF ThreadOK, Runs
      <4>2. Sends(r.call) \in Nat /\ r.call.groups \in Nat
        BY <4>1, SendsType
      <4>3. Len(r.taken) \in Nat
        BY <4>1
      <4>4. 0 < Sends(r.call) /\ r.call.groups <= Len(r.taken)
        BY <3>3, <4>2, <4>3
      <4>. QED BY <1>1, <2>1, <2>2, <4>4, MovesOK
    <3>. QED BY <1>1, <2>1, <3>1, <3>2, <3>3, BecomesOK
  <2>. QED BY <1>1, <2>1, <2>4, <2>5 DEF TypeInv, WorldOK, PolicyOK, clocks
<1>9. CASE Succeed(t)
  <2>1. PICK done \in BOOLEAN :
          /\ done = (r.sent + 1 = Sends(r.call))
          /\ r.pc = "send" /\ (Reset \/ UNCHANGED <<faults, old>>)
          /\ failed' = [h \in Hosts |-> IF done /\ \E i \in DOMAIN r.taken : r.taken[i] = h
                                        THEN 0 ELSE failed[h]]
          /\ Becomes(t, IF done THEN Over(r, "returned") ELSE OneSent(r))
          /\ UNCHANGED <<up, nodes, hostIndex, current, clocks>>
    BY <1>9 DEF Succeed
  <2>2. PolicyOK'
    <3>1. CASE Reset
      BY <1>1, <2>1, <3>1 DEF Reset, PolicyOK
    <3>2. CASE UNCHANGED <<faults, old>>
      BY <1>1, <2>1, <3>2 DEF PolicyOK
    <3>. QED BY <2>1, <3>1, <3>2
  <2>3. WorldOK'
    BY <1>1, <2>1 DEF WorldOK, clocks
  <2>4. ThreadsOK'
    <3>1. CASE done
      <4>1. ThreadOK(Over(r, "returned"))
        BY <1>1, OverNowOK DEF Endings
      <4>. QED BY <1>1, <2>1, <3>1, <4>1, BecomesOK
    <3>2. CASE ~done
      <4>1. /\ r.call \in Calls /\ r.sent \in Nat /\ r.sent < Sends(r.call)
            /\ << >> \in Seq(Hosts)
        BY <1>1, <2>1 DEF ThreadOK, Runs
      <4>2. Sends(r.call) \in Nat /\ r.sent + 1 # Sends(r.call)
        BY <2>1, <3>2, <4>1, SendsType
      <4>3. r.sent + 1 < Sends(r.call)
        BY <4>1, <4>2
      <4>4. ThreadOK(OneSent(r))
        BY <1>1, <2>1, <4>1, <4>3, MovesOK
      <4>. QED BY <1>1, <2>1, <3>2, <4>4, BecomesOK
    <3>. QED BY <2>1, <3>1, <3>2
  <2>. QED BY <2>2, <2>3, <2>4 DEF TypeInv
<1>10. CASE Refused(t)
  <2>1. /\ failed' = [failed EXCEPT ![Target(r)] = @ + 1] /\ Fails(t, TRUE)
        /\ r.pc = "send" /\ troubled' = troubled \cup {Target(r)} /\ UNCHANGED <<up, nodes>>
    BY <1>10 DEF Refused
  <2>2. PICK h \in Hosts : h = Target(r)
    BY <1>1, <2>1, TargetType
  <2>3. failed' = [failed EXCEPT ![h] = @ + 1] /\ troubled' = troubled \cup {h}
    BY <2>1, <2>2
  <2>4. WorldOK'
    BY <1>1, <2>1, <2>3 DEF WorldOK
  <2>. QED BY <2>1, <2>4, FailsOK DEF TypeInv
<1>11. CASE Rejected(t)
  <2>1. /\ r.pc = "send" /\ Fails(t, FALSE) /\ troubled' = troubled \cup {Target(r)}
        /\ UNCHANGED <<up, nodes, failed>>
    BY <1>11 DEF Rejected
  <2>2. PICK h \in Hosts : h = Target(r)
    BY <1>1, <2>1, TargetType
  <2>3. WorldOK'
    BY <1>1, <2>1, <2>2 DEF WorldOK
  <2>. QED BY <2>1, <2>3, FailsOK DEF TypeInv
<1>12. CASE TimesOut(t)
  <2>1. Becomes(t, Over(r, "raised")) /\ UNCHANGED <<up, nodes, policy, failed, clocks>>
    BY <1>12 DEF TimesOut
  <2>2. ThreadsOK'
    BY <1>1, <2>1, OverNowOK, BecomesOK DEF Endings
  <2>. QED BY <1>1, <2>1, <2>2 DEF TypeInv, WorldOK, PolicyOK, policy, clocks
<1>. QED BY <1>2, <1>3, <1>4, <1>5, <1>6, <1>7, <1>8, <1>9, <1>10, <1>11, <1>12 DEF Step

LEMMA TypeStep == TypeInv /\ TriesCounted /\ [Next]_vars => TypeInv'
<1> SUFFICES ASSUME TypeInv, TriesCounted, [Next]_vars PROVE TypeInv'
  OBVIOUS
<1>1. ASSUME NEW t \in Threads, NEW call \in Calls, Begin(t, call)
      PROVE  TypeInv'
  <2> DEFINE q == [Fresh EXCEPT !.pc = "select", !.call = call]
  <2>1. Becomes(t, q) /\ UNCHANGED <<up, nodes, policy, failed, troubled>>
    BY <1>1 DEF Begin
  <2>2. ThreadOK(q)
    <3>1. 0 \in 0 .. MaxRetries /\ << >> \in Seq(Hosts)
      BY RetriesAssumption
    <3>. QED BY <3>1 DEF ThreadOK, Runs, Fresh, Places, Endings
  <2> HIDE DEF q
  <2>3. ThreadsOK'
    BY <2>1, <2>2, BecomesOK DEF TypeInv
  <2>. QED BY <2>1, <2>3 DEF TypeInv, WorldOK, PolicyOK, policy
<1>2. ASSUME NEW h \in Hosts, HostDown(h) \/ HostUp(h)
      PROVE  TypeInv'
  <2>1. /\ UNCHANGED <<nodes, policy, run, failed>>
        /\ up' \subseteq up \cup {h} /\ troubled' \subseteq troubled \cup {h}
    BY <1>2 DEF HostDown, HostUp
  <2>. QED BY <2>1 DEF TypeInv, WorldOK, PolicyOK, ThreadsOK, ThreadOK, policy
<1>3. CASE HourPasses \/ UNCHANGED vars
  <2>1. /\ UNCHANGED <<up, nodes, faults, hostIndex, current, run, failed, troubled>>
        /\ old' \in {old, {h \in Hosts : faults[h] > 0}}
    BY <1>3 DEF HourPasses, vars
  <2>. QED BY <2>1 DEF TypeInv, WorldOK, PolicyOK, ThreadsOK, ThreadOK
<1>. QED BY <1>1, <1>2, <1>3, StepOK DEF Next

LEMMA TypeStart == Init => TypeInv
<1> SUFFICES ASSUME Init PROVE TypeInv
  OBVIOUS
<1>1. 0 \in 0 .. MaxRetries /\ << >> \in Seq(Hosts)
  BY RetriesAssumption
<1>2. ThreadOK(Fresh)
  BY <1>1 DEF ThreadOK, Runs, Fresh, Places, Endings, NoKind
<1>3. ThreadsOK
  BY <1>2 DEF Init, ThreadsOK
<1>. QED BY <1>3 DEF Init, TypeInv, WorldOK, PolicyOK, Nobody

LEMMA TypeInductive == Spec => [](TypeInv /\ TriesCounted)
<1>1. Init => TypeInv /\ TriesCounted
  BY TypeStart, InitCounted
<1>2. TypeInv /\ TriesCounted /\ [Next]_vars => (TypeInv /\ TriesCounted)'
  BY TypeStep, NextCounted
<1>. QED BY <1>1, <1>2, PTL DEF Spec

\* Whichever hosts fail and whatever the threads do to each other's turn, the
\* policy keeps counts and hosts, and a thread always has hosts to choose from.
THEOREM TypeCorrect == Spec => []TypeOK
<1>1. TypeInv => TypeOK
  BY DEF TypeInv, WorldOK, PolicyOK, ThreadsOK, ThreadOK, Runs, TypeOK, Places, NoKind
<1>. QED BY <1>1, TypeInductive, PTL

-----------------------------------------------------------------------------
(* One thread and one collection per update: charging the current host is  *)
(* charging the host that failed, and the turn passes a host in trouble.   *)

\* Nothing overlaps: one thread, no admin request, and no call makes a second
\* session before it sends.
SimpleUse ==
    /\ \A t, u \in Threads : t = u
    /\ ~AdminRequests
    /\ \A c \in Calls : c.kind = "probe" \/ (c.kind = "update" /\ c.groups = 1)

\* A call that sends has made one session, for the current host; all its requests
\* go to it.
OneSession(r) ==
    /\ r.pc # "idle" /\ r.retries >= 1 => r.call.kind = "update"
    /\ r.pc \in {"select", "force", "pick", "read"} /\ r.call.kind = "update" =>
           r.taken = << >>
    /\ r.pc = "advance" /\ r.call.kind = "update" => r.taken = <<current>>
    /\ r.pc = "send" => r.call.kind = "update" /\ r.taken = <<current>>

SessionsInv == \A t \in Threads : OneSession(run[t])

\* A host is charged for no more than the requests it failed, and for all of them
\* as long as no hour has passed.
ChargedFairly ==
    /\ hours \in Nat
    /\ \A h \in Hosts : faults[h] <= failed[h]
    /\ hours = 0 => old = {} /\ \A h \in Hosts : faults[h] = failed[h]

\* The only thread does what it does.
LEMMA OnlyThread ==
    ASSUME SimpleUse, ThreadsOK, NEW t \in Threads, NEW q, Becomes(t, q)
    PROVE  \A u \in Threads : u = t /\ run'[u] = q
  BY DEF SimpleUse, ThreadsOK, Becomes

\* Fields of a record of a thread after a move.
LEMMA MoveFields ==
    ASSUME NEW r \in Runs, NEW p, NEW q, q = [r EXCEPT !.pc = p]
    PROVE  /\ q.pc = p /\ q.call = r.call /\ q.selected = r.selected /\ q.taken = r.taken
           /\ q.sent = r.sent /\ q.retries = r.retries /\ q.ended = r.ended
  BY DEF Runs

LEMMA RetryFields ==
    ASSUME NEW r \in Runs, NEW q, q = OuterRetry(r)
    PROVE  /\ q.pc = "select" /\ q.call = r.call /\ q.selected = << >> /\ q.taken = << >>
           /\ q.sent = 0 /\ q.retries = r.retries + 1 /\ q.ended = r.ended
  BY DEF Runs, OuterRetry

LEMMA OverFields ==
    ASSUME NEW c, NEW ended
    PROVE  Over(c, ended).pc = "idle" /\ Over(c, ended).ended = ended
  BY DEF Over, Fresh

\* In simple use every request goes to the current host.
LEMMA SimpleTarget ==
    ASSUME SimpleUse, NEW r, ThreadOK(r), OneSession(r), r.pc = "send"
    PROVE  /\ r.call.kind = "update" /\ r.taken = <<current>>
           /\ Target(r) = current /\ current \in Hosts
<1>1. /\ r.call.kind = "update" /\ r.taken = <<current>> /\ r.call \in Calls
      /\ r.sent \in Nat /\ r.sent < Sends(r.call)
  BY DEF OneSession, ThreadOK, Runs
<1>2. r.call.groups = 1
  BY <1>1 DEF SimpleUse
<1>3. Sends(r.call) \in Nat /\ r.sent + 1 \in 1 .. Sends(r.call)
  BY <1>1, SendsType
<1>4. r.call.to[r.sent + 1] \in 1 .. 1
  BY <1>1, <1>2, <1>3, SendsType
<1>5. r.call.to[r.sent + 1] = 1
  BY <1>4
<1>6. Target(r) = current
  BY <1>1, <1>5 DEF Target
<1>. QED BY <1>1, <1>6, TargetType

\* In simple use a failing call is charged to the host of its session, once.
LEMMA SimpleFailure ==
    ASSUME SimpleUse, TypeInv, TriesCounted, SessionsInv,
           NEW t \in Threads, run[t].pc = "send", NEW server, Fails(t, server)
    PROVE  /\ Target(run[t]) = current /\ current \in Hosts
           /\ faults' \in [Hosts -> Nat] /\ old' = {}
           /\ \A h \in Hosts : faults'[h] <= faults[h] + (IF server /\ h = current THEN 1 ELSE 0)
           /\ old = {} => \A h \in Hosts :
                  faults'[h] = faults[h] + (IF server /\ h = current THEN 1 ELSE 0)
           /\ UNCHANGED <<hostIndex, current>>
           /\ \/ Becomes(t, OuterRetry(run[t])) /\ run[t].retries < MaxRetries
              \/ /\ \E c : Becomes(t, Over(c, "exhausted"))
                 /\ run[t].retries >= MaxRetries
<1> DEFINE r == run[t]
<1>1. ThreadOK(r) /\ OneSession(r) /\ PolicyOK /\ r \in Runs
  BY DEF SessionsInv, TypeInv, ThreadsOK, ThreadOK
<1>2. r.call.kind = "update" /\ Target(r) = current /\ current \in Hosts
  BY <1>1, SimpleTarget
<1>3. ~InInner(r)
  BY <1>2 DEF InInner
<1>4. /\ Charge(IF server THEN 1 ELSE 0) /\ UNCHANGED <<hostIndex, current>>
      /\ Becomes(t, IF MayRetry(r) THEN OuterRetry(r)
                    ELSE Over([r EXCEPT !.tries = @ + 1], "exhausted"))
  BY <1>3 DEF Fails
<1>5. /\ faults' \in [Hosts -> Nat] /\ old' = {}
      /\ \A h \in Hosts : faults'[h] <= faults[h] + (IF server /\ h = current THEN 1 ELSE 0)
      /\ old = {} => \A h \in Hosts :
             faults'[h] = faults[h] + (IF server /\ h = current THEN 1 ELSE 0)
  <2> DEFINE n == IF server THEN 1 ELSE 0
             fresh == old \ IF n > 0 THEN {current} ELSE {}
  <2>1. /\ faults' = [h \in Hosts |-> (IF h \in fresh THEN 0 ELSE faults[h])
                                          + (IF h = current THEN n ELSE 0)]
        /\ old' = {}
    BY <1>4 DEF Charge
  <2>2. old = {} => fresh = {}
    OBVIOUS
  <2> HIDE DEF fresh
  <2>. QED BY <1>1, <2>1, <2>2 DEF PolicyOK
<1>6. r.retries \in Nat /\ MaxRetries \in Nat
  BY <1>1, RetriesAssumption DEF Runs
<1>7. \/ Becomes(t, OuterRetry(r)) /\ r.retries < MaxRetries
      \/ Becomes(t, Over([r EXCEPT !.tries = @ + 1], "exhausted")) /\ r.retries >= MaxRetries
  BY <1>4, <1>6 DEF MayRetry
<1>. QED BY <1>2, <1>4, <1>5, <1>7

LEMMA FairCharge ==
    SimpleUse /\ TypeInv /\ TriesCounted /\ SessionsInv /\ ChargedFairly /\ [Next]_vars
        => SessionsInv' /\ ChargedFairly'
<1> SUFFICES ASSUME SimpleUse, TypeInv, TriesCounted, SessionsInv, ChargedFairly, [Next]_vars
             PROVE  SessionsInv' /\ ChargedFairly'
  OBVIOUS
<1>0. WorldOK /\ PolicyOK /\ ThreadsOK
  BY DEF TypeInv
<1>a. ASSUME NEW t \in Threads, NEW q, Becomes(t, q), q.pc = "idle"
      PROVE  SessionsInv'
  BY <1>0, <1>a, OnlyThread DEF SessionsInv, OneSession
<1>b. ASSUME UNCHANGED <<faults, old, failed, hours>>
      PROVE  ChargedFairly'
  BY <1>b DEF ChargedFairly
<1>c. ASSUME NEW t \in Threads, NEW q, NEW p, q = p, Becomes(t, p), OneSession(q)'
      PROVE  SessionsInv'
  <2>1. \A u \in Threads : run'[u] = q
    BY <1>0, <1>c, OnlyThread
  <2>. QED BY <1>c, <2>1 DEF SessionsInv, OneSession
<1>1. ASSUME NEW t \in Threads, NEW call \in Calls, Begin(t, call)
      PROVE  SessionsInv' /\ ChargedFairly'
  <2> DEFINE q == [Fresh EXCEPT !.pc = "select", !.call = call]
  <2>1. q.pc = "select" /\ q.call = call /\ q.taken = << >> /\ q.retries = 0
    BY DEF Fresh
  <2>2. Becomes(t, q) /\ UNCHANGED <<faults, old, failed, hours>>
    BY <1>1 DEF Begin, policy
  <2> HIDE DEF q
  <2>. QED BY <1>0, <1>b, <2>1, <2>2, OnlyThread DEF SessionsInv, OneSession
<1>2. ASSUME NEW t \in Threads, Step(t)
      PROVE  SessionsInv' /\ ChargedFairly'
  <2> DEFINE r == run[t]
  <2>0. r \in Runs /\ OneSession(r) /\ ThreadOK(r)
    BY <1>0 DEF ThreadsOK, ThreadOK, SessionsInv
  <2>1. CASE Select(t)
    <3>1. PICK list : /\ r.pc = "select" /\ Becomes(t, [r EXCEPT !.pc = "force", !.selected = list])
                      /\ UNCHANGED <<faults, old, failed, hours>>
      BY <2>1 DEF Select, policy, clocks
    <3>2. PICK q : q = [r EXCEPT !.pc = "force", !.selected = list]
      OBVIOUS
    <3>3. q.pc = "force" /\ q.call = r.call /\ q.taken = r.taken /\ q.retries = r.retries
      BY <2>0, <3>2 DEF Runs
    <3>4. OneSession(q)'
      BY <2>0, <3>1, <3>3 DEF OneSession
    <3>. QED BY <1>b, <1>c, <3>1, <3>2, <3>4
  <2>2. CASE SelectFails(t)
    BY <2>2 DEF SelectFails, SimpleUse
  <2>3. CASE ForceIndex(t)
    <3>1. /\ r.pc = "force" /\ Becomes(t, [r EXCEPT !.pc = "pick"])
          /\ UNCHANGED <<faults, old, failed, hours>>
      BY <2>3 DEF ForceIndex, clocks
    <3>2. PICK q : q = [r EXCEPT !.pc = "pick"]
      OBVIOUS
    <3>3. q.pc = "pick" /\ q.call = r.call /\ q.taken = r.taken /\ q.retries = r.retries
      BY <2>0, <3>2, MoveFields
    <3>4. OneSession(q)'
      BY <2>0, <3>1, <3>3 DEF OneSession
    <3>. QED BY <1>b, <1>c, <3>1, <3>2, <3>4
  <2>4. CASE PickHost(t)
    <3>1. /\ r.pc = "pick" /\ Becomes(t, [r EXCEPT !.pc = "read"])
          /\ UNCHANGED <<faults, old, failed, hours>>
      BY <2>4 DEF PickHost, clocks
    <3>2. PICK q : q = [r EXCEPT !.pc = "read"]
      OBVIOUS
    <3>3. q.pc = "read" /\ q.call = r.call /\ q.taken = r.taken /\ q.retries = r.retries
      BY <2>0, <3>2, MoveFields
    <3>4. OneSession(q)'
      BY <2>0, <3>1, <3>3 DEF OneSession
    <3>. QED BY <1>b, <1>c, <3>1, <3>2, <3>4
  <2>5. CASE ReadHost(t)
    <3>1. PICK list : /\ r.pc = "read" /\ Becomes(t, [r EXCEPT !.pc = "advance", !.taken = list])
                      /\ list = Append(r.taken, current)
                      /\ UNCHANGED <<faults, old, failed, hours, current>>
      BY <2>5 DEF ReadHost, policy, clocks
    <3>2. PICK q : q = [r EXCEPT !.pc = "advance", !.taken = list]
      OBVIOUS
    <3>3. q.pc = "advance" /\ q.call = r.call /\ q.taken = list /\ q.retries = r.retries
      BY <2>0, <3>2 DEF Runs
    <3>4. r.call.kind = "update" => list = <<current>>
      <4>1. ASSUME NEW x PROVE Append(<< >>, x) = <<x>>
        OBVIOUS
      <4>2. r.call.kind = "update" => r.taken = << >>
        BY <2>0, <3>1 DEF OneSession
      <4>. QED BY <3>1, <4>1, <4>2
    <3>5. OneSession(q)'
      BY <2>0, <3>1, <3>3, <3>4 DEF OneSession
    <3>. QED BY <1>b, <1>c, <3>1, <3>2, <3>5
  <2>6. CASE ReadNothing(t)
    <3>1. Becomes(t, Over(r, "raised")) /\ UNCHANGED <<faults, old, failed, hours>>
      BY <2>6 DEF ReadNothing, policy, clocks
    <3>. QED BY <1>a, <1>b, <3>1, OverFields
  <2>7. CASE Advance(t)
    <3>1. r.pc = "advance" /\ UNCHANGED <<faults, old, failed, hours, current>>
      BY <2>7 DEF Advance, clocks
    <3>2. r.call \in Calls
      BY <2>0, <3>1 DEF ThreadOK
    <3>3. CASE r.call.kind = "update"
      <4>1. r.taken = <<current>> /\ r.call.groups = 1
        BY <2>0, <3>1, <3>2, <3>3 DEF OneSession, SimpleUse
      <4>2. ~(Len(r.taken) < r.call.groups)
        BY <4>1
      <4>3. Sends(r.call) # 0
        <5>1. r.call.to \in Seq(Nat \ {0}) \ {<< >>}
          BY <3>2, <3>3, CallsAssumption DEF Requests
        <5>. QED BY <5>1 DEF Sends
      <4>4. Becomes(t, [r EXCEPT !.pc = "send"])
        BY <2>7, <4>2, <4>3 DEF Advance
      <4>5. PICK q : q = [r EXCEPT !.pc = "send"]
        OBVIOUS
      <4>6. q.pc = "send" /\ q.call = r.call /\ q.taken = r.taken /\ q.retries = r.retries
        BY <2>0, <4>5, MoveFields
      <4>7. OneSession(q)'
        BY <2>0, <3>1, <3>3, <4>1, <4>6 DEF OneSession
      <4>. QED BY <1>b, <1>c, <3>1, <4>4, <4>5, <4>7
    <3>4. CASE r.call.kind # "update"
      <4>1. r.call.kind = "probe"
        BY <3>2, <3>4 DEF SimpleUse
      <4>2. Sends(r.call) = 0
        <5>1. r.call.to = << >>
          BY <3>2, <4>1, CallsAssumption DEF Requests
        <5>. QED BY <5>1 DEF Sends
      <4>3. Becomes(t, [r EXCEPT !.pc = "select"]) \/ Becomes(t, Over(r, "returned"))
        BY <2>7, <4>2 DEF Advance
      <4>4. PICK q : q = [r EXCEPT !.pc = "select"]
        OBVIOUS
      <4>5. q.pc = "select" /\ q.call = r.call /\ q.taken = r.taken /\ q.retries = r.retries
        BY <2>0, <4>4, MoveFields
      <4>6. CASE Becomes(t, q)
        <5>1. OneSession(q)'
          BY <2>0, <3>1, <3>4, <4>5 DEF OneSession
        <5>. QED BY <1>b, <1>c, <3>1, <4>6, <5>1
      <4>7. CASE Becomes(t, Over(r, "returned"))
        BY <1>a, <1>b, <3>1, <4>7, OverFields
      <4>. QED BY <4>3, <4>4, <4>6, <4>7
    <3>. QED BY <3>3, <3>4
  <2>8. CASE Succeed(t)
    <3>1. PICK done \in BOOLEAN :
            /\ r.pc = "send" /\ UNCHANGED <<hours, current>>
            /\ IF (done /\ r.call.kind # "search") \/ InInner(r)
               THEN Reset ELSE UNCHANGED <<faults, old>>
            /\ failed' = [h \in Hosts |-> IF done /\ \E i \in DOMAIN r.taken : r.taken[i] = h
                                          THEN 0 ELSE failed[h]]
            /\ Becomes(t, IF done THEN Over(r, "returned") ELSE OneSent(r))
      BY <2>8 DEF Succeed, clocks
    <3>2. /\ r.call.kind = "update" /\ r.taken = <<current>> /\ current \in Hosts
      BY <2>0, <3>1, SimpleTarget
    <3>3. ~InInner(r)
      BY <3>2 DEF InInner
    <3>4. CASE done
      <4>1. Reset /\ Becomes(t, Over(r, "returned"))
        BY <3>1, <3>2, <3>4
      <4>2. \A h \in Hosts : (\E i \in DOMAIN r.taken : r.taken[i] = h) <=> h = current
        <5>1. DOMAIN r.taken = {1} /\ r.taken[1] = current
          BY <3>2
        <5>. QED BY <5>1
      <4>3. \A h \in Hosts : failed'[h] = IF h = current THEN 0 ELSE failed[h]
        BY <3>1, <3>4, <4>2
      <4>4. /\ \A h \in Hosts : faults'[h] = IF h = current THEN 0 ELSE faults[h]
            /\ old' = old \ {current}
        BY <4>1 DEF Reset
      <4>5. ChargedFairly'
        BY <3>1, <4>3, <4>4 DEF ChargedFairly
      <4>. QED BY <1>a, <4>1, <4>5, OverFields
    <3>5. CASE ~done
      <4>1. UNCHANGED <<faults, old>> /\ Becomes(t, OneSent(r))
        BY <3>1, <3>3, <3>5
      <4>2. failed' = failed
        <5>1. failed' = [h \in Hosts |-> failed[h]]
          BY <3>1, <3>5
        <5>. QED BY <1>0, <5>1 DEF WorldOK
      <4>3. PICK q : q = OneSent(r)
        OBVIOUS
      <4>4. q.pc = r.pc /\ q.call = r.call /\ q.taken = r.taken /\ q.retries = r.retries
        BY <2>0, <4>3 DEF OneSent, Runs
      <4>5. OneSession(q)'
        BY <2>0, <3>1, <4>4 DEF OneSession
      <4>. QED BY <1>b, <1>c, <3>1, <4>1, <4>2, <4>3, <4>5
    <3>. QED BY <3>1, <3>4, <3>5
  <2>9. CASE Refused(t) \/ Rejected(t)
    <3>1. r.pc = "send"
      BY <2>9 DEF Refused, Rejected
    <3>2. PICK server \in BOOLEAN :
            /\ Fails(t, server) /\ hours' = hours
            /\ failed' = IF server THEN [failed EXCEPT ![Target(r)] = @ + 1] ELSE failed
      BY <2>9 DEF Refused, Rejected
    <3>3. /\ Target(r) = current /\ current \in Hosts
          /\ faults' \in [Hosts -> Nat] /\ old' = {}
          /\ \A h \in Hosts : faults'[h] <= faults[h] + (IF server /\ h = current THEN 1 ELSE 0)
          /\ old = {} => \A h \in Hosts :
                 faults'[h] = faults[h] + (IF server /\ h = current THEN 1 ELSE 0)
          /\ \/ Becomes(t, OuterRetry(r))
             \/ \E c : Becomes(t, Over(c, "exhausted"))
      BY <3>1, <3>2, SimpleFailure
    <3>4. ChargedFairly'
      <4>1. \A h \in Hosts : failed'[h] = failed[h] + (IF server /\ h = current THEN 1 ELSE 0)
        BY <1>0, <3>2, <3>3 DEF WorldOK
      <4>2. ASSUME NEW h \in Hosts
            PROVE  faults'[h] <= failed'[h]
        <5>1. /\ faults[h] <= failed[h] /\ faults[h] \in Nat /\ failed[h] \in Nat
              /\ faults'[h] \in Nat
          BY <1>0, <3>3 DEF ChargedFairly, WorldOK, PolicyOK
        <5>2. faults'[h] <= faults[h] + (IF server /\ h = current THEN 1 ELSE 0)
          BY <3>3
        <5>3. failed'[h] = failed[h] + (IF server /\ h = current THEN 1 ELSE 0)
          BY <4>1
        <5>. QED BY <5>1, <5>2, <5>3
      <4>3. hours = 0 => \A h \in Hosts : faults'[h] = failed'[h]
        BY <3>3, <4>1 DEF ChargedFairly
      <4>. QED BY <3>2, <3>3, <4>2, <4>3 DEF ChargedFairly
    <3>5. SessionsInv'
      <4>1. CASE Becomes(t, OuterRetry(r))
        <5>1. r.call.kind = "update"
          BY <2>0, <3>1 DEF OneSession
        <5>2. PICK q : q = OuterRetry(r)
          OBVIOUS
        <5>3. /\ q.pc = "select" /\ q.call = r.call /\ q.taken = << >>
          BY <2>0, <5>2, RetryFields
        <5>4. OneSession(q)'
          BY <5>1, <5>3 DEF OneSession
        <5>. QED BY <1>c, <4>1, <5>2, <5>4
      <4>2. CASE \E c : Becomes(t, Over(c, "exhausted"))
        BY <1>a, <4>2, OverFields
      <4>. QED BY <3>3, <4>1, <4>2
    <3>. QED BY <3>4, <3>5
  <2>10. CASE TimesOut(t)
    <3>1. Becomes(t, Over(r, "raised")) /\ UNCHANGED <<faults, old, failed, hours>>
      BY <2>10 DEF TimesOut, policy, clocks
    <3>. QED BY <1>a, <1>b, <3>1, OverFields
  <2>. QED BY <1>2, <2>1, <2>2, <2>3, <2>4, <2>5, <2>6, <2>7, <2>8, <2>9, <2>10 DEF Step
<1>3. ASSUME UNCHANGED <<run, current>>
      PROVE  SessionsInv'
  BY <1>3 DEF SessionsInv, OneSession
<1>4. ASSUME NEW h \in Hosts, HostDown(h) \/ HostUp(h)
      PROVE  SessionsInv' /\ ChargedFairly'
  <2>1. UNCHANGED <<run, current, faults, old, failed, hours>>
    BY <1>4 DEF HostDown, HostUp, policy
  <2>. QED BY <1>3, <1>b, <2>1
<1>5. CASE HourPasses
  <2>1. hours' = hours + 1 /\ UNCHANGED <<run, current, faults, failed>>
    BY <1>5 DEF HourPasses
  <2>2. ChargedFairly'
    BY <2>1 DEF ChargedFairly
  <2>. QED BY <1>3, <2>1, <2>2
<1>6. CASE UNCHANGED vars
  <2>1. UNCHANGED <<run, current, faults, old, failed, hours>>
    BY <1>6 DEF vars
  <2>. QED BY <1>3, <1>b, <2>1
<1>. QED BY <1>1, <1>2, <1>4, <1>5, <1>6 DEF Next

LEMMA FairChargeInductive ==
    SimpleUse => (Spec => [](TypeInv /\ TriesCounted /\ SessionsInv /\ ChargedFairly))
<1> DEFINE Inv == TypeInv /\ TriesCounted /\ SessionsInv /\ ChargedFairly
<1> SUFFICES ASSUME SimpleUse PROVE Spec => []Inv
  OBVIOUS
<1>1. Init => Inv
  <2>1. Init => SessionsInv /\ ChargedFairly
    BY DEF Init, SessionsInv, OneSession, ChargedFairly, Fresh
  <2>. QED BY <2>1, TypeStart, InitCounted
<1>2. Inv /\ [Next]_vars => Inv'
  BY TypeStep, NextCounted, FairCharge
<1>. QED BY <1>1, <1>2, PTL DEF Spec

\* When nothing overlaps and a call writes to one collection, with however many
\* requests, a host that is passed over has failed three requests since a call on
\* it ended well, and one that failed three is passed over until an hour has
\* passed: the host charged and forgiven is the current one, and the current one
\* is the host of every request of the call.
THEOREM OnlyTheFailingIsFaulty ==
    ASSUME SimpleUse PROVE Spec => []FaultyMeansFailed
<1>1. TypeInv /\ ChargedFairly => FaultyMeansFailed
  BY DEF TypeInv, PolicyOK, WorldOK, ChargedFairly, FaultyMeansFailed, Faulty, FaultLimit
<1>2. Spec => [](TypeInv /\ TriesCounted /\ SessionsInv /\ ChargedFairly)
  BY FairChargeInductive
<1>. QED BY <1>1, <1>2, PTL

-----------------------------------------------------------------------------
(* The turn passes the one host that was in trouble.                       *)

TwoHostsAtLeast == \E a, b \in Hosts : a # b

AtMostOne == \A x, y \in troubled : x = y

\* The hosts selected are at least those that were never in trouble, sorted.
Choice(list) == \E G \in SUBSET Hosts : Hosts \ troubled \subseteq G /\ list = Sorted(G)

\* Where the turn is while a call runs.
TurnKept(r) ==
    /\ r.pc \in {"force", "pick", "read", "advance", "send"} => Choice(r.selected)
    /\ r.pc \in {"pick", "read", "advance"} => hostIndex < Len(r.selected)
    /\ r.pc \in {"read", "advance"} => current = r.selected[hostIndex + 1]
    /\ r.pc = "send" => \E k \in 0 .. Len(r.selected) - 1 :
           current = r.selected[k + 1] /\ hostIndex = (k + 1) % Len(r.selected)

\* After a failure the turn is at a host that was never in trouble.
TurnMoved(r) ==
    /\ r.pc = "select" =>
           /\ hostIndex < Len(Sorted(Hosts))
           /\ Sorted(Hosts)[hostIndex + 1] \notin troubled
    /\ r.pc = "force" => r.selected[(hostIndex % Len(r.selected)) + 1] \notin troubled
    /\ r.pc = "pick" => r.selected[hostIndex + 1] \notin troubled
    /\ r.pc \in {"read", "advance", "send"} => current \notin troubled

RunTurn(r) ==
    /\ r.ended # "exhausted"
    /\ TurnKept(r)
    /\ r.pc # "idle" /\ r.retries >= 1 => troubled # {} /\ TurnMoved(r)

\* A host is charged or down only if it has been in trouble.
TroubleInv ==
    /\ nodes = Hosts
    /\ Hosts \ up \subseteq troubled
    /\ \A h \in Hosts : faults[h] > 0 => h \in troubled

TurnInv == AtMostOne => \A t \in Threads : RunTurn(run[t])

LEMMA SortedHosts ==
    ASSUME NEW G \in SUBSET Hosts
    PROVE  /\ Sorted(G) \in Seq(Hosts) /\ Len(Sorted(G)) \in Nat
           /\ \A i \in 1 .. Len(Sorted(G)) : Sorted(G)[i] \in G
           /\ \A i, j \in 1 .. Len(Sorted(G)) : i # j => Sorted(G)[i] # Sorted(G)[j]
           /\ \A x \in G : \E i \in 1 .. Len(Sorted(G)) : Sorted(G)[i] = x
<1>1. IsFiniteSet(G) /\ G \subseteq Nat
  BY HostsAssumption, FS_Subset
<1>2. Cardinality(G) \in Nat /\ Sorted(G) \in [1 .. Cardinality(G) -> G]
  BY <1>1, SortedProperties
<1>3. Sorted(G) \in Seq(Hosts) /\ Len(Sorted(G)) = Cardinality(G)
  BY <1>2
<1>. QED BY <1>1, <1>2, <1>3, SortedProperties

LEMMA Turns ==
    ASSUME NEW n \in Nat, NEW k \in 0 .. n - 1
    PROVE  /\ k % n = k
           /\ (k + 1) % n \in 0 .. n - 1
           /\ n >= 2 => (k + 1) % n # k
<1>1. CASE k + 1 = n
  <2>1. n % n = 0
    OBVIOUS
  <2>. QED BY <1>1, <2>1
<1>2. CASE k + 1 < n
  <2>1. ASSUME NEW j \in 0 .. n - 1 PROVE j % n = j
    OBVIOUS
  <2>. QED BY <1>2, <2>1
<1>. QED BY <1>1, <1>2

\* The host after the one in trouble was never in trouble.
LEMMA AfterTrouble ==
    ASSUME TwoHostsAtLeast, NEW T, \A x, y \in T : x = y,
           NEW G \in SUBSET Hosts, Hosts \ T \subseteq G, NEW list, list = Sorted(G),
           NEW k \in 0 .. Len(list) - 1, list[k + 1] \in T
    PROVE  /\ (k + 1) % Len(list) < Len(Sorted(Hosts))
           /\ Sorted(Hosts)[((k + 1) % Len(list)) + 1] \notin T
<1>1. Len(list) \in Nat /\ k + 1 \in 1 .. Len(list)
  BY SortedHosts
<1>2. list[k + 1] \in G
  BY <1>1, SortedHosts
<1>3. G = Hosts
  BY <1>2
<1>4. Len(list) >= 2
  <2>1. PICK a \in G, b \in G : a # b
    BY <1>3 DEF TwoHostsAtLeast
  <2>2. PICK i \in 1 .. Len(list), j \in 1 .. Len(list) : list[i] = a /\ list[j] = b
    BY SortedHosts
  <2>. QED BY <1>1, <2>1, <2>2
<1>5. PICK m \in 0 .. Len(list) - 1 : m = (k + 1) % Len(list) /\ m # k
  BY <1>1, <1>4, Turns
<1>6. m + 1 \in 1 .. Len(list) /\ m + 1 # k + 1
  BY <1>1, <1>5
<1>7. list[m + 1] # list[k + 1]
  BY <1>1, <1>6, SortedHosts
<1>8. list[m + 1] \notin T
  BY <1>7
<1>9. m < Len(list)
  BY <1>1, <1>5
<1>. QED BY <1>3, <1>5, <1>8, <1>9

\* Wrapping the turn around a list keeps it off the host in trouble.
LEMMA Wrapped ==
    ASSUME NEW T, \A x, y \in T : x = y,
           NEW G \in SUBSET Hosts, Hosts \ T \subseteq G, NEW list, list = Sorted(G),
           list # << >>, NEW i \in Nat, i < Len(Sorted(Hosts)), Sorted(Hosts)[i + 1] \notin T
    PROVE  i % Len(list) < Len(list) /\ list[(i % Len(list)) + 1] \notin T
<1>1. Len(list) \in Nat /\ Len(list) # 0 /\ list \in Seq(Hosts)
  <2>1. list \in Seq(Hosts)
    BY SortedHosts
  <2>. QED BY <2>1
<1>2. CASE G = Hosts
  <2>1. i \in 0 .. Len(list) - 1
    BY <1>1, <1>2
  <2>2. i % Len(list) = i
    BY <1>1, <2>1, Turns
  <2>. QED BY <1>2, <2>2
<1>3. CASE G # Hosts
  <2>1. PICK h \in Hosts : h \notin G
    BY <1>3
  <2>2. \A x \in G : x \notin T
    BY <2>1
  <2>3. PICK m : m = i % Len(list) /\ m \in 0 .. Len(list) - 1
    BY <1>1
  <2>4. m + 1 \in 1 .. Len(list) /\ m < Len(list)
    BY <1>1, <2>3
  <2>5. list[m + 1] \in G
    BY <2>4, SortedHosts
  <2>. QED BY <2>2, <2>3, <2>4, <2>5
<1>. QED BY <1>2, <1>3

LEMMA SelectedChoice ==
    ASSUME TwoHostsAtLeast, PolicyOK, TroubleInv, AtMostOne
    PROVE  Choice(Selected(Hosts))
<1> DEFINE good == {h \in Hosts \cup SeedSet : ~Faulty(h)}
<1>1. good \in SUBSET Hosts
  BY SeedsAreHosts
<1>2. Hosts \ troubled \subseteq good
  <2>1. ASSUME NEW h \in Hosts, h \notin troubled PROVE ~Faulty(h)
    BY <2>1 DEF TroubleInv, PolicyOK, Faulty, FaultLimit
  <2>. QED BY <2>1
<1>3. good # {}
  BY <1>2 DEF TwoHostsAtLeast, AtMostOne
<1>4. Selected(Hosts) = Sorted(good)
  BY <1>3 DEF Selected
<1> HIDE DEF good
<1>. QED BY <1>1, <1>2, <1>4 DEF Choice

\* Another host in trouble is one too many.
LEMMA TurnStays ==
    ASSUME NEW r, AtMostOne' => RunTurn(r), UNCHANGED <<hostIndex, current>>,
           troubled \subseteq troubled'
    PROVE  AtMostOne' => RunTurn(r)'
<1> SUFFICES ASSUME AtMostOne' PROVE RunTurn(r)'
  OBVIOUS
<1>1. ASSUME NEW list, Choice(list) PROVE Choice(list)'
  BY <1>1 DEF Choice
<1>2. TurnKept(r)'
  BY <1>1 DEF RunTurn, TurnKept
<1>3. r.pc # "idle" /\ r.retries >= 1 => troubled' = troubled
  BY DEF RunTurn, AtMostOne
<1>4. ASSUME r.pc # "idle", r.retries >= 1 PROVE troubled' # {} /\ TurnMoved(r)'
  BY <1>3, <1>4 DEF RunTurn, TurnMoved
<1>. QED BY <1>2, <1>4 DEF RunTurn

LEMMA TurnStep ==
    ASSUME SimpleUse, TwoHostsAtLeast, MaxRetries # 0, TypeInv, TriesCounted, SessionsInv,
           TroubleInv, TurnInv, NEW t \in Threads, Step(t)
    PROVE  TroubleInv' /\ TurnInv'
<1> DEFINE r == run[t]
<1>0. WorldOK /\ PolicyOK /\ ThreadsOK /\ ThreadOK(r) /\ r \in Runs /\ OneSession(r)
  BY DEF TypeInv, ThreadsOK, ThreadOK, SessionsInv
<1>a. AtMostOne => RunTurn(r)
  BY DEF TurnInv
<1>b. ASSUME NEW q, NEW p, q = p, Becomes(t, p), AtMostOne' => RunTurn(q)'
      PROVE  TurnInv'
  <2>1. \A u \in Threads : run'[u] = q
    BY <1>0, <1>b, OnlyThread
  <2>. QED BY <1>b, <2>1 DEF TurnInv, RunTurn, TurnKept, TurnMoved
<1>c. ASSUME NEW c, NEW ended, ended # "exhausted", Becomes(t, Over(c, ended))
      PROVE  TurnInv'
  <2>1. PICK q : q = Over(c, ended) /\ q.pc = "idle" /\ q.ended = ended
    BY OverFields
  <2>2. RunTurn(q)'
    BY <1>c, <2>1 DEF RunTurn, TurnKept
  <2>. QED BY <1>b, <1>c, <2>1, <2>2
<1>d. ASSUME UNCHANGED <<nodes, up, faults, troubled>> PROVE TroubleInv' /\ (AtMostOne' => AtMostOne)
  BY <1>d DEF TroubleInv, AtMostOne
<1>1. CASE Select(t)
  <2>1. nodes' = nodes /\ nodes = Hosts /\ UNCHANGED <<up, faults, troubled, hostIndex, current>>
    BY <1>1 DEF Select, SimpleUse, TroubleInv, policy, clocks
  <2>2. PICK list : list = Selected(Hosts)
    OBVIOUS
  <2>3. r.pc = "select" /\ Becomes(t, [r EXCEPT !.pc = "force", !.selected = list])
    BY <1>1, <2>1, <2>2 DEF Select
  <2>4. PICK q : q = [r EXCEPT !.pc = "force", !.selected = list]
    OBVIOUS
  <2>5. q.pc = "force" /\ q.selected = list /\ q.retries = r.retries /\ q.ended = r.ended
    BY <1>0, <2>4 DEF Runs
  <2>6. ASSUME AtMostOne' PROVE RunTurn(q)'
    <3>1. AtMostOne /\ RunTurn(r)
      BY <1>a, <1>d, <2>1, <2>6
    <3>2. Choice(list) /\ list # << >>
      BY <1>0, <2>2, <3>1, SelectedChoice, SelectedType
    <3>3. Choice(list)'
      BY <2>1, <3>2 DEF Choice
    <3>4. ASSUME r.retries >= 1 PROVE troubled' # {} /\ TurnMoved(q)'
      <4>1. /\ troubled # {} /\ hostIndex < Len(Sorted(Hosts))
            /\ Sorted(Hosts)[hostIndex + 1] \notin troubled
        BY <2>3, <3>1, <3>4 DEF RunTurn, TurnMoved
      <4>2. PICK G \in SUBSET Hosts : Hosts \ troubled \subseteq G /\ list = Sorted(G)
        BY <3>2 DEF Choice
      <4>3. hostIndex \in Nat /\ \A x, y \in troubled : x = y
        BY <1>0, <3>1 DEF PolicyOK, AtMostOne
      <4>4. list[(hostIndex % Len(list)) + 1] \notin troubled
        BY <3>2, <4>1, <4>2, <4>3, Wrapped
      <4>. QED BY <2>1, <2>5, <4>1, <4>4 DEF TurnMoved
    <3>. QED BY <2>5, <3>1, <3>3, <3>4 DEF RunTurn, TurnKept
  <2>. QED BY <1>b, <1>d, <2>1, <2>3, <2>4, <2>6
<1>2. CASE SelectFails(t)
  BY <1>2 DEF SelectFails, SimpleUse
<1>3. CASE ForceIndex(t)
  <2>1. /\ r.pc = "force" /\ hostIndex' = hostIndex % Len(r.selected)
        /\ UNCHANGED <<nodes, up, faults, troubled>>
        /\ Becomes(t, [r EXCEPT !.pc = "pick"])
    BY <1>3 DEF ForceIndex, clocks
  <2>2. PICK q : q = [r EXCEPT !.pc = "pick"]
    OBVIOUS
  <2>3. q.pc = "pick" /\ q.selected = r.selected /\ q.retries = r.retries /\ q.ended = r.ended
    BY <1>0, <2>2 DEF Runs
  <2>4. PICK n \in Nat : n = Len(r.selected) /\ n # 0
    <3>1. PICK list \in Seq(Hosts) : list = r.selected /\ list # << >>
      BY <1>0, <2>1 DEF Runs, ThreadOK
    <3>2. Len(list) \in Nat /\ Len(list) # 0
      BY <3>1
    <3>. QED BY <3>1, <3>2
  <2>5. hostIndex' < Len(q.selected)
    BY <1>0, <2>1, <2>3, <2>4 DEF PolicyOK
  <2>6. ASSUME AtMostOne' PROVE RunTurn(q)'
    <3>1. AtMostOne /\ RunTurn(r)
      BY <1>a, <1>d, <2>1, <2>6
    <3>2. Choice(q.selected)'
      BY <2>1, <2>3, <3>1 DEF RunTurn, TurnKept, Choice
    <3>3. ASSUME r.retries >= 1 PROVE troubled' # {} /\ TurnMoved(q)'
      <4>1. troubled # {} /\ r.selected[(hostIndex % Len(r.selected)) + 1] \notin troubled
        BY <2>1, <3>1, <3>3 DEF RunTurn, TurnMoved
      <4>. QED BY <2>1, <2>3, <4>1 DEF TurnMoved
    <3>. QED BY <2>3, <2>5, <3>1, <3>2, <3>3 DEF RunTurn, TurnKept
  <2>. QED BY <1>b, <1>d, <2>1, <2>2, <2>6
<1>4. CASE PickHost(t)
  <2>1. /\ r.pc = "pick"
        /\ current' = IF hostIndex < Len(r.selected) THEN r.selected[hostIndex + 1] ELSE Nobody
        /\ UNCHANGED <<nodes, up, faults, troubled, hostIndex>>
        /\ Becomes(t, [r EXCEPT !.pc = "read"])
    BY <1>4 DEF PickHost, clocks
  <2>2. PICK q : q = [r EXCEPT !.pc = "read"]
    OBVIOUS
  <2>3. q.pc = "read" /\ q.selected = r.selected /\ q.retries = r.retries /\ q.ended = r.ended
    BY <1>0, <2>2 DEF Runs
  <2>4. ASSUME AtMostOne' PROVE RunTurn(q)'
    <3>1. AtMostOne /\ RunTurn(r)
      BY <1>a, <1>d, <2>1, <2>4
    <3>2. hostIndex < Len(r.selected) /\ current' = r.selected[hostIndex + 1]
      BY <2>1, <3>1 DEF RunTurn, TurnKept
    <3>3. Choice(q.selected)'
      BY <2>1, <2>3, <3>1 DEF RunTurn, TurnKept, Choice
    <3>4. ASSUME r.retries >= 1 PROVE troubled' # {} /\ TurnMoved(q)'
      BY <2>1, <2>3, <3>1, <3>2, <3>4 DEF RunTurn, TurnMoved
    <3>. QED BY <2>1, <2>3, <3>1, <3>2, <3>3, <3>4 DEF RunTurn, TurnKept
  <2>. QED BY <1>b, <1>d, <2>1, <2>2, <2>4
<1>5. CASE ReadHost(t)
  <2>1. PICK list :
          /\ r.pc = "read" /\ UNCHANGED <<nodes, up, faults, troubled, hostIndex, current>>
          /\ Becomes(t, [r EXCEPT !.pc = "advance", !.taken = list])
    BY <1>5 DEF ReadHost, policy, clocks
  <2>2. PICK q : q = [r EXCEPT !.pc = "advance", !.taken = list]
    OBVIOUS
  <2>3. q.pc = "advance" /\ q.selected = r.selected /\ q.retries = r.retries /\ q.ended = r.ended
    BY <1>0, <2>2 DEF Runs
  <2>4. ASSUME AtMostOne' PROVE RunTurn(q)'
    <3>1. AtMostOne /\ RunTurn(r)
      BY <1>a, <1>d, <2>1, <2>4
    <3>2. Choice(q.selected)'
      BY <2>1, <2>3, <3>1 DEF RunTurn, TurnKept, Choice
    <3>3. ASSUME r.retries >= 1 PROVE troubled' # {} /\ TurnMoved(q)'
      BY <2>1, <2>3, <3>1, <3>3 DEF RunTurn, TurnMoved
    <3>. QED BY <2>1, <2>3, <3>1, <3>2, <3>3 DEF RunTurn, TurnKept
  <2>. QED BY <1>b, <1>d, <2>1, <2>2, <2>4
<1>6. CASE ReadNothing(t)
  <2>1. Becomes(t, Over(r, "raised")) /\ UNCHANGED <<nodes, up, faults, troubled>>
    BY <1>6 DEF ReadNothing, policy, clocks
  <2>. QED BY <1>c, <1>d, <2>1
<1>7. CASE Advance(t)
  <2>1. /\ r.pc = "advance" /\ hostIndex' = NextTurn(Len(r.selected))
        /\ UNCHANGED <<nodes, up, faults, troubled, current>>
        /\ \/ Becomes(t, [r EXCEPT !.pc = "select"]) \/ Becomes(t, Over(r, "returned"))
           \/ Becomes(t, [r EXCEPT !.pc = "send"])
    BY <1>7 DEF Advance, clocks
  <2>2. CASE Becomes(t, Over(r, "returned"))
    BY <1>c, <1>d, <2>1, <2>2
  <2>3. CASE Becomes(t, [r EXCEPT !.pc = "send"])
    <3>1. PICK q : q = [r EXCEPT !.pc = "send"]
      OBVIOUS
    <3>2. q.pc = "send" /\ q.selected = r.selected /\ q.retries = r.retries /\ q.ended = r.ended
      BY <1>0, <3>1 DEF Runs
    <3>3. ASSUME AtMostOne' PROVE RunTurn(q)'
      <4>1. AtMostOne /\ RunTurn(r)
        BY <1>a, <1>d, <2>1, <3>3
      <4>2. Choice(q.selected)'
        BY <2>1, <3>2, <4>1 DEF RunTurn, TurnKept, Choice
      <4>3. hostIndex < Len(r.selected) /\ current = r.selected[hostIndex + 1]
        BY <2>1, <4>1 DEF RunTurn, TurnKept
      <4>4. PICK n \in Nat : n = Len(r.selected)
        <5>1. PICK list \in Seq(Hosts) : list = r.selected
          BY <1>0 DEF Runs
        <5>. QED BY <5>1
      <4>5. hostIndex \in 0 .. n - 1
        BY <1>0, <4>3, <4>4 DEF PolicyOK
      <4>6. (\E k \in 0 .. Len(q.selected) - 1 :
                 current = q.selected[k + 1] /\ hostIndex = (k + 1) % Len(q.selected))'
        BY <2>1, <3>2, <4>3, <4>4, <4>5 DEF NextTurn
      <4>7. ASSUME r.retries >= 1 PROVE troubled' # {} /\ TurnMoved(q)'
        BY <2>1, <3>2, <4>1, <4>7 DEF RunTurn, TurnMoved
      <4>. QED BY <3>2, <4>1, <4>2, <4>6, <4>7 DEF RunTurn, TurnKept
    <3>. QED BY <1>b, <1>d, <2>1, <2>3, <3>1, <3>3
  <2>4. CASE Becomes(t, [r EXCEPT !.pc = "select"])
    <3>1. PICK q : q = [r EXCEPT !.pc = "select"]
      OBVIOUS
    <3>2. q.pc = "select" /\ q.selected = r.selected /\ q.retries = r.retries /\ q.ended = r.ended
      BY <1>0, <3>1 DEF Runs
    <3>3. r.retries >= 1 => FALSE
      <4>1. ASSUME r.retries >= 1 PROVE Becomes(t, [r EXCEPT !.pc = "send"])
        <5>1. /\ r.call.kind = "update" /\ r.taken = <<current>> /\ r.call.groups = 1
              /\ r.call \in Calls
          BY <1>0, <2>1, <4>1 DEF OneSession, SimpleUse, ThreadOK
        <5>2. ~(Len(r.taken) < r.call.groups) /\ Sends(r.call) # 0
          <6>1. r.call.to \in Seq(Nat \ {0}) \ {<< >>}
            BY <5>1, CallsAssumption DEF Requests
          <6>. QED BY <5>1, <6>1 DEF Sends
        <5>. QED BY <1>7, <5>2 DEF Advance
      <4>2. PICK c : c = [r EXCEPT !.pc = "send"]
        OBVIOUS
      <4>3. c.pc = "send"
        BY <1>0, <4>2 DEF Runs
      <4>4. ASSUME r.retries >= 1 PROVE run'[t] = c /\ run'[t] = q
        BY <1>0, <2>4, <3>1, <4>1, <4>2, <4>4, OnlyThread
      <4>. QED BY <3>2, <4>3, <4>4
    <3>4. ASSUME AtMostOne' PROVE RunTurn(q)'
      <4>1. RunTurn(r)
        BY <1>a, <1>d, <2>1, <3>4
      <4>. QED BY <3>2, <3>3, <4>1 DEF RunTurn, TurnKept
    <3>. QED BY <1>b, <1>d, <2>1, <2>4, <3>1, <3>4
  <2>. QED BY <2>1, <2>2, <2>3, <2>4
<1>8. CASE Succeed(t)
  <2>1. PICK q \in {Over(r, "returned"), OneSent(r)} :
          /\ r.pc = "send" /\ Becomes(t, q) /\ (Reset \/ faults' = faults)
          /\ UNCHANGED <<up, nodes, hostIndex, current, troubled>>
    BY <1>8 DEF Succeed, clocks
  <2>2. TroubleInv'
    <3>1. \A h \in Hosts : faults'[h] > 0 => faults[h] > 0
      BY <2>1 DEF Reset
    <3>. QED BY <2>1, <3>1 DEF TroubleInv
  <2>3. CASE q = Over(r, "returned")
    BY <1>c, <2>1, <2>2, <2>3
  <2>4. CASE q = OneSent(r)
    <3>1. /\ q.pc = r.pc /\ q.selected = r.selected /\ q.retries = r.retries
          /\ q.ended = r.ended
      BY <1>0, <2>4 DEF Runs, OneSent
    <3>2. AtMostOne' => RunTurn(q)
      <4>1. AtMostOne' => AtMostOne
        BY <2>1 DEF AtMostOne
      <4>. QED BY <1>a, <3>1, <4>1 DEF RunTurn, TurnKept, TurnMoved
    <3>3. troubled \subseteq troubled' /\ UNCHANGED <<hostIndex, current>>
      BY <2>1
    <3>4. AtMostOne' => RunTurn(q)'
      BY <3>2, <3>3, TurnStays
    <3>. QED BY <1>b, <2>1, <2>2, <3>4
  <2>. QED BY <2>1, <2>3, <2>4
<1>9. CASE Refused(t) \/ Rejected(t)
  <2>1. PICK server \in BOOLEAN :
          /\ r.pc = "send" /\ Fails(t, server) /\ UNCHANGED <<up, nodes>>
          /\ troubled' = troubled \cup {Target(r)}
    BY <1>9 DEF Refused, Rejected, clocks
  <2>2. /\ Target(r) = current /\ current \in Hosts
        /\ faults' \in [Hosts -> Nat]
        /\ \A h \in Hosts : faults'[h] <= faults[h] + (IF server /\ h = current THEN 1 ELSE 0)
        /\ UNCHANGED <<hostIndex, current>>
        /\ \/ Becomes(t, OuterRetry(r)) /\ r.retries < MaxRetries
           \/ (\E c : Becomes(t, Over(c, "exhausted"))) /\ r.retries >= MaxRetries
    BY <2>1, SimpleFailure
  <2>3. current \in troubled' /\ troubled \subseteq troubled'
    BY <2>1, <2>2 DEF TroubleInv
  <2>4. TroubleInv'
    <3>1. ASSUME NEW h \in Hosts, faults'[h] > 0
          PROVE  h \in troubled'
      <4>1. CASE server /\ h = current
        BY <2>3, <4>1
      <4>2. CASE ~(server /\ h = current)
        <5>1. faults[h] \in Nat /\ faults'[h] \in Nat
          BY <1>0, <2>2 DEF PolicyOK
        <5>2. faults'[h] <= faults[h] + 0
          BY <2>2, <4>2
        <5>3. faults[h] > 0
          BY <3>1, <5>1, <5>2
        <5>. QED BY <2>3, <5>3 DEF TroubleInv
      <4>. QED BY <4>1, <4>2
    <3>. QED BY <2>1, <2>3, <3>1 DEF TroubleInv
  <2>5. ASSUME AtMostOne' PROVE AtMostOne /\ RunTurn(r) /\ r.retries = 0
    <3>1. AtMostOne
      BY <2>3, <2>5 DEF AtMostOne
    <3>2. RunTurn(r)
      BY <1>a, <3>1
    <3>3. ASSUME r.retries >= 1 PROVE FALSE
      <4>1. troubled # {} /\ current \notin troubled
        BY <2>1, <3>2, <3>3 DEF RunTurn, TurnMoved
      <4>. QED BY <2>3, <2>5, <4>1 DEF AtMostOne
    <3>4. r.retries \in Nat
      BY <1>0, RetriesAssumption DEF Runs
    <3>. QED BY <3>1, <3>2, <3>3, <3>4
  <2>6. CASE Becomes(t, OuterRetry(r))
    <3>1. PICK q : q = OuterRetry(r)
      OBVIOUS
    <3>2. q.pc = "select" /\ q.ended = r.ended
      BY <1>0, <3>1, RetryFields
    <3>3. ASSUME AtMostOne' PROVE RunTurn(q)'
      <4>1. RunTurn(r)
        BY <2>5, <3>3
      <4>2. PICK G \in SUBSET Hosts : Hosts \ troubled \subseteq G /\ r.selected = Sorted(G)
        BY <2>1, <4>1 DEF RunTurn, TurnKept, Choice
      <4>3. PICK k \in 0 .. Len(r.selected) - 1 :
              current = r.selected[k + 1] /\ hostIndex = (k + 1) % Len(r.selected)
        BY <2>1, <4>1 DEF RunTurn, TurnKept
      <4>4. PICK T : T = troubled'
        OBVIOUS
      <4>5. /\ \A x, y \in T : x = y
            /\ Hosts \ T \subseteq G /\ r.selected[k + 1] \in T
        BY <2>3, <3>3, <4>2, <4>3, <4>4 DEF AtMostOne
      <4>6. /\ hostIndex < Len(Sorted(Hosts))
            /\ Sorted(Hosts)[hostIndex + 1] \notin T
        BY <4>2, <4>3, <4>5, AfterTrouble
      <4>7. troubled' # {} /\ TurnMoved(q)'
        BY <2>2, <2>3, <3>2, <4>4, <4>6 DEF TurnMoved
      <4>. QED BY <3>2, <4>1, <4>7 DEF RunTurn, TurnKept
    <3>. QED BY <1>b, <2>4, <2>6, <3>1, <3>3
  <2>7. CASE r.retries >= MaxRetries
    <3>1. MaxRetries \in Nat
      BY RetriesAssumption
    <3>2. ~AtMostOne'
      BY <2>5, <2>7, <3>1
    <3>. QED BY <2>4, <3>2 DEF TurnInv
  <2>. QED BY <2>2, <2>6, <2>7
<1>10. CASE TimesOut(t)
  <2>1. Becomes(t, Over(r, "raised")) /\ UNCHANGED <<nodes, up, faults, troubled>>
    BY <1>10 DEF TimesOut, clocks, policy
  <2>. QED BY <1>c, <1>d, <2>1
<1>. QED BY <1>1, <1>2, <1>3, <1>4, <1>5, <1>6, <1>7, <1>8, <1>9, <1>10 DEF Step

LEMMA TurnNext ==
    SimpleUse /\ TwoHostsAtLeast /\ MaxRetries # 0 /\ TypeInv /\ TriesCounted /\ SessionsInv
      /\ TroubleInv /\ TurnInv /\ [Next]_vars => TroubleInv' /\ TurnInv'
<1> SUFFICES ASSUME SimpleUse, TwoHostsAtLeast, MaxRetries # 0, TypeInv, TriesCounted,
                    SessionsInv, TroubleInv, TurnInv, [Next]_vars
             PROVE  TroubleInv' /\ TurnInv'
  OBVIOUS
<1>1. ASSUME NEW t \in Threads, NEW call \in Calls, Begin(t, call)
      PROVE  TroubleInv' /\ TurnInv'
  <2>1. PICK q : q = [Fresh EXCEPT !.pc = "select", !.call = call]
    OBVIOUS
  <2>2. q.pc = "select" /\ q.retries = 0 /\ q.ended = "none"
    BY <2>1 DEF Fresh
  <2>3. Becomes(t, q) /\ UNCHANGED <<up, nodes, faults, troubled>>
    BY <1>1, <2>1 DEF Begin, policy
  <2>4. \A u \in Threads : run'[u] = q
    BY <2>3, OnlyThread DEF TypeInv
  <2>5. RunTurn(q)'
    BY <2>2 DEF RunTurn, TurnKept
  <2>6. TurnInv'
    BY <2>4, <2>5 DEF TurnInv, RunTurn, TurnKept, TurnMoved
  <2>. QED BY <2>3, <2>6 DEF TroubleInv
<1>2. ASSUME UNCHANGED <<run, nodes, faults, hostIndex, current>>,
             troubled \subseteq troubled', Hosts \ up' \subseteq troubled'
      PROVE  TroubleInv' /\ TurnInv'
  <2>1. AtMostOne' => AtMostOne
    BY <1>2 DEF AtMostOne
  <2>2. ASSUME NEW t \in Threads PROVE AtMostOne' => RunTurn(run[t])'
    <3>1. PICK r : r = run[t]
      OBVIOUS
    <3>2. AtMostOne' => RunTurn(r)
      BY <2>1, <3>1 DEF TurnInv
    <3>3. AtMostOne' => RunTurn(r)'
      BY <1>2, <3>2, TurnStays
    <3>4. r = run'[t]
      BY <1>2, <3>1
    <3>. QED BY <3>3, <3>4 DEF RunTurn, TurnKept, TurnMoved
  <2>3. TurnInv'
    BY <2>2 DEF TurnInv
  <2>. QED BY <1>2, <2>3 DEF TroubleInv
<1>3. ASSUME NEW h \in Hosts, HostDown(h) \/ HostUp(h)
      PROVE  TroubleInv' /\ TurnInv'
  <2>1. UNCHANGED <<run, nodes, faults, hostIndex, current>>
    BY <1>3 DEF HostDown, HostUp, policy
  <2>2. troubled \subseteq troubled' /\ Hosts \ up' \subseteq troubled'
    BY <1>3 DEF HostDown, HostUp, TroubleInv
  <2>. QED BY <1>2, <2>1, <2>2
<1>4. CASE HourPasses \/ UNCHANGED vars
  <2>1. UNCHANGED <<run, nodes, faults, hostIndex, current, troubled, up>>
    BY <1>4 DEF HourPasses, vars
  <2>2. troubled \subseteq troubled' /\ Hosts \ up' \subseteq troubled'
    BY <2>1 DEF TroubleInv
  <2>. QED BY <1>2, <2>1, <2>2
<1>. QED BY <1>1, <1>3, <1>4, TurnStep DEF Next

\* When nothing overlaps and there are two hosts and a retry, a call is never
\* given up because of one host, however often that host fails: a failed try
\* leaves the turn behind the host, and the list the retry selects from is the
\* same list or the same list without that host.
THEOREM OneHostInTrouble ==
    ASSUME SimpleUse, TwoHostsAtLeast, MaxRetries # 0 PROVE Spec => []OneDownTolerated
<1> DEFINE Inv == (TypeInv /\ TriesCounted /\ SessionsInv /\ ChargedFairly)
                     /\ (TroubleInv /\ TurnInv)
<1>1. Init => TroubleInv /\ TurnInv
  BY DEF Init, TroubleInv, TurnInv, RunTurn, TurnKept, Fresh
<1>2. Spec => [](TypeInv /\ TriesCounted /\ SessionsInv /\ ChargedFairly)
  BY FairChargeInductive
<1>3. (TypeInv /\ TriesCounted /\ SessionsInv /\ ChargedFairly)
        /\ (TroubleInv /\ TurnInv) /\ [Next]_vars => (TroubleInv /\ TurnInv)'
  BY TurnNext
<1>4. TypeInv /\ TroubleInv /\ TurnInv => OneDownTolerated
  <2> SUFFICES ASSUME TypeInv, TurnInv, Cardinality(troubled) <= 1, NEW t \in Threads
               PROVE  run[t].ended # "exhausted"
    BY DEF OneDownTolerated
  <2>1. IsFiniteSet(troubled)
    BY HostsAssumption, FS_Subset DEF TypeInv, WorldOK
  <2>2. AtMostOne
    <3> SUFFICES ASSUME NEW x \in troubled, NEW y \in troubled, x # y PROVE FALSE
      BY DEF AtMostOne
    <3>1. {x, y} \subseteq troubled
      OBVIOUS
    <3>2. Cardinality({x, y}) <= Cardinality(troubled) /\ Cardinality(troubled) \in Nat
      BY <2>1, <3>1, FS_Subset, FS_CardinalityType
    <3>3. Cardinality({x, y}) = 2
      <4>1. Cardinality({x}) = 1 /\ IsFiniteSet({x})
        BY FS_Singleton
      <4>2. Cardinality({x} \cup {y}) = Cardinality({x}) + 1
        BY <4>1, FS_AddElement
      <4>3. {x} \cup {y} = {x, y}
        OBVIOUS
      <4>. QED BY <4>1, <4>2, <4>3
    <3>. QED BY <3>2, <3>3
  <2>. QED BY <2>2 DEF TurnInv, RunTurn
<1>. QED BY <1>1, <1>2, <1>3, <1>4, PTL DEF Spec
=============================================================================
