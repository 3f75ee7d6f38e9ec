----------------------- MODULE ParentAggregationProofs ----------------------
(***************************************************************************)
(* For any number of targets, workers, polls and reapers: a parent is      *)
(* sealed only for children that have ended, and a batch that admits its   *)
(* children up front behaves as BatchOutcome.                              *)
(*                                                                         *)
(* What makes it inductive is what a call of refresh_parent_state knows in *)
(* the middle (Knows): the ids it has not read are a stretch of the        *)
(* parent's list, up to the length the list had at the snapshot, and what  *)
(* it counted of the ids before stays true, because a child that has ended *)
(* never changes.                                                          *)
(***************************************************************************)
EXTENDS ParentAggregation, FiniteSetTheorems, TLAPS

ChildStates == {"absent", "Queued", "Running", "Completed", "Failed"}

Requests == [pc : {"idle", "created", "admit", "scope", "dispatch", "drop", "done"},
             todo : SUBSET Children, held : SUBSET Children,
             interleaved : BOOLEAN, watched : BOOLEAN]

Calls == [pc : {"idle", "due", "count"}, list : Seq(Children),
          failed : BOOLEAN, active : BOOLEAN]

Typed ==
    /\ parent \in {"absent", "Running", "Completed", "Failed"}
    /\ children \in Seq(Children)
    /\ state \in [Children -> ChildStates]
    /\ handle \in BOOLEAN
    /\ request \in Requests
    /\ refresh \in [Threads -> Calls]

\* The records of the children, and what the request holds of them.
Listed ==
    /\ IsFiniteSet(Admitted) /\ Len(children) = Cardinality(Admitted)
    /\ \A c \in Children : state[c] # "absent" <=> c \in Admitted
    /\ \A c \in request.held : state[c] = "Queued" /\ c \notin request.todo
    /\ \A c \in request.todo : c \notin Admitted
    /\ request.pc = "scope" => children # <<>> /\ children[Len(children)] \in request.held
    /\ request.pc \in {"admit", "scope"} =>
          \A c \in Admitted : c \in request.held \/ state[c] = "Failed"

\* The parent's record and its handle.
Handled ==
    /\ request.pc \in {"idle", "created"} => ~handle /\ children = <<>>
    /\ request.pc = "idle" => parent = "absent"
    /\ request.pc = "created" => parent = "Running"
    /\ request.pc # "idle" => parent # "absent"
    /\ HandleWhileLive

\* n children when the call began, of which it has read k.
Knows(call, n, k) ==
    /\ Len(call.list) = n - k
    /\ \A i \in 1 .. n - k : call.list[i] = children[k + i]
    /\ ~call.active =>
          /\ \A i \in 1 .. k : state[children[i]] \in Final
          /\ call.failed <=> \E i \in 1 .. k : state[children[i]] = "Failed"

Counted ==
    \A t \in Threads : refresh[t].pc = "count" =>
        \E n \in 1 .. Len(children), k \in 0 .. Len(children) :
            k <= n /\ Knows(refresh[t], n, k) /\ (Promised => n = Len(children))

\* Nobody else refreshes while an unwatched request admits its children.
Alone ==
    Promised /\ request.pc \in {"idle", "created", "admit", "scope"} =>
        \A t \in Threads \ {Handler} : refresh[t].pc = "idle"

\* A call has ids to read only while it counts.
Unread == \A t \in Threads : refresh[t].pc # "count" => refresh[t].list = <<>>

IInv == Typed /\ Listed /\ Handled /\ Counted /\ Alone /\ SealedForPrefix

-----------------------------------------------------------------------------
(* The two final states.                                                   *)
LEMMA FinalStates == Final = {"Completed", "Failed"}
  BY DEF Final, Promise!Final

(* The admitted children are those on the parent's list.                   *)
LEMMA AdmittedIs == Admitted = {children[i] : i \in DOMAIN children}
  BY DEF Admitted, Promise!Admitted

(* The calls that have read nothing.                                       *)
LEMMA NoCallFits == NoCall \in Calls /\ NoCall.pc = "idle" /\ Due \in Calls /\ Due.pc = "due"
  <1>1. <<>> \in Seq(Children)
    OBVIOUS
  <1>2. NoCall \in Calls /\ NoCall.pc = "idle"
    BY <1>1 DEF NoCall, Calls
  <1>3. Due \in Calls /\ Due.pc = "due"
    BY <1>2 DEF Due, Calls
  <1> QED
    BY <1>2, <1>3

(* Initially there is no parent, no child and no call.                     *)
LEMMA InitIInv == Init => IInv
  <1> SUFFICES ASSUME Init PROVE IInv
    OBVIOUS
  <1>1. children = <<>> /\ parent = "absent" /\ handle = FALSE /\ request.pc = "idle"
    BY DEF Init, Promise!Init
  <1>2. Typed
    <2>1. request \in Requests
      BY AggregationAssumption DEF Init, Requests
    <2>2. refresh \in [Threads -> Calls]
      BY NoCallFits DEF Init
    <2>3. children \in Seq(Children) /\ state \in [Children -> ChildStates]
      BY <1>1 DEF Init, Promise!Init, ChildStates
    <2> QED
      BY Zenon, <1>1, <2>1, <2>2, <2>3 DEF Typed
  <1>3. Admitted = {}
    BY <1>1, AdmittedIs
  <1>4. Listed
    BY <1>1, <1>3, FS_EmptySet DEF Init, Promise!Init, Listed
  <1>5. Handled /\ SealedForPrefix
    BY <1>1 DEF Handled, HandleWhileLive, SealedForPrefix
  <1>6. Counted /\ Alone
    BY NoCallFits DEF Init, Counted, Alone
  <1> QED
    BY <1>2, <1>4, <1>5, <1>6 DEF IInv

-----------------------------------------------------------------------------
\* The list grows at its end, and a child that has ended stays as it is.
Grows ==
    /\ children \in Seq(Children) /\ children' \in Seq(Children)
    /\ Len(children) <= Len(children')
    /\ \A i \in 1 .. Len(children) :
          /\ children'[i] = children[i]
          /\ state[children[i]] \in Final => state'[children[i]] = state[children[i]]

(* What a call knows stays true while the list grows and children move on. *)
LEMMA KnowsStable ==
  ASSUME Grows, NEW call, NEW n \in 1 .. Len(children), NEW k \in 0 .. Len(children),
         k <= n, Knows(call, n, k)
  PROVE  Knows(call, n, k)'
  <1>1. \A i \in 1 .. k : i \in 1 .. Len(children)
    BY DEF Grows
  <1>2. \A i \in 1 .. n - k : k + i \in 1 .. Len(children)
    BY DEF Grows
  <1>3. \A i \in 1 .. n - k : call.list[i] = children'[k + i]
    BY <1>2 DEF Grows, Knows
  <1>4. ASSUME ~call.active
        PROVE  /\ \A i \in 1 .. k : state'[children'[i]] \in Final
               /\ call.failed <=> \E i \in 1 .. k : state'[children'[i]] = "Failed"
    <2>1. \A i \in 1 .. k : state'[children'[i]] = state[children[i]]
      BY <1>1, <1>4 DEF Grows, Knows
    <2> QED
      BY Zenon, <1>4, <2>1 DEF Knows
  <1> QED
    BY <1>3, <1>4 DEF Knows

(* What calls know of the children outlives every step.                    *)
LEMMA CountedStays ==
  ASSUME Typed, Counted, Grows, Promised' = Promised,
         \A t \in Threads : refresh'[t] = refresh[t] \/ refresh'[t].pc # "count",
         \A t \in Threads : Promised /\ refresh[t].pc = "count" => children' = children
  PROVE  Counted'
  <1> SUFFICES ASSUME NEW t \in Threads, refresh'[t].pc = "count"
               PROVE  \E n \in 1 .. Len(children'), k \in 0 .. Len(children') :
                         k <= n /\ Knows(refresh[t], n, k)' /\ (Promised' => n = Len(children'))
    BY DEF Counted
  <1>1. PICK call : call = refresh[t] /\ call = refresh'[t] /\ call.pc = "count"
    OBVIOUS
  <1>2. PICK n \in 1 .. Len(children), k \in 0 .. Len(children) :
           k <= n /\ Knows(call, n, k) /\ (Promised => n = Len(children))
    BY <1>1 DEF Counted
  <1>3. Knows(call, n, k)'
    BY <1>2, KnowsStable
  <1>4. Knows(refresh[t], n, k)'
    BY <1>1, <1>3, Zenon DEF Knows
  <1>5. n \in 1 .. Len(children') /\ k \in 0 .. Len(children')
    BY DEF Grows
  <1> QED
    BY <1>1, <1>2, <1>4, <1>5

(* A sealed parent takes no child, and its outcome stays right.            *)
LEMMA SealedStays ==
  ASSUME SealedForPrefix, Grows, parent' = parent \/ parent' = "Running",
         children' = children \/ parent' = "Running"
  PROVE  SealedForPrefix'
  <1> SUFFICES ASSUME parent \in Final, children # <<>>, children' = children, parent' = parent
               PROVE  \E n \in DOMAIN children :
                         /\ \A i \in 1 .. n : state'[children[i]] \in Final
                         /\ parent = "Failed" <=> \E i \in 1 .. n : state'[children[i]] = "Failed"
    BY FinalStates DEF SealedForPrefix
  <1>1. PICK n \in DOMAIN children :
           /\ \A i \in 1 .. n : state[children[i]] \in Final
           /\ parent = "Failed" <=> \E i \in 1 .. n : state[children[i]] = "Failed"
    BY DEF SealedForPrefix
  <1>2. \A i \in 1 .. n : i \in 1 .. Len(children)
    BY DEF Grows
  <1>3. \A i \in 1 .. n : state'[children[i]] = state[children[i]]
    BY <1>1, <1>2 DEF Grows
  <1> QED
    BY <1>1, <1>3

-----------------------------------------------------------------------------
(* refresh_parent_state.                                                   *)
LEMMA Unmoved ==
  ASSUME Typed, children' = children, state' = state
  PROVE  Grows
  BY DEF Typed, Grows

(* A call begins: it clones the list and has read nothing of it.           *)
LEMMA BeginRefreshStep ==
  ASSUME IInv, NEW t \in Threads, BeginRefresh(t)
  PROVE  IInv'
  <1>1. /\ UNCHANGED <<batch, handle, request>> /\ MayBegin(t)
        /\ Typed /\ Listed /\ Handled /\ Counted /\ Alone /\ SealedForPrefix
    BY DEF BeginRefresh, IInv
  <1>2. parent' = parent /\ children' = children /\ state' = state
    BY <1>1 DEF batch
  <1> DEFINE count == [NoCall EXCEPT !.pc = "count", !.list = children]
  <1>3. \/ refresh' = [refresh EXCEPT ![t] = NoCall]
        \/ /\ parent = "Running" /\ children # <<>>
           /\ refresh' = [refresh EXCEPT ![t] = count]
    BY Zenon DEF BeginRefresh
  <1>4. /\ count \in Calls /\ count.pc = "count" /\ count.list = children
        /\ count.failed = FALSE /\ count.active = FALSE
    <2>1. NoCall \in Calls /\ NoCall.failed = FALSE /\ NoCall.active = FALSE
      BY NoCallFits DEF NoCall
    <2>2. children \in Seq(Children)
      BY <1>1 DEF Typed
    <2> QED
      BY Zenon, <2>1, <2>2 DEF Calls
  <1> HIDE DEF count
  <1>5. /\ refresh' \in [Threads -> Calls]
        /\ \A s \in Threads \ {t} : refresh'[s] = refresh[s]
        /\ \/ refresh'[t] = NoCall
           \/ parent = "Running" /\ children # <<>> /\ refresh'[t] = count
    BY <1>1, <1>3, <1>4, NoCallFits DEF Typed
  <1>6. Typed'
    BY <1>1, <1>2, <1>5 DEF Typed
  <1>7. Listed' /\ Handled'
    BY <1>1, <1>2 DEF Listed, Handled, HandleWhileLive, Admitted, Promise!Admitted
  <1>8. SealedForPrefix'
    BY <1>1, <1>2 DEF SealedForPrefix
  <1>9. Alone'
    <2> SUFFICES ASSUME Promised, request.pc \in {"idle", "created", "admit", "scope"},
                        NEW s \in Threads \ {Handler}
                 PROVE  refresh'[s].pc = "idle"
      BY <1>1 DEF Alone, Promised
    <2>1. \A u \in Threads \ {Handler} : refresh[u].pc = "idle"
      BY <1>1 DEF Alone
    <2>2. CASE s # t
      BY <1>5, <2>1, <2>2
    <2>3. CASE s = t
      <3>1. request.pc = "idle"
        BY <1>1, <2>1, <2>3 DEF MayBegin, Admitting, Promised
      <3>2. parent = "absent"
        BY <1>1, <3>1 DEF Handled
      <3> QED
        BY <1>5, <2>3, <3>2, NoCallFits
    <2> QED
      BY <2>2, <2>3
  <1>10. Counted'
    <2> SUFFICES ASSUME NEW s \in Threads, refresh'[s].pc = "count"
                 PROVE  \E n \in 1 .. Len(children), k \in 0 .. Len(children) :
                           /\ k <= n /\ Knows(refresh[s], n, k)'
                           /\ Promised => n = Len(children)
      BY <1>1, <1>2 DEF Counted, Promised
    <2>1. CASE s # t
      <3>1. PICK n \in 1 .. Len(children), k \in 0 .. Len(children) :
               k <= n /\ Knows(refresh[s], n, k) /\ (Promised => n = Len(children))
        BY <1>1, <1>5, <2>1 DEF Counted
      <3>2. Knows(refresh[s], n, k)'
        BY <1>2, <1>5, <2>1, <3>1 DEF Knows
      <3> QED
        BY <3>1, <3>2
    <2>2. CASE s = t
      <3>1. children # <<>> /\ refresh'[s] = count /\ children \in Seq(Children)
        BY <1>1, <1>5, <2>2, NoCallFits DEF Typed
      <3>2. Len(children) \in 1 .. Len(children) /\ 0 \in 0 .. Len(children)
        BY <3>1
      <3>3. Knows(refresh[s], Len(children), 0)'
        BY <1>2, <1>4, <3>1 DEF Knows
      <3> QED
        BY <1>2, <3>2, <3>3
    <2> QED
      BY <2>1, <2>2
  <1> QED
    BY <1>6, <1>7, <1>8, <1>9, <1>10 DEF IInv

(* Reading one child more: what has ended stays counted.                   *)
LEMMA CountOne ==
  ASSUME Typed, NEW call \in Calls, NEW next \in Calls, call.list # <<>>,
         NEW n \in 1 .. Len(children), NEW k \in 0 .. Len(children), k <= n,
         Knows(call, n, k),
         next.list = Tail(call.list),
         next.failed = (call.failed \/ state[Head(call.list)] = "Failed"),
         next.active = (call.active \/ state[Head(call.list)] \notin Final)
  PROVE  k + 1 \in 0 .. Len(children) /\ k + 1 <= n /\ Knows(next, n, k + 1)
  <1>1. call.list \in Seq(Children) /\ children \in Seq(Children)
    BY DEF Typed, Calls
  <1>2. /\ Len(call.list) \in Nat \ {0} /\ Head(call.list) = call.list[1]
        /\ Len(next.list) = Len(call.list) - 1
        /\ \A i \in 1 .. Len(call.list) - 1 : next.list[i] = call.list[i + 1]
    BY <1>1
  <1>3. n \in Nat /\ k \in Nat /\ Len(children) \in Nat /\ n <= Len(children)
    BY <1>1
  <1>4. Len(call.list) = n - k
    BY DEF Knows
  <1>5. k + 1 \in 0 .. Len(children) /\ k + 1 <= n /\ 1 \in 1 .. n - k
    BY <1>2, <1>3, <1>4
  <1>6. call.list[1] = children[k + 1]
    BY <1>5 DEF Knows
  <1>7. Len(next.list) = n - (k + 1)
    BY <1>2, <1>3, <1>4
  <1>8. ASSUME NEW i \in 1 .. n - (k + 1) PROVE next.list[i] = children[(k + 1) + i]
    <2>1. i \in 1 .. Len(call.list) - 1 /\ i + 1 \in 1 .. n - k /\ k + (i + 1) = (k + 1) + i
      BY <1>3, <1>4
    <2> QED
      BY Zenon, <1>2, <2>1 DEF Knows
  <1>9. ASSUME ~next.active
        PROVE  /\ \A i \in 1 .. k + 1 : state[children[i]] \in Final
               /\ next.failed <=> \E i \in 1 .. k + 1 : state[children[i]] = "Failed"
    <2>1. ~call.active /\ state[children[k + 1]] \in Final
      BY Zenon, <1>2, <1>6, <1>9
    <2>2. \A i \in 1 .. k + 1 : i \in 1 .. k \/ i = k + 1
      BY <1>3
    <2>3. k + 1 \in 1 .. k + 1 /\ \A i \in 1 .. k : i \in 1 .. k + 1
      BY <1>3
    <2>4. /\ \A i \in 1 .. k : state[children[i]] \in Final
          /\ call.failed <=> \E i \in 1 .. k : state[children[i]] = "Failed"
      BY <2>1 DEF Knows
    <2>5. next.failed <=> call.failed \/ state[children[k + 1]] = "Failed"
      BY Zenon, <1>2, <1>6
    <2> QED
      BY <2>1, <2>2, <2>3, <2>4, <2>5
  <1> QED
    BY <1>5, <1>7, <1>8, <1>9 DEF Knows

(* It reads one more child; what it has counted covers the prefix so far.  *)
LEMMA CountChildStep ==
  ASSUME IInv, NEW t \in Threads, CountChild(t)
  PROVE  IInv'
  <1>1. /\ UNCHANGED <<batch, handle, request>>
        /\ refresh[t].pc = "count" /\ refresh[t].list # <<>>
        /\ Typed /\ Listed /\ Handled /\ Counted /\ Alone /\ SealedForPrefix
    BY DEF CountChild, IInv
  <1>2. parent' = parent /\ children' = children /\ state' = state
    BY <1>1 DEF batch
  <1> DEFINE call == refresh[t]
             s == state[Head(call.list)]
             next == [call EXCEPT !.list = Tail(call.list), !.failed = @ \/ s = "Failed",
                                  !.active = @ \/ s \notin Final]
  <1>3. call \in Calls /\ refresh' = [refresh EXCEPT ![t] = next]
    BY <1>1 DEF CountChild, Typed
  <1>4. Tail(call.list) \in Seq(Children) /\ call.failed \in BOOLEAN /\ call.active \in BOOLEAN
    BY <1>1, <1>3 DEF Calls
  <1>5. /\ next \in Calls /\ next.pc = "count" /\ next.list = Tail(call.list)
        /\ next.failed = (call.failed \/ s = "Failed")
        /\ next.active = (call.active \/ s \notin Final)
    <2>1. next.pc = "count" /\ next.list = Tail(call.list)
      BY <1>1, <1>3 DEF Calls
    <2>2. /\ next.failed = (call.failed \/ s = "Failed")
          /\ next.active = (call.active \/ s \notin Final)
      BY <1>3 DEF Calls
    <2>3. (call.failed \/ s = "Failed") \in BOOLEAN /\ (call.active \/ s \notin Final) \in BOOLEAN
      OBVIOUS
    <2>4. next \in Calls
      BY Zenon, <1>3, <1>4, <2>3 DEF Calls
    <2> QED
      BY <2>1, <2>2, <2>4
  <1> HIDE DEF next
  <1>6. /\ refresh' \in [Threads -> Calls] /\ refresh'[t] = next
        /\ \A u \in Threads \ {t} : refresh'[u] = refresh[u]
    BY <1>1, <1>3, <1>5 DEF Typed
  <1>7. Typed' /\ Listed' /\ Handled' /\ SealedForPrefix'
    BY <1>1, <1>2, <1>6
    DEF Typed, Listed, Handled, HandleWhileLive, SealedForPrefix, Admitted, Promise!Admitted
  <1>8. Alone'
    BY <1>1, <1>5, <1>6 DEF Alone, Promised
  <1>9. Counted'
    <2> SUFFICES ASSUME NEW u \in Threads, refresh'[u].pc = "count"
                 PROVE  \E n \in 1 .. Len(children), k \in 0 .. Len(children) :
                           /\ k <= n /\ Knows(refresh[u], n, k)'
                           /\ Promised => n = Len(children)
      BY <1>1, <1>2 DEF Counted, Promised
    <2>1. PICK n \in 1 .. Len(children), k \in 0 .. Len(children) :
             k <= n /\ Knows(refresh[u], n, k) /\ (Promised => n = Len(children))
      BY <1>1, <1>6 DEF Counted
    <2>2. CASE u # t
      <3>1. Knows(refresh[u], n, k)'
        BY <1>2, <1>6, <2>1, <2>2 DEF Knows
      <3> QED
        BY <2>1, <3>1
    <2>3. CASE u = t
      <3>1. k + 1 \in 0 .. Len(children) /\ k + 1 <= n /\ Knows(next, n, k + 1)
        BY <1>1, <1>3, <1>5, <2>1, <2>3, CountOne
      <3>2. Knows(refresh[u], n, k + 1)'
        BY <1>2, <1>6, <2>3, <3>1 DEF Knows
      <3> QED
        BY <2>1, <3>1, <3>2
    <2> QED
      BY <2>2, <2>3
  <1> QED
    BY <1>7, <1>8, <1>9 DEF IInv

(* The handle is there exactly while the record is live, so a seal takes   *)
(* effect or finds the parent sealed.                                      *)
LEMMA SealIs ==
  ASSUME Typed, Handled, NEW outcome, Seal(outcome)
  PROVE  \/ parent' = parent /\ handle' = handle
         \/ /\ parent = "Running" /\ parent' = outcome /\ handle' = FALSE
            /\ request.pc \notin {"idle", "created"}
  BY DEF Seal, Typed, Handled, HandleWhileLive

(* What a call that has read all its ids decides is right for the children *)
(* it was given.                                                           *)
LEMMA RightOutcome ==
  ASSUME Typed, Counted, NEW t \in Threads, Done(refresh[t]), Decide(refresh[t]) # "Running"
  PROVE  /\ Decide(refresh[t]) \in Final
         /\ \E n \in 1 .. Len(children) :
               /\ \A i \in 1 .. n : state[children[i]] \in Final
               /\ Decide(refresh[t]) = "Failed" <=> \E i \in 1 .. n : state[children[i]] = "Failed"
               /\ Promised => n = Len(children)
  <1>1. refresh[t].pc = "count" /\ refresh[t].list = <<>> /\ ~refresh[t].active
    BY DEF Done, Decide
  <1>2. Decide(refresh[t]) = IF refresh[t].failed THEN "Failed" ELSE "Completed"
    BY <1>1 DEF Decide
  <1>3. PICK n \in 1 .. Len(children), k \in 0 .. Len(children) :
           k <= n /\ Knows(refresh[t], n, k) /\ (Promised => n = Len(children))
    BY <1>1 DEF Counted
  <1>4. n = k
    <2>1. Len(refresh[t].list) = 0 /\ n \in Nat /\ k \in Nat
      BY <1>1 DEF Typed
    <2> QED
      BY <1>3, <2>1 DEF Knows
  <1>5. /\ \A i \in 1 .. n : state[children[i]] \in Final
        /\ refresh[t].failed <=> \E i \in 1 .. n : state[children[i]] = "Failed"
    BY <1>1, <1>3, <1>4 DEF Knows
  <1> QED
    BY <1>2, <1>3, <1>5, FinalStates

(* It seals the parent only when the whole prefix it knows is final.       *)
LEMMA EndRefreshStep ==
  ASSUME IInv, NEW t \in Threads, EndRefresh(t)
  PROVE  IInv'
  <1>1. /\ children' = children /\ state' = state /\ request' = request
        /\ Typed /\ Listed /\ Handled /\ Counted /\ Alone /\ SealedForPrefix
    BY DEF EndRefresh, IInv
  <1>2. /\ refresh' \in [Threads -> Calls] /\ refresh'[t] = NoCall
        /\ \A u \in Threads \ {t} : refresh'[u] = refresh[u]
    BY <1>1, NoCallFits DEF EndRefresh, Typed
  <1>3. \/ parent' = parent /\ handle' = handle
        \/ /\ parent = "Running" /\ parent' = Decide(refresh[t]) /\ handle' = FALSE
           /\ request.pc \notin {"idle", "created"} /\ Decide(refresh[t]) # "Running"
    BY Zenon, <1>1, SealIs DEF EndRefresh
  <1>4. Listed'
    BY <1>1 DEF Listed, Admitted, Promise!Admitted
  <1>5. Alone'
    BY <1>1, <1>2, NoCallFits DEF Alone, Promised
  <1>6. Counted'
    <2> SUFFICES ASSUME NEW u \in Threads, refresh'[u].pc = "count"
                 PROVE  \E n \in 1 .. Len(children), k \in 0 .. Len(children) :
                           /\ k <= n /\ Knows(refresh[u], n, k)'
                           /\ Promised => n = Len(children)
      BY <1>1 DEF Counted, Promised
    <2>1. refresh'[u] = refresh[u]
      BY <1>2, NoCallFits
    <2>2. PICK n \in 1 .. Len(children), k \in 0 .. Len(children) :
             k <= n /\ Knows(refresh[u], n, k) /\ (Promised => n = Len(children))
      BY <1>1, <2>1 DEF Counted
    <2>3. Knows(refresh[u], n, k)'
      BY <1>1, <2>1, <2>2 DEF Knows
    <2> QED
      BY <2>2, <2>3
  <1>7. CASE parent' = parent /\ handle' = handle
    BY <1>1, <1>2, <1>4, <1>5, <1>6, <1>7
    DEF IInv, Typed, Handled, HandleWhileLive, SealedForPrefix
  <1>8. CASE /\ parent = "Running" /\ parent' = Decide(refresh[t]) /\ handle' = FALSE
             /\ request.pc \notin {"idle", "created"} /\ Decide(refresh[t]) # "Running"
    <2>1. Done(refresh[t])
      BY DEF EndRefresh
    <2>2. PICK n \in 1 .. Len(children) :
             /\ \A i \in 1 .. n : state[children[i]] \in Final
             /\ parent' = "Failed" <=> \E i \in 1 .. n : state[children[i]] = "Failed"
      BY <1>1, <1>8, <2>1, RightOutcome
    <2>3. parent' \in {"Completed", "Failed"}
      BY <1>1, <1>8, <2>1, RightOutcome, FinalStates
    <2>4. Typed' /\ Handled'
      BY Zenon, <1>1, <1>2, <1>8, <2>3 DEF Typed, Handled, HandleWhileLive
    <2>5. n \in DOMAIN children
      BY <1>1 DEF Typed
    <2>6. SealedForPrefix'
      BY <1>1, <2>2, <2>5 DEF SealedForPrefix
    <2> QED
      BY <1>4, <1>5, <1>6, <2>4, <2>6 DEF IInv
  <1> QED
    BY Zenon, <1>3, <1>7, <1>8

-----------------------------------------------------------------------------
(* The batch handler.  First the steps that leave records and calls alone. *)
LEMMA MoveRequest ==
  ASSUME IInv, UNCHANGED <<batch, handle, refresh>>, request' \in Requests,
         request'.interleaved = request.interleaved, request'.watched = request.watched,
         request'.todo \subseteq request.todo, request'.held \subseteq request.held,
         request.pc \notin {"idle", "created"}, request'.pc \notin {"idle", "created", "scope"},
         request'.pc = "admit" => request.pc \in {"admit", "scope"} /\ request'.held = request.held
  PROVE  IInv'
  <1>1. /\ parent' = parent /\ children' = children /\ state' = state
        /\ handle' = handle /\ refresh' = refresh
        /\ Typed /\ Listed /\ Handled /\ Counted /\ Alone /\ SealedForPrefix
    BY DEF batch, IInv
  <1>2. Typed' /\ Handled'
    BY <1>1 DEF Typed, Handled, HandleWhileLive
  <1>3. Listed'
    BY <1>1 DEF Listed, Admitted, Promise!Admitted
  <1>4. Promised' = Promised /\ Grows
    BY <1>1, Unmoved DEF Promised
  <1>5. Counted' /\ SealedForPrefix'
    BY <1>1, <1>4, CountedStays, SealedStays
  <1>6. Alone'
    BY <1>1, <1>4 DEF Alone
  <1> QED
    BY <1>2, <1>3, <1>5, <1>6 DEF IInv

(* Steps of the request that touch neither parent nor children.            *)
LEMMA MoveSteps ==
  ASSUME IInv,
         \/ ScopeGranted \/ EndDispatch \/ DropRequest
         \/ \E c \in Children : Reject(c) \/ Spawn(c)
  PROVE  IInv'
  <1>1. request \in Requests /\ UNCHANGED <<batch, handle, refresh>>
    BY DEF IInv, Typed, ScopeGranted, EndDispatch, DropRequest, Reject, Spawn
  <1>2. CASE ScopeGranted \/ EndDispatch \/ DropRequest
    <2>1. PICK pc \in {"admit", "done", "drop"} :
             /\ request' = [request EXCEPT !.pc = pc] /\ request.pc \notin {"idle", "created"}
             /\ pc = "admit" => request.pc = "scope"
      BY <1>2 DEF ScopeGranted, EndDispatch, DropRequest, Goto, At
    <2>2. /\ request' \in Requests /\ request'.pc = pc
          /\ request'.todo = request.todo /\ request'.held = request.held
          /\ request'.interleaved = request.interleaved /\ request'.watched = request.watched
      BY <1>1, <2>1 DEF Requests
    <2> QED
      BY <1>1, <2>1, <2>2, MoveRequest
  <1>3. CASE \E c \in Children : Reject(c)
    <2>1. PICK c \in Children : /\ request.pc = "admit"
                                /\ request' = [request EXCEPT !.todo = @ \ {c}]
      BY Zenon, <1>3 DEF Reject, At
    <2>2. /\ request' \in Requests /\ request'.pc = "admit"
          /\ request'.todo \subseteq request.todo /\ request'.held = request.held
          /\ request'.interleaved = request.interleaved /\ request'.watched = request.watched
      BY <1>1, <2>1 DEF Requests
    <2> QED
      BY <1>1, <2>1, <2>2, MoveRequest
  <1>4. CASE \E c \in Children : Spawn(c)
    <2>1. PICK c \in Children : /\ request.pc = "dispatch"
                                /\ request' = [request EXCEPT !.held = @ \ {c}]
      BY <1>4 DEF Spawn, At
    <2>2. /\ request' \in Requests /\ request'.pc = "dispatch"
          /\ request'.todo = request.todo /\ request'.held \subseteq request.held
          /\ request'.interleaved = request.interleaved /\ request'.watched = request.watched
      BY <1>1, <2>1 DEF Requests
    <2> QED
      BY <1>1, <2>1, <2>2, MoveRequest
  <1> QED
    BY <1>2, <1>3, <1>4

(* The parent is created, and its handle inserted.                         *)
LEMMA OpenParent ==
  ASSUME IInv, CreateParent \/ InsertHandle
  PROVE  IInv'
  <1>1. /\ children' = children /\ state' = state /\ refresh' = refresh
        /\ Typed /\ Listed /\ Handled /\ Counted /\ Alone /\ SealedForPrefix
    BY DEF CreateParent, InsertHandle, batch, IInv
  <1>2. PICK pc \in {"created", "admit"} : request' = [request EXCEPT !.pc = pc]
    BY DEF CreateParent, InsertHandle, Goto
  <1>3. /\ request' \in Requests /\ request'.pc = pc
        /\ request'.todo = request.todo /\ request'.held = request.held
        /\ request'.interleaved = request.interleaved /\ request'.watched = request.watched
    BY <1>1, <1>2 DEF Typed, Requests
  <1>4. /\ request.pc \in {"idle", "created"} /\ parent' = "Running" /\ children = <<>>
        /\ (pc = "created" /\ handle' = FALSE) \/ (pc = "admit" /\ handle' = TRUE)
    <2>1. CASE CreateParent
      BY <1>1, <1>3, <2>1 DEF CreateParent, At, Goto, Handled, Typed, Requests
    <2>2. CASE InsertHandle
      BY <1>1, <1>3, <2>2 DEF InsertHandle, At, Goto, Handled, batch, Typed, Requests
    <2> QED
      BY Zenon, <2>1, <2>2
  <1>5. Typed' /\ Handled'
    BY Zenon, <1>1, <1>3, <1>4 DEF Typed, Handled, HandleWhileLive
  <1>6. Listed'
    <2>1. Admitted = {} /\ Admitted' = {}
      BY <1>1, <1>4 DEF Admitted, Promise!Admitted
    <2> QED
      BY <1>1, <1>3, <1>4, <2>1 DEF Listed
  <1>7. Promised' = Promised /\ Grows
    BY <1>1, <1>3, Unmoved DEF Promised
  <1>8. Counted' /\ SealedForPrefix'
    BY <1>1, <1>4, <1>7, CountedStays, SealedStays
  <1>9. Alone'
    BY <1>1, <1>4, <1>7 DEF Alone
  <1> QED
    BY <1>5, <1>6, <1>8, <1>9 DEF IInv

(* create_child_job: the child is new to the list.                         *)
LEMMA AdmitChildStep ==
  ASSUME IInv, NEW c \in Children, AdmitChild(c)
  PROVE  IInv'
  <1>1. /\ request.pc = "admit" /\ refresh[Handler].pc = "idle" /\ c \in request.todo
        /\ parent = "Running" /\ parent' = parent /\ handle' = handle
        /\ children' = Append(children, c) /\ state' = [state EXCEPT ![c] = "Queued"]
        /\ refresh' = [refresh EXCEPT ![Handler] = Due]
        /\ Typed /\ Listed /\ Handled /\ Counted /\ Alone /\ SealedForPrefix
    BY DEF AdmitChild, At, Quiet, Call, IInv
  <1>2. PICK pc \in {"admit", "scope"} :
           request' = [request EXCEPT !.pc = pc, !.todo = @ \ {c}, !.held = @ \cup {c}]
    BY Zenon, <1>1 DEF AdmitChild
  <1>3. /\ request' \in Requests /\ request'.pc = pc /\ request'.todo = request.todo \ {c}
        /\ request'.held = request.held \cup {c}
        /\ request'.interleaved = request.interleaved /\ request'.watched = request.watched
    BY Zenon, <1>1, <1>2 DEF Typed, Requests
  <1>4. Handler \in Threads
    BY DEF Threads
  <1>5. /\ refresh' \in [Threads -> Calls] /\ refresh'[Handler] = Due
        /\ \A t \in Threads \ {Handler} : refresh'[t] = refresh[t]
    BY <1>1, <1>4, NoCallFits DEF Typed
  <1>6. /\ children' \in Seq(Children) /\ Len(children') = Len(children) + 1
        /\ \A i \in 1 .. Len(children) : children'[i] = children[i]
        /\ children'[Len(children) + 1] = c /\ children' # <<>>
    BY <1>1 DEF Typed
  <1>7. Admitted' = Admitted \cup {c} /\ c \notin Admitted /\ Admitted \subseteq Children
    <2>1. DOMAIN children = 1 .. Len(children) /\ DOMAIN children' = 1 .. Len(children) + 1
      BY <1>1, <1>6 DEF Typed
    <2>2. \A i \in 1 .. Len(children) + 1 : i \in 1 .. Len(children) \/ i = Len(children) + 1
      BY <1>1 DEF Typed
    <2>3. Len(children) + 1 \in 1 .. Len(children) + 1
          /\ \A i \in 1 .. Len(children) : i \in 1 .. Len(children) + 1
      BY <1>1 DEF Typed
    <2>4. Admitted' = Admitted \cup {c}
      BY <1>6, <2>1, <2>2, <2>3 DEF Admitted, Promise!Admitted
    <2>5. Admitted \subseteq Children
      BY <1>1, <2>1 DEF Admitted, Promise!Admitted, Typed
    <2> QED
      BY <1>1, <2>4, <2>5 DEF Listed
  <1>8. Typed'
    BY <1>1, <1>3, <1>5, <1>6 DEF Typed, ChildStates
  <1>9. /\ \A d \in Children \ {c} : state'[d] = state[d]
        /\ state'[c] = "Queued" /\ state[c] = "absent"
    BY <1>1, <1>7 DEF Typed, Listed
  <1>10. Listed'
    <2>1. IsFiniteSet(Admitted') /\ Len(children') = Cardinality(Admitted')
      BY <1>1, <1>6, <1>7, FS_AddElement DEF Listed
    <2>2. \A d \in Children : state'[d] # "absent" <=> d \in Admitted'
      BY <1>1, <1>7, <1>9 DEF Listed
    <2>3. request.held \subseteq Children
      BY <1>1 DEF Typed, Requests
    <2>4. \A d \in request'.held : state'[d] = "Queued" /\ d \notin request'.todo
      BY <1>1, <1>3, <1>9, <2>3 DEF Listed
    <2>5. \A d \in request'.todo : d \notin Admitted'
      BY <1>1, <1>3, <1>7 DEF Listed
    <2>6. children' # <<>> /\ children'[Len(children')] \in request'.held
      BY <1>3, <1>6
    <2>7. \A d \in Admitted' : d \in request'.held \/ state'[d] = "Failed"
      BY <1>1, <1>3, <1>7, <1>9 DEF Listed
    <2> QED
      BY <2>1, <2>2, <2>4, <2>5, <2>6, <2>7 DEF Listed
  <1>11. Handled'
    BY <1>1, <1>3 DEF Handled, HandleWhileLive
  <1>12. Grows
    <2>1. \A i \in 1 .. Len(children) : children[i] \in Children
      BY <1>1 DEF Typed
    <2>2. \A i \in 1 .. Len(children) :
             state[children[i]] \in Final => state'[children[i]] = state[children[i]]
      BY <1>9, <2>1, FinalStates
    <2> QED
      BY <1>1, <1>6, <2>2 DEF Grows, Typed
  <1>13. Promised' = Promised
    BY <1>3 DEF Promised
  <1>14. \A t \in Threads : Promised => refresh[t].pc = "idle"
    BY <1>1 DEF Alone
  <1>15. \A t \in Threads : refresh'[t] = refresh[t] \/ refresh'[t].pc # "count"
    BY <1>5, NoCallFits
  <1>16. Counted'
    BY <1>1, <1>12, <1>13, <1>14, <1>15, CountedStays
  <1>17. SealedForPrefix'
    BY <1>1, <1>12, SealedStays
  <1>18. Alone'
    BY <1>1, <1>5, <1>13 DEF Alone
  <1> QED
    BY <1>8, <1>10, <1>11, <1>16, <1>17, <1>18 DEF IInv

(* A child that has not ended moves on, and its handle leaves the request. *)
LEMMA ChildMoves ==
  ASSUME IInv, NEW c \in Admitted, state[c] \notin Final,
         NEW to \in {"Running", "Completed", "Failed"},
         state' = [state EXCEPT ![c] = to], UNCHANGED <<parent, children, handle>>,
         request' \in Requests, request'.todo = request.todo,
         request'.held = request.held \ {c},
         request'.interleaved = request.interleaved, request'.watched = request.watched,
         request.pc # "admit", request'.pc \notin {"idle", "created", "scope"},
         request'.pc = "admit" => request.pc = "scope" /\ to = "Failed",
         refresh' \in [Threads -> Calls],
         \A t \in Threads : refresh'[t] = refresh[t] \/ refresh'[t].pc = "due",
         request'.pc = "admit" => \A t \in Threads \ {Handler} : refresh'[t] = refresh[t]
  PROVE  IInv'
  <1>1. /\ parent' = parent /\ children' = children /\ handle' = handle
        /\ Typed /\ Listed /\ Handled /\ Counted /\ Alone /\ SealedForPrefix
    BY DEF IInv
  <1>2. Admitted' = Admitted /\ Admitted \subseteq Children
    BY <1>1 DEF Admitted, Promise!Admitted, Typed
  <1>3. /\ \A d \in Children \ {c} : state'[d] = state[d]
        /\ state'[c] = to /\ state[c] # "absent" /\ c \in Children
    BY <1>1, <1>2 DEF Typed, Listed
  <1>4. request.pc \notin {"idle", "created"}
    BY <1>1, AdmittedIs DEF Handled
  <1>5. Typed'
    BY Zenon, <1>1 DEF Typed, ChildStates
  <1>6. Listed'
    <2>1. \A d \in Children : state'[d] # "absent" <=> d \in Admitted'
      BY <1>1, <1>2, <1>3 DEF Listed
    <2>2. \A d \in request'.held : state'[d] = "Queued" /\ d \notin request'.todo
      BY <1>1, <1>3 DEF Listed, Typed, Requests
    <2>3. request'.pc = "admit" => \A d \in Admitted' : d \in request'.held \/ state'[d] = "Failed"
      BY <1>1, <1>2, <1>3 DEF Listed
    <2> QED
      BY <1>1, <1>2, <2>1, <2>2, <2>3 DEF Listed
  <1>7. Handled'
    BY <1>1, <1>4 DEF Handled, HandleWhileLive
  <1>8. Grows
    <2>1. \A i \in 1 .. Len(children) : children[i] \in Children
      BY <1>1 DEF Typed
    <2>2. \A i \in 1 .. Len(children) :
             state[children[i]] \in Final => state'[children[i]] = state[children[i]]
      BY <1>3, <2>1
    <2> QED
      BY <1>1, <2>2 DEF Grows, Typed
  <1>9. Promised' = Promised
    BY DEF Promised
  <1>10. Counted' /\ SealedForPrefix'
    BY <1>1, <1>8, <1>9, CountedStays, SealedStays
  <1>11. Alone'
    BY <1>1, <1>9 DEF Alone
  <1> QED
    BY <1>5, <1>6, <1>7, <1>10, <1>11 DEF IInv

(* The request fails a child that it has not handed to a worker.           *)
LEMMA FailHeldStep ==
  ASSUME IInv, NEW c, NEW pc \in {"admit", "dispatch", "drop"}, FailHeld(c, pc),
         c \in request.held, request.pc # "admit", pc = "admit" => request.pc = "scope",
         refresh' = refresh \/ Call(Handler)
  PROVE  IInv'
  <1>1. Typed /\ Listed
    BY DEF IInv
  <1>2. c \in Admitted /\ state[c] \notin Final /\ c \in Children
    BY <1>1, FinalStates DEF Typed, Requests, Listed
  <1>3. /\ state' = [state EXCEPT ![c] = "Failed"] /\ UNCHANGED <<parent, children, handle>>
        /\ request' = [request EXCEPT !.held = @ \ {c}, !.pc = pc]
    BY DEF FailHeld
  <1>4. /\ request' \in Requests /\ request'.pc = pc /\ request'.todo = request.todo
        /\ request'.held = request.held \ {c}
        /\ request'.interleaved = request.interleaved /\ request'.watched = request.watched
    BY Zenon, <1>1, <1>3 DEF Typed, Requests
  <1>5. /\ refresh' \in [Threads -> Calls]
        /\ \A t \in Threads : refresh'[t] = refresh[t] \/ refresh'[t].pc = "due"
        /\ \A t \in Threads \ {Handler} : refresh'[t] = refresh[t]
    BY <1>1, NoCallFits DEF Typed, Call, Threads
  <1> QED
    BY Zenon, <1>2, <1>3, <1>4, <1>5, ChildMoves

(* A worker starts, or ends its child for good.                            *)
LEMMA WorkStep ==
  ASSUME IInv, NEW c \in Children, StartWork(c) \/ \E outcome \in Final : EndWork(c, outcome)
  PROVE  IInv'
  <1>1. Typed /\ Listed /\ Spawned(c)
    BY DEF IInv, StartWork, EndWork
  <1>2. c \in Admitted /\ c \notin request.held /\ state[c] \notin Final /\ state[c] # "Failed"
    BY <1>1, FinalStates DEF Spawned
  <1>3. request.pc \notin {"idle", "created", "admit", "scope"}
    BY <1>1, <1>2, AdmittedIs DEF IInv, Listed, Handled
  <1>4. PICK to \in {"Running", "Completed", "Failed"} : state' = [state EXCEPT ![c] = to]
    BY FinalStates DEF StartWork, EndWork
  <1>5. UNCHANGED <<parent, children, handle>> /\ request' = request /\ request \in Requests
    BY <1>1 DEF StartWork, EndWork, Typed
  <1>6. /\ refresh' \in [Threads -> Calls]
        /\ \A t \in Threads : refresh'[t] = refresh[t] \/ refresh'[t].pc = "due"
    BY <1>1, NoCallFits DEF StartWork, EndWork, Typed, Call, Threads
  <1>7. request'.held = request.held \ {c}
    BY <1>2, <1>5
  <1> QED
    BY Zenon, <1>2, <1>3, <1>4, <1>5, <1>6, <1>7, ChildMoves

(* A batch whose jobs were all refused has nothing but failed children.    *)
LEMMA EndAdmissionStep ==
  ASSUME IInv, EndAdmission
  PROVE  IInv'
  <1>1. /\ request.pc = "admit" /\ children' = children /\ state' = state /\ refresh' = refresh
        /\ Typed /\ Listed /\ Handled /\ Counted /\ Alone /\ SealedForPrefix
    BY DEF EndAdmission, At, IInv
  <1>2. CASE request.held # {}
    <2>1. UNCHANGED <<batch, handle, refresh>> /\ request' = [request EXCEPT !.pc = "dispatch"]
      BY <1>1, <1>2 DEF EndAdmission, Goto, batch
    <2>2. /\ request' \in Requests /\ request'.pc = "dispatch"
          /\ request'.todo = request.todo /\ request'.held = request.held
          /\ request'.interleaved = request.interleaved /\ request'.watched = request.watched
      BY <1>1, <2>1 DEF Typed, Requests
    <2> QED
      BY <1>1, <2>1, <2>2, MoveRequest
  <1>3. CASE request.held = {}
    <2>1. Seal("Failed") /\ request' = [request EXCEPT !.pc = "done"]
      BY <1>3 DEF EndAdmission, Goto
    <2>2. /\ request' \in Requests /\ request'.pc = "done"
          /\ request'.todo = request.todo /\ request'.held = request.held
          /\ request'.interleaved = request.interleaved /\ request'.watched = request.watched
      BY <1>1, <2>1 DEF Typed, Requests
    <2>3. CASE parent' = parent /\ handle' = handle
      <3>1. UNCHANGED <<batch, handle, refresh>>
        BY <1>1, <2>3 DEF batch
      <3> QED
        BY <1>1, <2>2, <3>1, MoveRequest
    <2>4. CASE parent = "Running" /\ parent' = "Failed" /\ handle' = FALSE
      <3>1. Typed' /\ Handled'
        BY Zenon, <1>1, <2>2, <2>4 DEF Typed, Handled, HandleWhileLive
      <3>2. Listed'
        BY <1>1, <2>2 DEF Listed, Admitted, Promise!Admitted
      <3>3. Promised' = Promised /\ Grows
        BY <1>1, <2>2, Unmoved DEF Promised
      <3>4. Counted'
        BY <1>1, <3>3, CountedStays
      <3>5. SealedForPrefix'
        <4>1. \A i \in DOMAIN children : state[children[i]] = "Failed"
          BY <1>1, <1>3, AdmittedIs DEF Listed
        <4>2. CASE children = <<>>
          BY <1>1, <4>2 DEF SealedForPrefix
        <4>3. CASE children # <<>>
          <5>1. DOMAIN children = 1 .. Len(children) /\ Len(children) \in DOMAIN children
            BY <1>1, <4>3 DEF Typed
          <5>2. Len(children) \in 1 .. Len(children)
            BY <5>1
          <5> QED
            BY <1>1, <2>4, <4>1, <5>1, <5>2, FinalStates DEF SealedForPrefix
        <4> QED
          BY <4>2, <4>3
      <3>6. Alone'
        BY <2>2 DEF Alone
      <3> QED
        BY <3>1, <3>2, <3>4, <3>5, <3>6 DEF IInv
    <2> QED
      BY Zenon, <1>1, <2>1, <2>3, <2>4, SealIs
  <1> QED
    BY <1>2, <1>3

-----------------------------------------------------------------------------
(* Every step keeps the invariant.                                         *)
LEMMA IInvInductive == IInv /\ [Next]_vars => IInv'
  <1> SUFFICES ASSUME IInv, [Next]_vars PROVE IInv'
    OBVIOUS
  <1>1. ASSUME NEW c \in Children, SetupFails(c) \/ DropHandle(c) PROVE IInv'
    BY <1>1, FailHeldStep DEF SetupFails, DropHandle, At
  <1>2. CASE ScopeRefused
    <2>1. request.pc = "scope" /\ children[Len(children)] \in request.held
      BY <1>2 DEF ScopeRefused, At, IInv, Listed
    <2> QED
      BY <1>2, <2>1, FailHeldStep DEF ScopeRefused
  <1>3. CASE HandlerStep
    BY <1>1, <1>2, <1>3, OpenParent, MoveSteps, EndAdmissionStep, AdmitChildStep
    DEF HandlerStep
  <1>4. CASE UNCHANGED vars
    <2>1. /\ parent' = parent /\ children' = children /\ state' = state /\ handle' = handle
          /\ request' = request /\ refresh' = refresh
      BY <1>4 DEF vars
    <2>2. Typed' /\ Handled' /\ Alone'
      BY <2>1 DEF IInv, Typed, Handled, HandleWhileLive, Alone, Promised
    <2>3. Listed'
      BY <2>1 DEF IInv, Listed, Admitted, Promise!Admitted
    <2>4. Promised' = Promised /\ Grows
      BY <2>1, Unmoved DEF IInv, Promised
    <2>5. Counted' /\ SealedForPrefix'
      BY <2>1, <2>4, CountedStays, SealedStays DEF IInv
    <2> QED
      BY <2>2, <2>3, <2>5 DEF IInv
  <1>5. ASSUME NEW t \in Threads, RefreshStep(t) PROVE IInv'
    BY <1>5, BeginRefreshStep, CountChildStep, EndRefreshStep DEF RefreshStep
  <1> QED
    BY <1>3, <1>4, <1>5, MoveSteps, WorkStep DEF Next

(* And that only a counting call has ids to read.                          *)
LEMMA UnreadInductive == IInv /\ Unread /\ [Next]_vars => Unread'
  <1> SUFFICES ASSUME IInv, Unread, [Next]_vars, NEW t \in Threads, refresh'[t].pc # "count"
               PROVE  refresh'[t].list = <<>>
    BY DEF Unread
  <1>1. refresh \in [Threads -> Calls]
    BY DEF IInv, Typed
  <1>2. NoCall.list = <<>> /\ Due.list = <<>>
    <2>1. NoCall.list = <<>> /\ NoCall \in Calls
      BY NoCallFits DEF NoCall
    <2> QED
      BY <2>1 DEF Due, Calls
  <1>3. CASE refresh' = refresh \/ \E u : refresh' = [refresh EXCEPT ![u] = Due]
    <2>1. refresh'[t] = refresh[t] \/ refresh'[t] = Due
      BY <1>1, <1>3
    <2> QED
      BY <1>2, <2>1 DEF Unread
  <1>4. CASE \E u \in Threads : BeginRefresh(u)
    <2>1. PICK u \in Threads : BeginRefresh(u)
      BY <1>4
    <2>2. [NoCall EXCEPT !.pc = "count", !.list = children].pc = "count"
      BY NoCallFits DEF Calls
    <2>3. refresh'[t] = refresh[t] \/ refresh'[t] = NoCall
      BY <1>1, <2>1, <2>2 DEF BeginRefresh
    <2> QED
      BY <1>2, <2>3 DEF Unread
  <1>5. CASE \E u \in Threads : CountChild(u)
    <2>1. PICK u \in Threads : CountChild(u)
      BY <1>5
    <2>2. t # u /\ refresh'[t] = refresh[t]
      BY <1>1, <2>1 DEF CountChild, Calls
    <2> QED
      BY <2>2 DEF Unread
  <1>6. CASE \E u \in Threads : EndRefresh(u)
    <2>1. PICK u \in Threads : refresh' = [refresh EXCEPT ![u] = NoCall]
      BY Zenon, <1>6 DEF EndRefresh
    <2> QED
      BY <1>1, <1>2, <2>1 DEF Unread
  <1>7. CASE UNCHANGED vars
    BY <1>3, <1>7 DEF vars
  <1>8. CASE HandlerStep
    BY Zenon, <1>3, <1>8
    DEF HandlerStep, CreateParent, InsertHandle, ScopeGranted, ScopeRefused,
        EndAdmission, EndDispatch, Reject, AdmitChild, Spawn, SetupFails, DropHandle,
        Call
  <1>9. CASE DropRequest \/ \E c \in Children : StartWork(c) \/ \E o \in Final : EndWork(c, o)
    BY <1>3, <1>9 DEF DropRequest, StartWork, EndWork, Call
  <1> QED
    BY <1>4, <1>5, <1>6, <1>7, <1>8, <1>9 DEF Next, RefreshStep

(* The invariant gives what aggregation promises.                          *)
LEMMA IInvSound == IInv /\ Unread => SealingSound
  <1> SUFFICES ASSUME IInv, Unread PROVE SealingSound
    OBVIOUS
  <1>1. Typed /\ Listed /\ HandleWhileLive /\ SealedForPrefix
    BY DEF IInv, Handled
  <1>2. Admitted \subseteq Children
    BY <1>1, AdmittedIs DEF Typed
  <1>3. ASSUME NEW t \in Threads, NEW i \in DOMAIN refresh[t].list
        PROVE  refresh[t].list[i] \in Admitted
    <2>1. refresh[t].pc = "count" /\ refresh[t].list \in Seq(Children)
      BY <1>1, <1>3 DEF Unread, Typed, Calls
    <2>2. PICK n \in 1 .. Len(children), k \in 0 .. Len(children) :
             k <= n /\ Knows(refresh[t], n, k)
      BY <2>1 DEF IInv, Counted
    <2>3. i \in 1 .. n - k
      BY <2>1, <2>2 DEF Knows
    <2>4. k + i \in DOMAIN children
      BY <1>1, <2>2, <2>3 DEF Typed
    <2> QED
      BY <2>2, <2>3, <2>4, AdmittedIs DEF Knows
  <1>4. TypeOK
    <2>1. /\ request.pc \in {"idle", "created", "admit", "scope", "dispatch", "drop", "done"}
          /\ request.todo \subseteq Children \ request.held
      BY <1>1 DEF Typed, Requests, Listed
    <2>2. \A t \in Threads : refresh[t].pc \in {"idle", "due", "count"}
      BY <1>1 DEF Typed, Calls
    <2> QED
      BY <1>1, <1>2, <1>3, <2>1, <2>2, FinalStates
      DEF TypeOK, Typed, ChildStates, Listed
  <1> QED
    BY <1>1, <1>4 DEF SealingSound

(* The aggregation of any batch, over any interleaving of any number of    *)
(* refreshes on stale snapshots: the parent is sealed only for children    *)
(* that are final, with their outcome, and its record is live exactly      *)
(* while its handle is in parent_job_handles.                              *)
THEOREM AggregationSound == Spec => []SealingSound
  <1>1. Init => Unread
    BY DEF Init, NoCall, Unread
  <1> QED
    BY <1>1, InitIInv, IInvInductive, UnreadInductive, IInvSound, PTL DEF Spec

-----------------------------------------------------------------------------
(* Refinement.  While an unwatched request admits its children nobody else *)
(* refreshes, and afterwards the list is complete: a call that seals has   *)
(* read every child.                                                       *)
LEMMA SealRefines ==
  ASSUME IInv, Promised, NEW t \in Threads, EndRefresh(t)
  PROVE  [Promise!Next]_(Promise!vars)
  <1>1. Typed /\ Handled /\ Counted /\ children' = children /\ state' = state /\ Done(refresh[t])
    BY DEF IInv, EndRefresh
  <1>2. CASE parent' = parent
    BY <1>1, <1>2 DEF Promise!vars
  <1>3. CASE /\ parent = "Running" /\ parent' = Decide(refresh[t])
             /\ Decide(refresh[t]) # "Running"
    <2>1. PICK n \in 1 .. Len(children) :
             /\ \A i \in 1 .. n : state[children[i]] \in Final
             /\ parent' = "Failed" <=> \E i \in 1 .. n : state[children[i]] = "Failed"
             /\ n = Len(children)
      BY <1>1, <1>3, RightOutcome
    <2>2. DOMAIN children = 1 .. n /\ children # <<>>
      BY <1>1, <2>1 DEF Typed
    <2>3. /\ \A c \in Promise!Admitted : state[c] \in Final
          /\ parent' = "Failed" <=> \E c \in Promise!Admitted : state[c] = "Failed"
      BY <2>1, <2>2 DEF Promise!Admitted
    <2>4. parent' \in Final
      BY <1>1, <1>3, RightOutcome
    <2>5. CASE parent' = "Failed"
      BY <1>1, <1>3, <2>3, <2>5 DEF Promise!Next, Promise!Fail, Final
    <2>6. CASE parent' = "Completed"
      BY <1>1, <1>3, <2>2, <2>3, <2>6, FinalStates
      DEF Promise!Next, Promise!Complete
    <2> QED
      BY <2>4, <2>5, <2>6, FinalStates
  <1> QED
    BY Zenon, <1>1, <1>2, <1>3, SealIs DEF EndRefresh

(* A request with no job to dispatch fails its parent, as BatchOutcome may. *)
LEMMA EndAdmissionRefines ==
  ASSUME IInv, EndAdmission
  PROVE  [Promise!Next]_(Promise!vars)
  <1>1. /\ Typed /\ Handled /\ children' = children /\ state' = state
        /\ \A c \in Admitted : c \in request.held \/ state[c] = "Failed"
    BY DEF IInv, Listed, EndAdmission, At
  <1>2. CASE parent' = parent
    BY <1>1, <1>2 DEF Promise!vars
  <1>3. CASE request.held = {} /\ parent = "Running" /\ parent' = "Failed"
    <2>1. \A c \in Promise!Admitted : state[c] = "Failed"
      BY <1>1, <1>3 DEF Admitted
    <2>2. children # <<>> => \E c \in Promise!Admitted : state[c] = "Failed"
      <3>1. children # <<>> => 1 \in DOMAIN children
        BY <1>1 DEF Typed
      <3> QED
        BY <2>1, <3>1 DEF Promise!Admitted
    <2> QED
      BY <1>1, <1>3, <2>1, <2>2 DEF Promise!Next, Promise!Fail, Promise!Final
  <1> QED
    BY Zenon, <1>1, <1>2, <1>3, SealIs DEF EndAdmission

(* A child that moves on is a step of BatchOutcome.                        *)
LEMMA AdvanceRefines ==
  ASSUME NEW c \in Children, c \in Admitted, state[c] \notin Final,
         NEW to \in {"Running", "Completed", "Failed"},
         state' = [state EXCEPT ![c] = to], UNCHANGED <<parent, children>>
  PROVE  Promise!Next
  BY Zenon DEF Promise!Next, Promise!Advance, Promise!Final, Final, Admitted

(* Every step of an unwatched up-front batch is one of BatchOutcome, or none. *)
LEMMA StepRefines ==
  ASSUME IInv, Promised, [Next]_vars
  PROVE  [Promise!Next]_(Promise!vars)
  <1>1. Typed /\ Listed /\ Handled
    BY DEF IInv
  <1>2. ASSUME NEW c \in request.held, NEW pc, FailHeld(c, pc) PROVE Promise!Next
    <2>1. c \in Children /\ c \in Admitted /\ state[c] \notin Final
      BY <1>1, FinalStates DEF Typed, Requests, Listed
    <2> QED
      BY Zenon, <1>2, <2>1, AdvanceRefines DEF FailHeld
  <1>3. CASE UNCHANGED batch
    BY <1>3 DEF batch, Promise!vars
  <1>4. CASE CreateParent
    <2>1. parent = "absent"
      BY <1>1, <1>4 DEF CreateParent, At, Handled
    <2> QED
      BY <1>4, <2>1 DEF CreateParent, Promise!Next, Promise!Open
  <1>5. ASSUME NEW c \in Children, AdmitChild(c) PROVE Promise!Next
    <2>1. c \notin Promise!Admitted
      BY <1>1, <1>5 DEF AdmitChild, Listed, Admitted
    <2> QED
      BY Zenon, <1>5, <2>1 DEF AdmitChild, Promise!Next, Promise!Admit
  <1>6. CASE ScopeRefused
    BY <1>1, <1>2, <1>6 DEF ScopeRefused, At, Listed
  <1>7. ASSUME NEW c \in Children, SetupFails(c) \/ DropHandle(c) PROVE Promise!Next
    BY <1>2, <1>7 DEF SetupFails, DropHandle
  <1>8. CASE HandlerStep
    BY <1>3, <1>4, <1>5, <1>6, <1>7, <1>8, EndAdmissionRefines
    DEF HandlerStep, InsertHandle, ScopeGranted, EndDispatch, Reject, Spawn
  <1>9. ASSUME NEW c \in Children, StartWork(c) \/ \E outcome \in Final : EndWork(c, outcome)
        PROVE  Promise!Next
    BY <1>9, AdvanceRefines, FinalStates DEF StartWork, EndWork, Spawned
  <1>10. ASSUME NEW t \in Threads, RefreshStep(t) PROVE [Promise!Next]_(Promise!vars)
    BY <1>3, <1>10, SealRefines DEF RefreshStep, BeginRefresh, CountChild
  <1> QED
    BY <1>3, <1>8, <1>9, <1>10 DEF Next, DropRequest, vars, batch

(* A request never changes its kind.                                       *)
LEMMA RequestKind ==
  ASSUME IInv, [Next]_vars
  PROVE  Promised' = Promised
  <1>1. request \in Requests
    BY DEF IInv, Typed
  <1>2. CASE request' = request
    BY <1>2 DEF Promised
  <1>3. CASE \E pc : request' = [request EXCEPT !.pc = pc]
    BY <1>1, <1>3 DEF Promised, Requests
  <1>4. CASE \E c, pc : request' = [request EXCEPT !.held = @ \ {c}, !.pc = pc]
    BY <1>1, <1>4 DEF Promised, Requests
  <1>5. CASE \E c \in Children : Reject(c) \/ AdmitChild(c) \/ Spawn(c)
    <2>1. PICK c \in Children : Reject(c) \/ AdmitChild(c) \/ Spawn(c)
      BY <1>5
    <2>2. request'.interleaved = request.interleaved /\ request'.watched = request.watched
      BY Zenon, <1>1, <2>1 DEF Reject, AdmitChild, Spawn, Requests
    <2> QED
      BY <2>2 DEF Promised
  <1>6. CASE HandlerStep
    BY Zenon, <1>3, <1>4, <1>5, <1>6
    DEF HandlerStep, CreateParent, InsertHandle, ScopeGranted, ScopeRefused, EndAdmission,
        EndDispatch, SetupFails, DropHandle, FailHeld, Goto
  <1> QED
    BY Zenon, <1>2, <1>3, <1>6
    DEF Next, vars, DropRequest, Goto, StartWork, EndWork, RefreshStep, BeginRefresh,
        CountChild, EndRefresh

(* A batch that admits its children up front, with nobody watching it      *)
(* meanwhile, behaves as BatchOutcome: its parent completes or fails in    *)
(* one step, in a state in which every child is final and the outcome is   *)
(* theirs, though the decision was put together from reads of one child at *)
(* a time.                                                                 *)
THEOREM UnwatchedBatchKeepsPromise == Spec => UnwatchedKeepsPromise
  <1>1. Init => Kept!Init
    BY DEF Init, Promise!Init, Kept!Init
  <1>2. IInv /\ [Next]_vars => [Kept!Next]_(Kept!vars)
    <2> SUFFICES ASSUME IInv, [Next]_vars PROVE [Kept!Next]_(Kept!vars)
      OBVIOUS
    <2>1. Promised' = Promised
      BY RequestKind
    <2>2. CASE ~Promised
      BY <2>1, <2>2 DEF Kept!vars
    <2>3. CASE Promised
      <3>1. [Promise!Next]_(Promise!vars)
        BY <2>3, StepRefines
      <3> QED
        BY <2>1, <2>3, <3>1
        DEF Promise!Next, Promise!vars, Promise!Open, Promise!Complete, Promise!Fail,
            Promise!Admit, Promise!Advance, Promise!Admitted, Promise!Final,
            Kept!Next, Kept!vars, Kept!Open, Kept!Complete, Kept!Fail, Kept!Admit,
            Kept!Advance, Kept!Admitted, Kept!Final
    <2> QED
      BY <2>2, <2>3
  <1> QED
    BY <1>1, <1>2, InitIInv, IInvInductive, PTL
    DEF Spec, UnwatchedKeepsPromise, Kept!Spec
=============================================================================
