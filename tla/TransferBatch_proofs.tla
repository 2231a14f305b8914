------------------------ MODULE TransferBatch_proofs ------------------------
(***************************************************************************)
(* Two uploads into one directory are never under way together, for every  *)
(* list of uploads, folder tree, limit, budget and number of failures.     *)
(*                                                                         *)
(* The argument is the one of dirChains: an upload is in its directory's   *)
(* chain from the moment it is past the limiter, once, and only a chained  *)
(* upload may have one before it that is not over.  Of two uploads of one  *)
(* directory that are both under way, the later has the earlier before it. *)
(***************************************************************************)
EXTENDS TransferBatch, TLAPS, FiniteSetTheorems, WellFoundedInduction

Under == OnWire \cup {"ask", "join", "nodir"}
Before == {"idle", "queued", "started"}

Shape == /\ queue \in Seq(ItemSet) /\ waiters \in Seq(ItemSet)
         /\ chain \in [Dirs -> Seq(ItemSet)]
         /\ pc \in [Tasks -> Pcs]

\* A sequence of distinct tasks that all stand at one label.
Distinct(s) == \A i, j \in 1..Len(s) : s[i] = s[j] => i = j
Standing(s, label) == Distinct(s) /\ \A i \in 1..Len(s) : pc[s[i]] = label

Members == \A d \in Dirs : \A i \in 1..Len(chain[d]) :
               DirOf(chain[d][i]) = d /\ pc[chain[d][i]] \notin Before
InOrder == \A d \in Dirs : \A i, j \in 1..Len(chain[d]) :
               j < i /\ pc[chain[d][i]] # "chained" => pc[chain[d][j]] = "done"
Covered == SerializeByDir => \A f \in ItemSet : pc[f] \notin Before \cup {"done"} =>
               \E i \in 1..Len(chain[DirOf(f)]) : chain[DirOf(f)][i] = f

Chains == Members /\ InOrder /\ Covered /\ \A d \in Dirs : Distinct(chain[d])

\* A rename of watch mode goes through neither the limiter nor a chain.
Aside == \A f \in Others : pc[f] \in Under \cup {"idle", "done"}

IInv == Shape /\ Aside /\ Standing(queue, "queued") /\ Standing(waiters, "waiting") /\ Chains
-----------------------------------------------------------------------------
(* Lemmas on the operators. *)

LEMMA DirOfType == \A f \in Tasks : DirOf(f) \in Dirs
<1> SUFFICES ASSUME NEW f \in Tasks PROVE DirOf(f) \in Dirs
  OBVIOUS
<1>1. Above[f] \in Seq(Dirs) /\ Above[f] # <<>>
  BY AboveAssumption
<1> QED
  BY <1>1 DEF DirOf

\* What stays of a sequence after its first n entries.
LEMMA SuffixType ==
  ASSUME NEW S, NEW s \in Seq(S), NEW n \in 0..Len(s)
  PROVE  /\ SubSeq(s, n + 1, Len(s)) \in Seq(S)
         /\ Len(SubSeq(s, n + 1, Len(s))) = Len(s) - n
         /\ \A i \in 1..(Len(s) - n) : SubSeq(s, n + 1, Len(s))[i] = s[n + i]
<1>1. \A i \in (n + 1)..Len(s) : s[i] \in S
  OBVIOUS
<1> QED
  BY <1>1

\* drain grants some number of waiters from the front.
LEMMA GrantedType ==
  ASSUME waiters \in Seq(ItemSet), NEW avail
  PROVE  Granted(avail) \in 0..Len(waiters)
<1> DEFINE G == {n \in 1..Len(waiters) : FirstNeed(n) <= avail}
<1>1. Len(waiters) \in Nat
  OBVIOUS
<1>2. IsFiniteSet(1..Len(waiters)) /\ Cardinality(1..Len(waiters)) = Len(waiters)
  BY <1>1, FS_Interval
<1>3. G \subseteq 1..Len(waiters)
  OBVIOUS
<1> HIDE DEF G
<1>4. Cardinality(G) \in Nat /\ Cardinality(G) <= Len(waiters)
  BY <1>2, <1>3, FS_Subset, FS_CardinalityType
<1> QED
  BY <1>1, <1>4 DEF Granted, G
-----------------------------------------------------------------------------
(* A chain survives every step in which tasks only go forward. *)

Forward(f) == \/ pc'[f] = pc[f]
              \/ pc[f] \in Under /\ pc'[f] \in Under \cup {"done"}
              \/ pc[f] = "waiting" /\ pc'[f] \in Under
              \/ pc[f] = "queued" /\ pc'[f] = "started"
              \/ pc[f] = "started" /\ pc'[f] = "done"

LEMMA ForwardKeepsChains ==
  ASSUME Shape, Chains, chain' = chain, \A f \in ItemSet : Forward(f)
  PROVE  Chains'
<1> USE DEF Forward, Under, OnWire, Before
<1>1. \A d \in Dirs : \A i \in 1..Len(chain[d]) : chain[d][i] \in ItemSet
  BY DEF Shape
<1>2. Members'
  BY <1>1 DEF Chains, Members, DirOf
<1>3. InOrder'
  <2> SUFFICES ASSUME NEW d \in Dirs, NEW i \in 1..Len(chain[d]), NEW j \in 1..Len(chain[d]),
                      j < i, pc'[chain[d][i]] # "chained"
               PROVE  pc'[chain[d][j]] = "done"
    BY DEF InOrder
  <2>1. pc[chain[d][i]] # "chained"
    BY <1>1
  <2>2. pc[chain[d][j]] = "done"
    BY <2>1 DEF Chains, InOrder
  <2> QED
    BY <1>1, <2>2
<1>4. Covered'
  BY DEF Chains, Covered, DirOf
<1> QED
  BY <1>2, <1>3, <1>4 DEF Chains, Distinct

\* Requests and answers move tasks that are under way and touch no limiter.
LEMMA UnderWay ==
  ASSUME IInv, UNCHANGED <<queue, chain, waiters>>, pc' \in [Tasks -> Pcs], Aside',
         \A f \in ItemSet : \/ pc'[f] = pc[f]
                            \/ pc[f] \in Under /\ pc'[f] \in Under
  PROVE  IInv'
<1>1. Shape'
  BY DEF IInv, Shape
<1>2. Chains'
  BY ForwardKeepsChains DEF IInv, Forward
<1>3. /\ \A i \in 1..Len(queue) : queue[i] \in ItemSet
      /\ \A i \in 1..Len(waiters) : waiters[i] \in ItemSet
  BY DEF IInv, Shape
<1>4. Standing(queue, "queued")' /\ Standing(waiters, "waiting")'
  BY <1>3 DEF IInv, Standing, Distinct, Under, OnWire
<1> QED
  BY <1>1, <1>2, <1>4 DEF IInv

\* One task goes from one await to another.
LEMMA StepKeeps ==
  ASSUME IInv, NEW f \in Tasks, pc[f] \in Under, NEW label \in Under, NEW r,
         Step(f, label, r)
  PROVE  IInv'
<1>1. pc' = [pc EXCEPT ![f] = label] /\ UNCHANGED <<queue, chain, waiters>>
  BY DEF Step, Goto, limits
<1>2. pc' \in [Tasks -> Pcs]
  BY <1>1 DEF IInv, Shape, Pcs, Under
<1>3. \A g \in ItemSet : pc'[g] = pc[g] \/ (pc[g] \in Under /\ pc'[g] \in Under)
  BY <1>1 DEF IInv, Shape
<1>4. Aside'
  BY <1>1, <1>2 DEF IInv, Shape, Aside, Tasks
<1> QED
  BY <1>1, <1>2, <1>3, <1>4, UnderWay
-----------------------------------------------------------------------------
(* The limiter, the chains and the byte budget. *)

\* The slot of a task that is over goes to the head of the queue.
LEMMA SlotPassed ==
  ASSUME IInv, PassSlot, pc' \in [Tasks -> Pcs],
         \A g \in ItemSet : pc[g] = "queued" => pc'[g] = SlotTo(pc[g], g)
  PROVE  queue' \in Seq(ItemSet) /\ Standing(queue, "queued")'
<1>1. queue \in Seq(ItemSet) /\ Standing(queue, "queued")
  BY DEF IInv, Shape
<1>2. CASE queue = <<>>
  BY <1>1, <1>2 DEF PassSlot, Standing, Distinct
<1>3. CASE queue # <<>>
  <2>1. /\ queue' = Tail(queue) /\ queue' \in Seq(ItemSet)
        /\ Len(queue') = Len(queue) - 1
        /\ \A i \in 1..Len(queue') : queue'[i] = queue[i + 1]
    BY <1>1, <1>3 DEF PassSlot
  <2>2. ASSUME NEW i \in 1..Len(queue')
        PROVE  i + 1 \in 1..Len(queue) /\ queue'[i] = queue[i + 1] /\ queue'[i] # Head(queue)
    BY <1>1, <1>3, <2>1 DEF Standing, Distinct
  <2>3. ASSUME NEW i \in 1..Len(queue') PROVE pc'[queue'[i]] = "queued"
    <3>1. queue'[i] \in ItemSet /\ pc[queue'[i]] = "queued" /\ queue'[i] # Head(queue)
      BY <1>1, <2>1, <2>2 DEF Standing
    <3> QED
      BY <3>1 DEF SlotTo
  <2>4. Distinct(queue')
    BY <1>1, <2>1, <2>2 DEF Standing, Distinct
  <2> QED
    BY <2>1, <2>3, <2>4 DEF Standing
<1> QED
  BY <1>2, <1>3

\* A task that may transfer is granted its bytes, or waits behind the others.
LEMMA Acquired ==
  ASSUME IInv, NEW f \in ItemSet, pc[f] \in {"started", "chained"}, Acquire(f)
  PROVE  /\ pc'[f] \in {"waiting"} \cup Under /\ pc' \in [Tasks -> Pcs]
         /\ \A g \in Tasks \ {f} : pc'[g] = pc[g]
         /\ waiters' \in Seq(ItemSet) /\ Standing(waiters, "waiting")'
<1>1. waiters \in Seq(ItemSet) /\ Standing(waiters, "waiting") /\ pc \in [Tasks -> Pcs]
  BY DEF IInv, Shape
<1>2. f \in Tasks /\ \A i \in 1..Len(waiters) : waiters[i] \in Tasks \ {f}
  BY <1>1 DEF Standing, Tasks
<1>3. CASE Need(f) <= free
  <2>1. pc' = [pc EXCEPT ![f] = First(f)] /\ waiters' = waiters
    BY <1>3 DEF Acquire, Goto
  <2>2. First(f) \in Under /\ First(f) \in Pcs
    BY DEF First, Under, OnWire, Pcs
  <2> QED
    BY <1>1, <1>2, <2>1, <2>2 DEF Standing, Distinct
<1>4. CASE ~(Need(f) <= free)
  <2>1. pc' = [pc EXCEPT ![f] = "waiting"] /\ waiters' = Append(waiters, f)
    BY <1>4 DEF Acquire, Goto
  <2>2. /\ waiters' \in Seq(ItemSet) /\ Len(waiters') = Len(waiters) + 1
        /\ \A i \in 1..Len(waiters) : waiters'[i] = waiters[i]
        /\ waiters'[Len(waiters) + 1] = f
    BY <1>1, <2>1
  <2>3. Distinct(waiters')
    BY <1>1, <1>2, <2>2 DEF Standing, Distinct
  <2>4. \A i \in 1..Len(waiters') : pc'[waiters'[i]] = "waiting"
    BY <1>1, <1>2, <2>1, <2>2 DEF Standing
  <2> QED
    BY <1>1, <1>2, <2>1, <2>2, <2>3, <2>4 DEF Standing, Pcs
<1> QED
  BY <1>3, <1>4

\* A task that is over lets the waiters in that fit, and the next from the queue.
LEMMA FinishKeeps ==
  ASSUME IInv, NEW f \in Tasks, pc[f] \in Under, NEW r, Finish(f, r)
  PROVE  IInv'
<1>1. /\ pc \in [Tasks -> Pcs] /\ ItemSet \subseteq Tasks
      /\ waiters \in Seq(ItemSet) /\ Standing(waiters, "waiting") /\ Standing(queue, "queued")
      /\ queue \in Seq(ItemSet)
  BY DEF IInv, Shape, Tasks
<1>2. CASE f \in Others
  <2>1. pc' = [pc EXCEPT ![f] = "done"] /\ UNCHANGED <<queue, chain, waiters>> /\ f \notin ItemSet
    BY <1>2, ItemsAssumption DEF Finish, limits
  <2>2. pc' \in [Tasks -> Pcs] /\ Aside' /\ \A g \in ItemSet : pc'[g] = pc[g]
    BY <1>1, <2>1 DEF IInv, Aside, Tasks, Pcs
  <2> QED
    BY <2>1, <2>2, UnderWay
<1>3. CASE f \notin Others
  <2> DEFINE n == Granted(free + Need(f))
             woken == {waiters[i] : i \in 1..n}
  <2>1. /\ waiters' = SubSeq(waiters, n + 1, Len(waiters))
        /\ pc' = [g \in Tasks |-> IF g = f THEN "done" ELSE IF g \in woken THEN First(g)
                                  ELSE SlotTo(pc[g], g)]
        /\ PassSlot /\ chain' = chain
    BY <1>3 DEF Finish
  <2>2. n \in 0..Len(waiters)
    BY <1>1, GrantedType
  <2> HIDE DEF n
  <2>3. \A g \in woken : pc[g] = "waiting" /\ g \in ItemSet
    BY <1>1, <2>2 DEF Standing
  <2>4. \A g \in Tasks : First(g) \in Under /\ First(g) \in Pcs
    BY DEF First, Under, OnWire, Pcs
  <2>5. \A g \in Tasks : SlotTo(pc[g], g) = pc[g] \/ (pc[g] = "queued" /\ SlotTo(pc[g], g) = "started")
    BY <1>1 DEF SlotTo, Standing
  <2>6. pc' \in [Tasks -> Pcs]
    BY <1>1, <2>1, <2>4, <2>5 DEF Pcs
  <2>7. \A g \in ItemSet : Forward(g)
    BY <1>1, <2>1, <2>3, <2>4, <2>5 DEF Forward
  <2>8. queue' \in Seq(ItemSet) /\ Standing(queue, "queued")'
    <3>1. \A g \in ItemSet : pc[g] = "queued" => pc'[g] = SlotTo(pc[g], g)
      BY <1>1, <2>1, <2>3 DEF Under, OnWire
    <3> QED
      BY <2>1, <2>6, <3>1, SlotPassed
  <2>9. waiters' \in Seq(ItemSet) /\ Standing(waiters, "waiting")'
    <3>1. /\ waiters' \in Seq(ItemSet) /\ Len(waiters') = Len(waiters) - n
          /\ \A i \in 1..(Len(waiters) - n) : waiters'[i] = waiters[n + i]
      BY <1>1, <2>1, <2>2, SuffixType
    <3>2. ASSUME NEW i \in 1..Len(waiters') PROVE pc'[waiters'[i]] = "waiting"
      <4>1. n + i \in 1..Len(waiters) /\ waiters'[i] = waiters[n + i]
        BY <2>2, <3>1
      <4>2. waiters'[i] \in Tasks /\ pc[waiters'[i]] = "waiting"
        BY <1>1, <4>1 DEF Standing
      <4>3. waiters'[i] \notin woken
        BY <1>1, <2>2, <4>1 DEF Standing, Distinct
      <4>4. waiters'[i] # f /\ SlotTo(pc[waiters'[i]], waiters'[i]) = "waiting"
        BY <2>5, <4>2 DEF Under, OnWire
      <4> QED
        BY <2>1, <4>2, <4>3, <4>4
    <3>3. Distinct(waiters')
      BY <1>1, <2>2, <3>1 DEF Standing, Distinct
    <3> QED
      BY <3>1, <3>2, <3>3 DEF Standing
  <2>10. Chains'
    BY <2>1, <2>7, ForwardKeepsChains DEF IInv
  <2>11. Aside'
    <3>1. \A g \in Others : g \notin woken /\ g # f /\ pc[g] # "queued"
      BY <1>3, <2>3, ItemsAssumption DEF IInv, Aside, Under, OnWire
    <3> QED
      BY <2>1, <2>5, <3>1 DEF IInv, Aside, Tasks
  <2> QED
    BY <2>1, <2>6, <2>8, <2>9, <2>10, <2>11 DEF IInv, Shape
<1> QED
  BY <1>2, <1>3


LEMMA PastLimiter ==
  ASSUME IInv, NEW f \in Tasks, pc[f] \in {"queued", "started", "chained", "waiting"}
  PROVE  f \in ItemSet
  BY DEF IInv, Aside, Tasks, Under, OnWire

\* A started task is skipped after a stop, or joins its directory's chain.
LEMMA StartKeeps ==
  ASSUME IInv, NEW f \in Tasks, Start(f)
  PROVE  IInv'
<1>1. /\ pc \in [Tasks -> Pcs] /\ ItemSet \subseteq Tasks /\ pc[f] = "started"
      /\ waiters \in Seq(ItemSet) /\ Standing(waiters, "waiting") /\ Standing(queue, "queued")
      /\ queue \in Seq(ItemSet) /\ chain \in [Dirs -> Seq(ItemSet)]
  BY DEF IInv, Shape, Tasks, Start
<1>2. \A g \in Tasks : SlotTo(pc[g], g) = pc[g] \/ (pc[g] = "queued" /\ SlotTo(pc[g], g) = "started")
  BY <1>1 DEF SlotTo, Standing
<1>3. f \in ItemSet /\ \A g \in Others : g # f /\ pc[g] # "queued"
  BY <1>1, PastLimiter, ItemsAssumption DEF Tasks
<1>4. CASE cancelled
  <2>1. /\ PassSlot /\ UNCHANGED <<chain, waiters>>
        /\ pc' = [g \in Tasks |-> IF g = f THEN "done" ELSE SlotTo(pc[g], g)]
    BY <1>4 DEF Start
  <2>2. pc' \in [Tasks -> Pcs]
    BY <1>1, <1>2, <2>1 DEF Pcs
  <2>3. queue' \in Seq(ItemSet) /\ Standing(queue, "queued")'
    <3>1. \A g \in ItemSet : pc[g] = "queued" => pc'[g] = SlotTo(pc[g], g)
      BY <1>1, <2>1
    <3> QED
      BY <2>1, <2>2, <3>1, SlotPassed
  <2>4. Standing(waiters, "waiting")'
    BY <1>1, <1>2, <2>1 DEF Standing, Distinct
  <2>5. Chains'
    BY <1>1, <1>2, <2>1, ForwardKeepsChains DEF IInv, Forward
  <2>6. Aside'
    BY <1>2, <1>3, <2>1 DEF IInv, Aside, Tasks
  <2> QED
    BY <1>1, <2>1, <2>2, <2>3, <2>4, <2>5, <2>6 DEF IInv, Shape
<1>5. CASE ~cancelled /\ SerializeByDir
  <2> DEFINE c == DirOf(f)
  <2>1. /\ chain' = [chain EXCEPT ![c] = Append(chain[c], f)]
        /\ pc' = [pc EXCEPT ![f] = "chained"]
        /\ UNCHANGED <<queue, waiters>>
    BY <1>5 DEF Start, Goto
  <2>2. c \in Dirs /\ c = DirOf(f) /\ chain[c] \in Seq(ItemSet)
    BY <1>1, DirOfType
  <2> HIDE DEF c
  <2>3. /\ chain' \in [Dirs -> Seq(ItemSet)] /\ pc' \in [Tasks -> Pcs]
        /\ Len(chain'[c]) = Len(chain[c]) + 1 /\ chain'[c][Len(chain[c]) + 1] = f
        /\ \A i \in 1..Len(chain[c]) : chain'[c][i] = chain[c][i]
        /\ \A d \in Dirs \ {c} : chain'[d] = chain[d]
    BY <1>1, <1>3, <2>1, <2>2 DEF Pcs
  <2>4. \A d \in Dirs : \A i \in 1..Len(chain[d]) : chain[d][i] \in Tasks \ {f}
    BY <1>1 DEF IInv, Chains, Members, Before
  <2>5. Len(chain[c]) \in Nat
    BY <2>2
  <2>6. Members'
    <3> SUFFICES ASSUME NEW d \in Dirs, NEW i \in 1..Len(chain'[d])
                 PROVE  DirOf(chain'[d][i]) = d /\ pc'[chain'[d][i]] \notin Before
      BY DEF Members, DirOf
    <3>1. CASE d = c /\ i = Len(chain[c]) + 1
      BY <1>1, <2>1, <2>2, <2>3, <3>1 DEF Before
    <3>2. CASE i \in 1..Len(chain[d])
      <4>1. chain'[d][i] = chain[d][i] /\ chain[d][i] \in Tasks \ {f}
        BY <2>3, <2>4, <3>2
      <4> QED
        BY <2>1, <3>2, <4>1 DEF IInv, Chains, Members
    <3> QED
      BY <2>3, <2>5, <3>1, <3>2
  <2>7. ASSUME NEW d \in Dirs PROVE Distinct(chain[d])'
    <3>1. Distinct(chain[d])
      BY DEF IInv, Chains
    <3>2. CASE d = c
      BY <2>3, <2>4, <2>5, <3>1, <3>2 DEF Distinct
    <3>3. CASE d # c
      BY <2>3, <3>1, <3>3 DEF Distinct
    <3> QED
      BY <3>2, <3>3
  <2>8. InOrder'
    <3> SUFFICES ASSUME NEW d \in Dirs, NEW i \in 1..Len(chain'[d]), NEW j \in 1..Len(chain'[d]),
                        j < i, pc'[chain'[d][i]] # "chained"
                 PROVE  pc'[chain'[d][j]] = "done"
      BY DEF InOrder
    <3>1. chain'[d][i] # f
      BY <1>1, <2>1
    <3>2. /\ i \in 1..Len(chain[d]) /\ j \in 1..Len(chain[d])
          /\ chain'[d][i] = chain[d][i] /\ chain'[d][j] = chain[d][j]
      BY <2>2, <2>3, <2>5, <3>1
    <3> QED
      BY <1>1, <2>1, <2>4, <3>2 DEF IInv, Chains, InOrder
  <2>9. Covered'
    <3> USE <1>5
    <3> SUFFICES ASSUME NEW g \in ItemSet, pc'[g] \notin Before \cup {"done"}
                 PROVE  \E i \in 1..Len(chain'[DirOf(g)]) : chain'[DirOf(g)][i] = g
      BY DEF Covered, DirOf
    <3>1. CASE g = f
      BY <2>2, <2>3, <2>5, <3>1
    <3>2. CASE g # f
      <4>1. PICK i \in 1..Len(chain[DirOf(g)]) : chain[DirOf(g)][i] = g
        BY <1>1, <2>1, <3>2 DEF IInv, Chains, Covered
      <4>2. DirOf(g) \in Dirs
        BY <1>1, DirOfType
      <4> QED
        BY <2>2, <2>3, <2>5, <4>1, <4>2
    <3> QED
      BY <3>1, <3>2
  <2>10. Standing(queue, "queued")' /\ Standing(waiters, "waiting")'
    BY <1>1, <2>1 DEF Standing, Distinct
  <2>11. Aside'
    BY <1>1, <1>3, <2>1 DEF IInv, Aside, Tasks
  <2> QED
    BY <1>1, <2>1, <2>3, <2>6, <2>7, <2>8, <2>9, <2>10, <2>11 DEF IInv, Shape, Chains
<1>6. CASE ~cancelled /\ ~SerializeByDir
  <2>1. Acquire(f) /\ UNCHANGED <<queue, chain>>
    BY <1>6 DEF Start
  <2>2. /\ pc'[f] \in {"waiting"} \cup Under /\ pc' \in [Tasks -> Pcs]
        /\ \A g \in Tasks \ {f} : pc'[g] = pc[g]
        /\ waiters' \in Seq(ItemSet) /\ Standing(waiters, "waiting")'
    BY <1>1, <1>3, <2>1, Acquired
  <2>3. \A d \in Dirs : \A i \in 1..Len(chain[d]) : chain[d][i] \in Tasks \ {f}
    BY <1>1 DEF IInv, Chains, Members, Before
  <2>4. Members' /\ InOrder' /\ \A d \in Dirs : Distinct(chain[d])'
    <3>1. Members'
      BY <2>1, <2>2, <2>3 DEF IInv, Chains, Members, DirOf
    <3>2. InOrder'
      BY <2>1, <2>2, <2>3 DEF IInv, Chains, InOrder
    <3>3. \A d \in Dirs : Distinct(chain[d])'
      BY <2>1 DEF IInv, Chains, Distinct
    <3> QED
      BY <3>1, <3>2, <3>3
  <2>5. Covered'
    BY <1>6 DEF Covered
  <2>6. Standing(queue, "queued")'
    BY <1>1, <2>1, <2>2 DEF Standing, Distinct
  <2>7. Aside'
    BY <1>1, <1>3, <2>2 DEF IInv, Aside, Tasks
  <2> QED
    BY <1>1, <2>1, <2>2, <2>4, <2>5, <2>6, <2>7 DEF IInv, Shape, Chains
<1> QED
  BY <1>4, <1>5, <1>6

\* The head of a chain, or one whose predecessor is over, goes on.
LEMMA RunOneKeeps ==
  ASSUME IInv, NEW f \in Tasks, RunOne(f)
  PROVE  IInv'
<1>1. /\ pc \in [Tasks -> Pcs] /\ pc[f] = "chained" /\ chain \in [Dirs -> Seq(ItemSet)]
      /\ f \in ItemSet /\ Acquire(f) /\ UNCHANGED <<queue, chain>>
  BY PastLimiter DEF IInv, Shape, RunOne
<1>2. /\ pc'[f] \in {"waiting"} \cup Under /\ pc' \in [Tasks -> Pcs]
      /\ \A g \in Tasks \ {f} : pc'[g] = pc[g]
      /\ waiters' \in Seq(ItemSet) /\ Standing(waiters, "waiting")'
  BY <1>1, Acquired
<1>3. Aside' /\ f \notin Others /\ ItemSet \subseteq Tasks
  BY <1>1, <1>2, ItemsAssumption DEF IInv, Aside, Tasks
<1>4. Standing(queue, "queued")'
  <2>1. \A i \in 1..Len(queue) : queue[i] \in ItemSet
    BY DEF IInv, Shape
  <2> QED
    BY <1>1, <1>2, <1>3, <2>1 DEF IInv, Standing, Distinct, Tasks
<1>5. \A d \in Dirs : \A i \in 1..Len(chain[d]) : chain[d][i] \in Tasks
  BY <1>1, <1>3
<1>6. pc'[f] \notin Before \cup {"done", "chained"}
  BY <1>2 DEF Before, Under, OnWire
<1>7. Members'
  <2> SUFFICES ASSUME NEW d \in Dirs, NEW i \in 1..Len(chain[d])
               PROVE  DirOf(chain[d][i]) = d /\ pc'[chain[d][i]] \notin Before
    BY <1>1 DEF Members, DirOf
  <2>1. DirOf(chain[d][i]) = d /\ pc[chain[d][i]] \notin Before
    BY DEF IInv, Chains, Members
  <2> QED
    BY <1>2, <1>5, <1>6, <2>1
<1>8. Covered'
  BY <1>1, <1>2, <1>3, <1>6 DEF IInv, Chains, Covered, Before, DirOf
<1>9. \A d \in Dirs : Distinct(chain[d])'
  BY <1>1 DEF IInv, Chains, Distinct
<1>10. InOrder'
  <2> SUFFICES ASSUME NEW d \in Dirs, NEW i \in 1..Len(chain[d]), NEW j \in 1..Len(chain[d]),
                      j < i, pc'[chain[d][i]] # "chained"
               PROVE  pc'[chain[d][j]] = "done"
    BY <1>1 DEF InOrder
  <2>1. pc[chain[d][j]] = "done" => pc'[chain[d][j]] = "done"
    BY <1>1, <1>2, <1>5
  <2>2. CASE chain[d][i] # f
    BY <1>2, <1>5, <2>1, <2>2 DEF IInv, Chains, InOrder
  <2>3. CASE chain[d][i] = f
    <3>1. d = DirOf(f)
      BY <2>3 DEF IInv, Chains, Members
    <3>2. PICK k \in 1..Len(chain[d]) :
              chain[d][k] = f /\ (k > 1 => pc[chain[d][k - 1]] = "done")
      BY <3>1 DEF RunOne, Turn
    <3>3. k = i
      BY <2>3, <3>2 DEF IInv, Chains, Distinct
    <3>4. i - 1 \in 1..Len(chain[d]) /\ pc[chain[d][i - 1]] = "done"
      BY <3>2, <3>3
    <3>5. CASE j = i - 1
      BY <2>1, <3>4, <3>5
    <3>6. CASE j < i - 1
      BY <2>1, <3>4, <3>6 DEF IInv, Chains, InOrder
    <3> QED
      BY <3>5, <3>6
  <2> QED
    BY <2>2, <2>3
<1> QED
  BY <1>1, <1>2, <1>3, <1>4, <1>7, <1>8, <1>9, <1>10 DEF IInv, Shape, Chains
-----------------------------------------------------------------------------
(* The client's requests and answers. *)

Progress(f) == \/ \E label \in Under : \E r : Step(f, label, r)
               \/ \E r : Finish(f, r)

LEMMA ProgressKeeps ==
  ASSUME IInv, NEW f \in Tasks, pc[f] \in Under, Progress(f)
  PROVE  IInv'
  BY StepKeeps, FinishKeeps DEF Progress

LEMMA Requests ==
  ASSUME NEW f \in Tasks
  PROVE  /\ \A dir : AfterFolders(f, dir) => Progress(f)
         /\ \A r : Recover(f, r) => Progress(f)
         /\ \A err : Fails(f, err) => Progress(f)
         /\ \A r : AfterDiscard(f, r) => Progress(f)
<1>1. {"write", "ask", "discard"} \subseteq Under
  BY DEF Under, OnWire
<1>2. ASSUME NEW dir, AfterFolders(f, dir) PROVE Progress(f)
  BY <1>1, <1>2 DEF AfterFolders, GiveUp, Progress
<1>3. ASSUME NEW r, Recover(f, r) PROVE Progress(f)
  BY <1>1, <1>3 DEF Recover, Progress
<1>4. ASSUME NEW err, Fails(f, err) PROVE Progress(f)
  BY <1>1, <1>4 DEF Fails, GiveUp, Progress
<1>5. ASSUME NEW r, AfterDiscard(f, r) PROVE Progress(f)
  BY <1>1, <1>5 DEF AfterDiscard, Progress
<1> QED
  BY <1>2, <1>3, <1>4, <1>5

OwnStep(f) == \/ EnsureLevel(f) \/ FolderFailed(f)
              \/ Written(f) \/ MissingParent(f) \/ WriteFails(f)
              \/ ChunkSent(f) \/ ChunkFails(f) \/ Verify(f)
              \/ Discard(f) \/ DiscardFails(f)

LEMMA OwnStepProgress ==
  ASSUME NEW f \in Tasks, OwnStep(f)
  PROVE  pc[f] \in Under /\ Progress(f)
<1> USE Requests
<1>1. {"write", "ask", "nodir", "session", "chunk", "verify", "discard", "join", "mkcol"} \subseteq Under
  BY DEF Under, OnWire
<1>2. CASE EnsureLevel(f)
  BY <1>1, <1>2 DEF EnsureLevel, Progress
<1>3. CASE FolderFailed(f)
  BY <1>1, <1>3 DEF FolderFailed
<1>4. CASE Written(f)
  BY <1>1, <1>4 DEF Written, GiveUp, Progress
<1>5. CASE MissingParent(f)
  BY <1>1, <1>5 DEF MissingParent
<1>6. CASE WriteFails(f)
  BY <1>1, <1>6 DEF WriteFails
<1>7. CASE ChunkSent(f)
  BY <1>1, <1>7 DEF ChunkSent, Progress
<1>8. CASE ChunkFails(f)
  BY <1>1, <1>8 DEF ChunkFails
<1>9. CASE Verify(f)
  BY <1>1, <1>9 DEF Verify, GiveUp, Progress
<1>10. CASE Discard(f) \/ DiscardFails(f)
  BY <1>1, <1>10 DEF Discard, DiscardFails
<1> QED
  BY <1>2, <1>3, <1>4, <1>5, <1>6, <1>7, <1>8, <1>9, <1>10 DEF OwnStep

LEMMA OwnStepKeeps ==
  ASSUME IInv, NEW f \in Tasks, OwnStep(f)
  PROVE  IInv'
  BY OwnStepProgress, ProgressKeeps

\* The answer to a MKCOL moves everyone who waited for it.
LEMMA MkcolKeeps ==
  ASSUME IInv, NEW f \in Tasks, MkcolProves(f) \/ MkcolFails(f)
  PROVE  IInv'
<1>1. PICK label \in {"ask", "nodir"} :
          pc' = [g \in Tasks |-> IF g \in Waiting(f) THEN label ELSE pc[g]]
  BY DEF MkcolProves, MkcolFails
<1>2. UNCHANGED <<queue, chain, waiters>>
  BY DEF MkcolProves, MkcolFails, limits
<1>3. \A g \in Waiting(f) : pc[g] \in Under
  BY DEF Waiting, MkcolProves, MkcolFails, Under, OnWire
<1>4. pc' \in [Tasks -> Pcs]
  BY <1>1 DEF IInv, Shape, Pcs
<1>5. Aside'
  BY <1>1 DEF IInv, Aside, Under, Tasks
<1>6. \A g \in ItemSet : pc'[g] = pc[g] \/ (pc[g] \in Under /\ pc'[g] \in Under)
  BY <1>1, <1>3 DEF Under, Tasks
<1> QED
  BY <1>2, <1>4, <1>5, <1>6, UnderWay

LEMMA StartOtherKeeps ==
  ASSUME IInv, NEW f \in Tasks, StartOther(f)
  PROVE  IInv'
<1>1. f \in Others /\ f \notin ItemSet /\ pc' = [pc EXCEPT ![f] = "ask"]
  BY ItemsAssumption DEF StartOther, Goto
<1>2. UNCHANGED <<queue, chain, waiters>>
  BY DEF StartOther, limits
<1>3. pc' \in [Tasks -> Pcs]
  BY <1>1 DEF IInv, Shape, Pcs
<1>4. Aside'
  BY <1>1 DEF IInv, Shape, Aside, Under, Tasks
<1>5. \A g \in ItemSet : pc'[g] = pc[g]
  BY <1>1 DEF IInv, Shape, Tasks
<1> QED
  BY <1>2, <1>3, <1>4, <1>5, UnderWay

\* Nothing else touches a task's place, the limiter or the chains.
LEMMA StutterKeeps ==
  ASSUME IInv, UNCHANGED <<limits, pc>>
  PROVE  IInv'
<1>1. UNCHANGED <<queue, chain, waiters>> /\ pc' = pc
  BY DEF limits
<1>2. pc' \in [Tasks -> Pcs] /\ Aside'
  BY <1>1 DEF IInv, Shape, Aside
<1> QED
  BY <1>1, <1>2, UnderWay
-----------------------------------------------------------------------------
LEMMA InitHolds == Init => IInv
<1> SUFFICES ASSUME Init PROVE IInv
  OBVIOUS
<1>1. Items \in Seq(ItemSet) /\ Limit \in Nat /\ Len(Items) \in Nat
  BY ItemsAssumption, NumbersAssumption
<1>2. queue = SubSeq(Items, Limit + 1, Len(Items)) /\ waiters = <<>>
      /\ chain = [d \in Dirs |-> <<>>]
  BY DEF Init
<1>3. pc = [f \in Tasks |-> IF f \in Others THEN "idle"
                            ELSE IF \E i \in 1..Len(Items) : i <= Limit /\ Items[i] = f
                            THEN "started" ELSE "queued"]
  BY DEF Init
<1>4. queue \in Seq(ItemSet) /\ Standing(queue, "queued")
  <2>1. CASE Limit >= Len(Items)
    <3>1. queue = <<>>
      BY <1>1, <1>2, <2>1
    <3> QED
      BY <3>1 DEF Standing, Distinct
  <2>2. CASE Limit < Len(Items)
    <3>1. /\ queue \in Seq(ItemSet) /\ Len(queue) = Len(Items) - Limit
          /\ \A i \in 1..(Len(Items) - Limit) : queue[i] = Items[Limit + i]
      BY <1>1, <1>2, <2>2, SuffixType
    <3>2. ASSUME NEW i \in 1..Len(queue) PROVE pc[queue[i]] = "queued"
      <4>1. Limit + i \in 1..Len(Items) /\ queue[i] = Items[Limit + i] /\ queue[i] \in ItemSet
        BY <1>1, <3>1
      <4>2. \A j \in 1..Len(Items) : Items[j] = queue[i] => j = Limit + i
        BY <4>1, ItemsAssumption
      <4>3. queue[i] \in Tasks /\ queue[i] \notin Others
        BY <4>1, ItemsAssumption DEF Tasks
      <4>4. ~\E j \in 1..Len(Items) : j <= Limit /\ Items[j] = queue[i]
        BY <1>1, <4>2
      <4> QED
        BY <1>3, <4>3, <4>4
    <3>3. Distinct(queue)
      <4> SUFFICES ASSUME NEW i \in 1..Len(queue), NEW j \in 1..Len(queue), queue[i] = queue[j]
                   PROVE  i = j
        BY DEF Distinct
      <4>1. Limit + i \in 1..Len(Items) /\ Limit + j \in 1..Len(Items)
            /\ Items[Limit + i] = Items[Limit + j]
        BY <1>1, <3>1
      <4>2. Limit + i = Limit + j
        BY <4>1, ItemsAssumption
      <4> QED
        BY <1>1, <3>1, <4>2
    <3> QED
      BY <3>1, <3>2, <3>3 DEF Standing
  <2> QED
    BY <1>1, <2>1, <2>2
<1>5. Shape
  BY <1>2, <1>3, <1>4 DEF Shape, Pcs
<1>6. Aside
  BY <1>3 DEF Aside, Tasks
<1>7. Standing(waiters, "waiting")
  BY <1>2 DEF Standing, Distinct
<1>8. Chains
  <2>1. \A d \in Dirs : Len(chain[d]) = 0
    BY <1>2
  <2>2. \A f \in ItemSet : pc[f] \in Before
    BY <1>3, ItemsAssumption DEF Before, Tasks
  <2> QED
    BY <2>1, <2>2 DEF Chains, Members, InOrder, Covered, Distinct
<1> QED
  BY <1>4, <1>5, <1>6, <1>7, <1>8 DEF IInv

LEMMA NextKeeps ==
  ASSUME IInv, [Next]_vars
  PROVE  IInv'
<1>1. ASSUME NEW f \in Tasks, Callback(f) PROVE IInv'
  BY <1>1, StartKeeps, RunOneKeeps, OwnStepKeeps DEF Callback, OwnStep
<1>2. ASSUME NEW f \in Tasks, Answer(f) PROVE IInv'
  BY <1>2, OwnStepKeeps, MkcolKeeps DEF Answer, OwnStep
<1>3. ASSUME NEW f \in Tasks, StartOther(f) PROVE IInv'
  BY <1>3, StartOtherKeeps
<1>4. CASE (\E d \in Dirs : ForeignRemove(d)) \/ RequestStop
  BY <1>4, StutterKeeps DEF ForeignRemove, RequestStop
<1>5. CASE UNCHANGED vars
  BY <1>5, StutterKeeps DEF vars, limits
<1> QED
  BY <1>1, <1>2, <1>3, <1>4, <1>5 DEF Next, Event

\* Two uploads under way in one directory would both have the other before them.
LEMMA Exclusive == IInv => DirectoryIsExclusive
<1> SUFFICES ASSUME IInv, SerializeByDir, NEW f \in Transferring, NEW g \in Transferring, f # g, DirOf(f) = DirOf(g)
             PROVE  FALSE
  BY DEF DirectoryIsExclusive
<1>1. /\ f \in ItemSet /\ g \in ItemSet
      /\ pc[f] \in Under /\ pc[g] \in Under
  BY DEF Transferring, Under
<1>2. \A h \in ItemSet : pc[h] \in Under => pc[h] \notin Before \cup {"done", "chained"}
  BY DEF Under, OnWire, Before
<1> DEFINE c == chain[DirOf(f)]
<1>3. PICK i \in 1..Len(c), j \in 1..Len(c) : c[i] = f /\ c[j] = g
  BY <1>1, <1>2 DEF IInv, Chains, Covered
<1>4. DirOf(f) \in Dirs /\ Len(c) \in Nat
  BY <1>1, DirOfType DEF IInv, Shape, Tasks
<1>5. i # j /\ i \in Nat /\ j \in Nat
  BY <1>3, <1>4
<1>6. (j < i => pc[g] = "done") /\ (i < j => pc[f] = "done")
  BY <1>1, <1>2, <1>3, <1>4 DEF IInv, Chains, InOrder
<1> QED
  BY <1>1, <1>2, <1>5, <1>6

\* runFileBatch: while one file is under way, whether its body, its folders or its
\* chunks, no other file of its directory is; no upload of a batch is refused
\* because of another one.
THEOREM OneUploadPerDirectory == Spec => []DirectoryIsExclusive
<1> QED
  BY InitHolds, NextKeeps, Exclusive, PTL DEF Spec
-----------------------------------------------------------------------------
(* What a task has learned of its folders, and its session on the server.  *)

Asking == {"ask", "join", "mkcol"}
Early == {"idle", "queued", "started", "chained", "waiting"}

\* Where a task is tells what it is and which write of the pair is next.
Sound(f) ==
    /\ op[f].level <= Len(Above[f])
    /\ pc[f] \in {"session", "chunk", "verify", "discard"} => Chunked(f)
    /\ pc[f] \in Early \cup {"session", "chunk"} => op[f].try = 1
    /\ How[f] # "move" /\ pc[f] \in Asking \cup {"nodir"} => op[f].try = 2
    /\ Chunked(f) /\ pc[f] = "write" => op[f].try = 2
    /\ pc[f] = "nodir" => op[f].dir # "ok"
    /\ op[f].err = "missing" => pc[f] = "discard"
    /\ op[f].result = "missing" => pc[f] = "done"
\* A session on the server belongs to an upload that will still discard it.
Pending(f) == f \in sessions =>
    op[f].leaked \/ (Chunked(f) /\ pc[f] \in Asking \cup {"chunk", "nodir", "write", "discard"})
\* A task that puts its folders back believes of them only what is so.
Backed(f) == op[f].try = 2 /\ ~op[f].gone =>
    /\ pc[f] \in Asking => /\ AboveSet(f) \cap proven \subseteq srvDirs
                           /\ \A i \in 1..op[f].level - 1 : Above[f][i] \in srvDirs
    /\ pc[f] = "write" /\ op[f].dir = "ok" => AboveSet(f) \subseteq srvDirs
Blamed(f) == "missing" \in {op[f].err, op[f].result} => op[f].dir # "ok" \/ op[f].gone
Known(f) == Sound(f) /\ Pending(f) /\ Backed(f) /\ Blamed(f)
Learned == op \in [Tasks -> Record] /\ sessions \subseteq Tasks /\ \A f \in Tasks : Known(f)

LEMMA MinIs ==
  ASSUME NEW S \in SUBSET Nat, S # {}
  PROVE  Min(S) \in S /\ \A i \in S : Min(S) <= i
<1>1. PICK x \in S : \A y \in S : ~(<<y, x>> \in OpToRel(<, Nat))
  BY NatLessThanWellFounded, WFMin
<1>2. ASSUME NEW y \in S PROVE x <= y
  <2>1. x \in Nat /\ y \in Nat
    OBVIOUS
  <2>2. ~(y < x)
    BY <1>1, <2>1, Zenon DEF OpToRel
  <2> QED
    BY <2>1, <2>2
<1> QED
  BY <1>2 DEF Min

\* A task that another one's step does not concern, or lets go on.
Moves(g) == \/ pc'[g] = pc[g]
            \/ pc[g] = "waiting" /\ pc'[g] = First(g)
            \/ pc[g] = "queued" /\ pc'[g] = "started"
            \/ pc[g] = "join" /\ pc'[g] = "ask"
Goes(f, label, r) == /\ op' = [op EXCEPT ![f] = r] /\ pc'[f] = label
                     /\ \A g \in Tasks \ {f} : Moves(g)

LEMMA OpIs ==
  ASSUME Learned, NEW f \in Tasks
  PROVE  /\ op[f] \in Record /\ op[f].level \in Nat \ {0} /\ op[f].try \in {1, 2}
         /\ op[f].dir \in {"ok", "refused", "lost"} /\ op[f].gone \in BOOLEAN
         /\ op[f].fell \in BOOLEAN /\ op[f].leaked \in BOOLEAN /\ op[f].chunk \in Nat
         /\ Above[f] \in Seq(Dirs) /\ Len(Above[f]) \in Nat \ {0} /\ AboveSet(f) \subseteq Dirs
         /\ DirOf(f) \in AboveSet(f)
         /\ How[f] \in Kinds
<1>1. op[f] \in Record
  BY DEF Learned
<1>2. Above[f] \in Seq(Dirs) /\ Above[f] # <<>>
  BY AboveAssumption
<1>3. Len(Above[f]) \in Nat \ {0} /\ AboveSet(f) \subseteq Dirs
  BY <1>2 DEF AboveSet
<1>4. DirOf(f) \in AboveSet(f)
  BY <1>3 DEF DirOf, AboveSet
<1> QED
  BY <1>1, <1>2, <1>3, <1>4, HowAssumption DEF Record

LEMMA ElsewhereKeeps ==
  ASSUME Learned, NEW g \in Tasks, op'[g] = op[g], Moves(g),
         srvDirs \subseteq srvDirs', proven' \subseteq proven \cup srvDirs',
         g \in sessions' => g \in sessions
  PROVE  Known(g)'
<1>1. Known(g) /\ op[g].try \in {1, 2}
  BY OpIs DEF Learned
<1>2. First(g) = IF Chunked(g) THEN "session" ELSE "write"
  BY DEF First
<1>3. Chunked(g)' = Chunked(g) /\ AboveSet(g)' = AboveSet(g)
  BY DEF Chunked, AboveSet
<1> USE DEF Moves, Asking, Early
<1>4. Sound(g)'
  BY <1>1, <1>2, <1>3 DEF Known, Sound
<1>5. Pending(g)'
  BY <1>1, <1>2, <1>3 DEF Known, Pending
<1>6. Backed(g)'
  BY <1>1, <1>2, <1>3 DEF Known, Sound, Backed
<1>7. Blamed(g)'
  BY <1>1, <1>3 DEF Known, Blamed
<1> QED
  BY <1>4, <1>5, <1>6, <1>7 DEF Known

\* One task's step, if what it knows then is so.
LEMMA GoesKeeps ==
  ASSUME Learned, NEW f \in Tasks, NEW label, NEW r \in Record, Goes(f, label, r),
         srvDirs \subseteq srvDirs', proven' \subseteq proven \cup srvDirs',
         sessions' \subseteq sessions \cup {f},
         Known(f)'
  PROVE  Learned'
<1>1. op \in [Tasks -> Record] /\ op' = [op EXCEPT ![f] = r]
  BY DEF Learned, Goes
<1>2. op' \in [Tasks -> Record]
  BY <1>1
<1>3. ASSUME NEW g \in Tasks \ {f} PROVE Known(g)'
  <2>1. op'[g] = op[g] /\ Moves(g) /\ (g \in sessions' => g \in sessions)
    BY <1>1 DEF Goes
  <2> QED
    BY <2>1, ElsewhereKeeps
<1> QED
  BY <1>2, <1>3 DEF Learned

LEMMA StepGoes ==
  ASSUME IInv, NEW f \in Tasks, NEW label, NEW r, Step(f, label, r) \/ Goto(f, label, r)
  PROVE  Goes(f, label, r)
<1>1. pc' = [pc EXCEPT ![f] = label] /\ op' = [op EXCEPT ![f] = r] /\ pc \in [Tasks -> Pcs]
  BY DEF Step, Goto, IInv, Shape
<1> QED
  BY <1>1 DEF Goes, Moves

LEMMA FinishGoes ==
  ASSUME IInv, NEW f \in Tasks, NEW r, Finish(f, r)
  PROVE  Goes(f, "done", r)
<1>1. /\ pc \in [Tasks -> Pcs] /\ ItemSet \subseteq Tasks
      /\ waiters \in Seq(ItemSet) /\ Standing(waiters, "waiting") /\ Standing(queue, "queued")
      /\ queue \in Seq(ItemSet)
  BY DEF IInv, Shape, Tasks
<1>2. CASE f \in Others
  BY <1>1, <1>2 DEF Finish, Goes, Moves
<1>3. CASE f \notin Others
  <2> DEFINE n == Granted(free + Need(f))
             woken == {waiters[i] : i \in 1..n}
  <2>1. /\ pc' = [g \in Tasks |-> IF g = f THEN "done" ELSE IF g \in woken THEN First(g)
                                  ELSE SlotTo(pc[g], g)]
        /\ op' = [op EXCEPT ![f] = r]
    BY <1>3 DEF Finish
  <2>2. n \in 0..Len(waiters)
    BY <1>1, GrantedType
  <2> HIDE DEF n
  <2>3. \A g \in woken : pc[g] = "waiting" /\ g \in ItemSet
    BY <1>1, <2>2 DEF Standing
  <2>5. \A g \in Tasks : SlotTo(pc[g], g) = pc[g] \/ (pc[g] = "queued" /\ SlotTo(pc[g], g) = "started")
    BY <1>1 DEF SlotTo, Standing
  <2> QED
    BY <2>1, <2>3, <2>5 DEF Goes, Moves
<1> QED
  BY <1>2, <1>3
-----------------------------------------------------------------------------
(* What is learned stays so, action by action. *)

LEMMA AcquireGoes ==
  ASSUME IInv, NEW f \in Tasks, Acquire(f)
  PROVE  Goes(f, First(f), op[f]) \/ Goes(f, "waiting", op[f])
  BY StepGoes DEF Acquire

LEMMA StartLearned ==
  ASSUME IInv, Learned, NEW f \in Tasks, Start(f) \/ RunOne(f)
  PROVE  Learned'
<1>1. pc[f] \in {"started", "chained"} /\ UNCHANGED <<proven, srvDirs, sessions>>
  BY DEF Start, RunOne, server
<1>2. Known(f) /\ op[f] \in Record
  BY OpIs DEF Learned
<1> DEFINE skip == [op[f] EXCEPT !.result = "skipped"]
<1>3. \/ Goes(f, "done", skip) \/ Goes(f, "chained", op[f])
      \/ Goes(f, First(f), op[f]) \/ Goes(f, "waiting", op[f])
  <2>1. CASE Start(f) /\ cancelled
    <3>1. /\ pc' = [g \in Tasks |-> IF g = f THEN "done" ELSE SlotTo(pc[g], g)]
          /\ op' = [op EXCEPT ![f] = skip]
      BY <2>1 DEF Start
    <3>2. \A g \in Tasks : SlotTo(pc[g], g) = pc[g] \/ (pc[g] = "queued" /\ SlotTo(pc[g], g) = "started")
      BY DEF SlotTo, Standing, IInv, Shape
    <3> QED
      BY <3>1, <3>2 DEF Goes, Moves
  <2>2. CASE Start(f) /\ ~cancelled
    BY <2>2, StepGoes, AcquireGoes DEF Start
  <2>3. CASE RunOne(f)
    BY <2>3, AcquireGoes DEF RunOne
  <2> QED
    BY <2>1, <2>2, <2>3
<1>4. PICK label, r : /\ Goes(f, label, r)
                      /\ \/ label = "done" /\ r = skip
                         \/ label \in {"chained", "waiting", First(f)} /\ r = op[f]
  BY <1>3
<1>5. /\ pc'[f] = label /\ op'[f] = r /\ r \in Record
      /\ r.level = op[f].level /\ r.try = op[f].try /\ r.dir = op[f].dir /\ r.err = op[f].err
      /\ r.fell = op[f].fell /\ r.leaked = op[f].leaked /\ r.gone = op[f].gone
      /\ (r.result = op[f].result \/ r.result = "skipped")
  BY <1>2, <1>4 DEF Goes, Record, Learned
<1>6. First(f) = IF Chunked(f) THEN "session" ELSE "write"
  BY DEF First
<1>7. Chunked(f)' = Chunked(f)
  BY <1>5 DEF Chunked
<1>8. Sound(f) /\ Sound(f)'
  BY <1>1, <1>2, <1>4, <1>5, <1>6, <1>7 DEF Known, Sound, Early, Asking
<1>9. Pending(f)'
  BY <1>1, <1>2, <1>5 DEF Known, Pending, Asking
<1>10. Backed(f)' /\ Blamed(f)'
  BY <1>1, <1>2, <1>5, <1>8 DEF Known, Sound, Backed, Blamed, Early
<1> QED
  BY <1>1, <1>4, <1>5, <1>8, <1>9, <1>10, GoesKeeps DEF Known

LEMMA StartOtherLearned ==
  ASSUME IInv, Learned, NEW f \in Tasks, StartOther(f)
  PROVE  Learned'
<1>1. Goes(f, "ask", op[f]) /\ UNCHANGED <<proven, srvDirs, sessions>>
  BY StepGoes DEF StartOther, server
<1>2. Known(f) /\ op[f] \in Record /\ pc[f] = "idle" /\ How[f] = "move"
  BY OpIs, HowAssumption DEF Learned, StartOther
<1>3. pc'[f] = "ask" /\ op'[f] = op[f]
  BY <1>1, <1>2 DEF Goes, Learned
<1>4. Sound(f) /\ Sound(f)' /\ op[f].try = 1
  BY <1>2, <1>3 DEF Known, Sound, Early, Asking, Chunked
<1>5. Pending(f)' /\ Backed(f)' /\ Blamed(f)'
  BY <1>1, <1>2, <1>3, <1>4 DEF Known, Pending, Backed, Blamed, Asking, Chunked
<1> QED
  BY <1>1, <1>2, <1>4, <1>5, GoesKeeps DEF Known

\* A folder below the first unproven one is there: it was asked for, or believed.
LEMMA BelowIsThere ==
  ASSUME Learned, NEW f \in Tasks, pc[f] = "ask", op[f].try = 2, ~op[f].gone,
         NEW k \in 1..Len(Above[f]), k \notin Unproven(f)
  PROVE  Above[f][k] \in srvDirs
<1>1. op[f].level \in Nat \ {0} /\ Len(Above[f]) \in Nat /\ Above[f][k] \in AboveSet(f)
  BY OpIs DEF AboveSet
<1>2. /\ AboveSet(f) \cap proven \subseteq srvDirs
      /\ \A i \in 1..op[f].level - 1 : Above[f][i] \in srvDirs
  BY DEF Learned, Known, Backed, Asking
<1>3. k \in 1..op[f].level - 1 \/ Above[f][k] \in proven
  BY <1>1 DEF Unproven
<1> QED
  BY <1>1, <1>2, <1>3

\* The write goes out when the folders are there, or could not be made.
LEMMA FoldersLearned ==
  ASSUME IInv, Learned, NEW f \in Tasks, NEW dir \in {"ok", "refused", "lost"}, AfterFolders(f, dir),
         \/ pc[f] = "ask" /\ dir = "ok" /\ Unproven(f) = {}
         \/ pc[f] = "nodir" /\ dir # "ok",
         UNCHANGED <<proven, srvDirs, sessions>>
  PROVE  Learned'
<1>1. Known(f) /\ op[f] \in Record /\ op[f].try \in {1, 2}
  BY OpIs DEF Learned
<1> DEFINE told == [op[f] EXCEPT !.dir = dir]
           lost == [op[f] EXCEPT !.result = "net"]
<1>2. told \in Record /\ lost \in Record
  BY <1>1 DEF Record
<1>3. /\ told.dir = dir /\ told.level = op[f].level /\ told.try = op[f].try /\ told.err = op[f].err
      /\ told.fell = op[f].fell /\ told.leaked = op[f].leaked /\ told.gone = op[f].gone
      /\ told.result = op[f].result
      /\ lost.result = "net" /\ lost.level = op[f].level /\ lost.try = op[f].try
      /\ lost.err = op[f].err /\ lost.dir = op[f].dir
      /\ lost.fell = op[f].fell /\ lost.leaked = op[f].leaked /\ lost.gone = op[f].gone
  BY <1>1 DEF Record
<1> HIDE DEF told, lost
<1>4. \/ How[f] = "move" /\ op[f].try = 1 /\ Goes(f, "write", op[f])
      \/ (How[f] # "move" \/ op[f].try = 2) /\ Goes(f, "write", told)
      \/ dir = "lost" /\ ~Chunked(f) /\ Goes(f, "done", lost)
  <2>1. CASE How[f] = "move" /\ op[f].try = 1
    <3>1. Step(f, "write", op[f])
      BY <2>1 DEF AfterFolders
    <3> QED
      BY <2>1, <3>1, StepGoes
  <2>2. CASE ~(How[f] = "move" /\ op[f].try = 1) /\ (Chunked(f) \/ dir # "lost")
    <3>1. Step(f, "write", told)
      BY <2>2 DEF AfterFolders, told
    <3> QED
      BY <1>1, <2>2, <3>1, StepGoes
  <2>3. CASE ~(How[f] = "move" /\ op[f].try = 1) /\ ~(Chunked(f) \/ dir # "lost")
    <3>1. Finish(f, lost)
      BY <2>3 DEF AfterFolders, GiveUp, lost
    <3> QED
      BY <2>3, <3>1, FinishGoes
  <2> QED
    BY <2>1, <2>2, <2>3
<1>5. PICK label, r : /\ Goes(f, label, r)
                      /\ \/ How[f] = "move" /\ op[f].try = 1 /\ label = "write" /\ r = op[f]
                         \/ (How[f] # "move" \/ op[f].try = 2) /\ label = "write" /\ r = told
                         \/ dir = "lost" /\ ~Chunked(f) /\ label = "done" /\ r = lost
  BY <1>4
<1>6. pc'[f] = label /\ op'[f] = r /\ r \in Record
  BY <1>1, <1>2, <1>5 DEF Goes, Learned
<1>7. Chunked(f)' = Chunked(f) /\ AboveSet(f)' = AboveSet(f)
  BY <1>3, <1>5, <1>6 DEF Chunked, AboveSet
<1>8. Sound(f) /\ Sound(f)'
  BY <1>1, <1>3, <1>5, <1>6, <1>7 DEF Known, Sound, Early, Asking, Chunked
<1>9. Pending(f)'
  BY <1>1, <1>3, <1>5, <1>6, <1>7 DEF Known, Pending, Asking, Chunked
<1>10. Backed(f)'
  <2>1. ASSUME pc'[f] = "write", op'[f].try = 2, ~op'[f].gone, op'[f].dir = "ok"
        PROVE  AboveSet(f) \subseteq srvDirs
    <3>1. r = told /\ dir = "ok" /\ pc[f] = "ask" /\ Unproven(f) = {} /\ op[f].try = 2 /\ ~op[f].gone
      BY <1>1, <1>3, <1>5, <1>6, <2>1
    <3> QED
      BY <3>1, BelowIsThere DEF AboveSet
  <2> QED
    BY <1>5, <1>6, <1>7, <2>1 DEF Backed, Asking
<1>11. Blamed(f)'
  BY <1>1, <1>3, <1>5, <1>6, <1>8 DEF Known, Sound, Blamed
<1> QED
  BY <1>5, <1>6, <1>8, <1>9, <1>10, <1>11, GoesKeeps DEF Known

LEMMA EnsureLearned ==
  ASSUME IInv, Learned, NEW f \in Tasks, EnsureLevel(f)
  PROVE  Learned'
<1>1. pc[f] = "ask" /\ UNCHANGED <<proven, srvDirs, sessions>>
  BY DEF EnsureLevel, server
<1>2. CASE Unproven(f) = {}
  BY <1>1, <1>2, FoldersLearned DEF EnsureLevel
<1>3. CASE Unproven(f) # {}
  <2> DEFINE i == Min(Unproven(f))
             r == [op[f] EXCEPT !.level = i]
  <2>1. Known(f) /\ op[f] \in Record /\ op[f].level \in Nat \ {0} /\ Len(Above[f]) \in Nat
    BY OpIs DEF Learned
  <2>2. Unproven(f) \in SUBSET Nat
    BY <2>1 DEF Unproven
  <2>3. i \in Unproven(f) /\ \A k \in Unproven(f) : i <= k
    BY <1>3, <2>2, MinIs
  <2>4. PICK label \in {"join", "mkcol"} : Goes(f, label, r)
    BY <1>3, StepGoes DEF EnsureLevel
  <2> HIDE DEF i
  <2>5. i \in 1..Len(Above[f])
    BY <2>1, <2>3 DEF Unproven
  <2>6. /\ r \in Record /\ r.level = i /\ r.try = op[f].try /\ r.err = op[f].err /\ r.dir = op[f].dir
        /\ r.result = op[f].result
        /\ r.fell = op[f].fell /\ r.leaked = op[f].leaked /\ r.gone = op[f].gone
    BY <2>1, <2>5 DEF Record
  <2> HIDE DEF r
  <2>7. pc'[f] = label /\ op'[f] = r
    BY <2>4 DEF Goes, Learned
  <2>8. Chunked(f)' = Chunked(f) /\ AboveSet(f)' = AboveSet(f)
    BY <2>6, <2>7 DEF Chunked, AboveSet
  <2>9. Sound(f)' /\ Pending(f)' /\ Blamed(f)'
    BY <1>1, <2>1, <2>5, <2>6, <2>7, <2>8 DEF Known, Sound, Pending, Blamed, Early, Asking
  <2>10. Backed(f)'
    <3> SUFFICES ASSUME op[f].try = 2, ~op[f].gone
                 PROVE  /\ AboveSet(f) \cap proven \subseteq srvDirs
                        /\ \A k \in 1..i - 1 : Above[f][k] \in srvDirs
      BY <1>1, <2>6, <2>7, <2>8 DEF Backed, Asking
    <3>1. AboveSet(f) \cap proven \subseteq srvDirs
      BY <1>1, <2>1 DEF Known, Backed, Asking
    <3>2. ASSUME NEW k \in 1..i - 1 PROVE Above[f][k] \in srvDirs
      <4>1. k \in 1..Len(Above[f]) /\ k \notin Unproven(f)
        BY <2>1, <2>3, <2>5
      <4> QED
        BY <1>1, <4>1, BelowIsThere
    <3> QED
      BY <3>1, <3>2
  <2> QED
    BY <1>1, <2>4, <2>6, <2>9, <2>10, GoesKeeps DEF Known
<1> QED
  BY <1>2, <1>3

LEMMA FolderFailedLearned ==
  ASSUME IInv, Learned, NEW f \in Tasks, FolderFailed(f)
  PROVE  Learned'
<1>1. pc[f] = "nodir" /\ AfterFolders(f, op[f].dir) /\ UNCHANGED <<proven, srvDirs, sessions>>
  BY DEF FolderFailed, server
<1>2. op[f].dir \in {"ok", "refused", "lost"} /\ op[f].dir # "ok"
  BY <1>1, OpIs DEF Learned, Known, Sound
<1> QED
  BY <1>1, <1>2, FoldersLearned

\* The answer to a MKCOL, for everyone who waited for it.
LEMMA MkcolLearned ==
  ASSUME IInv, Learned, NEW f \in Tasks, MkcolProves(f) \/ MkcolFails(f)
  PROVE  Learned'
<1>1. PICK label \in {"ask", "nodir"}, dir \in {"refused", "lost"} :
          /\ pc' = [g \in Tasks |-> IF g \in Waiting(f) THEN label ELSE pc[g]]
          /\ \/ label = "ask" /\ op' = op
             \/ label = "nodir" /\ op' = [g \in Tasks |-> IF g \in Waiting(f) THEN [op[g] EXCEPT !.dir = dir]
                                                          ELSE op[g]]
          /\ srvDirs \subseteq srvDirs' /\ proven' \subseteq proven \cup srvDirs'
          /\ sessions' = sessions
  BY DEF MkcolProves, MkcolFails
<1>2. op \in [Tasks -> Record] /\ op' \in [Tasks -> Record]
  BY <1>1 DEF Learned, Record
<1>3. ASSUME NEW g \in Tasks, g \notin Waiting(f) PROVE Known(g)'
  <2>1. op'[g] = op[g] /\ Moves(g)
    BY <1>1, <1>3 DEF Moves
  <2> QED
    BY <1>1, <2>1, ElsewhereKeeps
<1>4. ASSUME NEW g \in Waiting(f) PROVE Known(g)'
  <2>1. /\ g \in Tasks /\ pc[g] \in {"mkcol", "join"} /\ pc'[g] = label
        /\ Known(g) /\ op[g] \in Record /\ op[g].try \in {1, 2}
    BY <1>1, OpIs DEF Waiting, MkcolProves, MkcolFails, Learned
  <2>2. /\ op'[g].level = op[g].level /\ op'[g].try = op[g].try /\ op'[g].err = op[g].err
        /\ op'[g].fell = op[g].fell /\ op'[g].leaked = op[g].leaked /\ op'[g].gone = op[g].gone
        /\ op'[g].result = op[g].result
        /\ op'[g].dir = IF label = "ask" THEN op[g].dir ELSE dir
    BY <1>1, <1>4, <2>1 DEF Record
  <2>3. Chunked(g)' = Chunked(g) /\ AboveSet(g)' = AboveSet(g)
    BY <2>2 DEF Chunked, AboveSet
  <2>4. Sound(g) /\ Sound(g)'
    BY <2>1, <2>2, <2>3 DEF Known, Sound, Early, Asking
  <2>5. Pending(g)'
    BY <1>1, <2>1, <2>2, <2>3 DEF Known, Pending, Asking
  <2>6. Backed(g)'
    BY <1>1, <2>1, <2>2, <2>3 DEF Known, Backed, Asking
  <2>7. Blamed(g)'
    BY <2>1, <2>2, <2>4 DEF Known, Sound, Blamed
  <2> QED
    BY <2>4, <2>5, <2>6, <2>7 DEF Known
<1> QED
  BY <1>1, <1>2, <1>3, <1>4 DEF Learned

\* A failed upload discards its session, a failed write is over.
LEMMA FailsGoes ==
  ASSUME IInv, Learned, NEW f \in Tasks, NEW err \in {"missing", "net", "threw"}, Fails(f, err)
  PROVE  \/ Chunked(f) /\ Goes(f, "discard", [op[f] EXCEPT !.err = err])
         \/ ~Chunked(f) /\ Goes(f, "done", [op[f] EXCEPT !.result = err])
<1>1. CASE Chunked(f)
  <2>1. Step(f, "discard", [op[f] EXCEPT !.err = err])
    BY <1>1 DEF Fails
  <2> QED
    BY <1>1, <2>1, StepGoes
<1>2. CASE ~Chunked(f)
  <2>1. Finish(f, [op[f] EXCEPT !.result = err])
    BY <1>2 DEF Fails, GiveUp
  <2> QED
    BY <1>2, <2>1, FinishGoes
<1> QED
  BY <1>1, <1>2

LEMMA FailsLearned ==
  ASSUME IInv, Learned, NEW f \in Tasks, NEW err \in {"missing", "net", "threw"}, Fails(f, err),
         pc[f] \in {"write", "session", "chunk", "verify"},
         err = "missing" => op[f].dir # "ok" \/ op[f].gone,
         UNCHANGED <<proven, srvDirs>>, sessions' \subseteq sessions \cup {f},
         f \in sessions' => f \in sessions \/ Chunked(f)
  PROVE  Learned'
<1>1. Known(f) /\ op[f] \in Record /\ op[f].try \in {1, 2}
  BY OpIs DEF Learned
<1> DEFINE e == [op[f] EXCEPT !.err = err]
           d == [op[f] EXCEPT !.result = err]
<1>2. e \in Record /\ d \in Record
  BY <1>1 DEF Record
<1>3. /\ e.err = err /\ e.result = op[f].result /\ e.dir = op[f].dir /\ e.level = op[f].level
      /\ e.try = op[f].try /\ e.fell = op[f].fell /\ e.leaked = op[f].leaked /\ e.gone = op[f].gone
      /\ d.err = op[f].err /\ d.result = err /\ d.dir = op[f].dir /\ d.level = op[f].level
      /\ d.try = op[f].try /\ d.fell = op[f].fell /\ d.leaked = op[f].leaked /\ d.gone = op[f].gone
  BY <1>1 DEF Record
<1>4. \/ Chunked(f) /\ Goes(f, "discard", e)
      \/ ~Chunked(f) /\ Goes(f, "done", d)
  BY FailsGoes
<1> HIDE DEF e, d
<1>5. PICK label, r : /\ Goes(f, label, r)
                      /\ \/ Chunked(f) /\ label = "discard" /\ r = e
                         \/ ~Chunked(f) /\ label = "done" /\ r = d
  BY <1>4
<1>6. pc'[f] = label /\ op'[f] = r /\ r \in Record
  BY <1>1, <1>2, <1>5 DEF Goes, Learned
<1>7. Chunked(f)' = Chunked(f) /\ AboveSet(f)' = AboveSet(f)
  BY <1>3, <1>5, <1>6 DEF Chunked, AboveSet
<1>8. Sound(f) /\ Sound(f)'
  BY <1>1, <1>3, <1>5, <1>6, <1>7 DEF Known, Sound, Early, Asking
<1>9. Pending(f)'
  BY <1>1, <1>3, <1>5, <1>6, <1>7 DEF Known, Pending, Asking
<1>10. Backed(f)' /\ Blamed(f)'
  BY <1>1, <1>3, <1>5, <1>6, <1>8 DEF Known, Sound, Backed, Blamed, Asking
<1> QED
  BY <1>5, <1>6, <1>8, <1>9, <1>10, GoesKeeps DEF Known

\* What a write keeps when it begins again, and what it forgets.
LEMMA RetryRecord ==
  ASSUME NEW r \in Record
  PROVE  LET s == [r EXCEPT !.level = 1, !.try = 2, !.gone = FALSE]
         IN  /\ s \in Record /\ s.level = 1 /\ s.try = 2 /\ ~s.gone
             /\ s.err = r.err /\ s.result = r.result /\ s.dir = r.dir
             /\ s.fell = r.fell /\ s.leaked = r.leaked
<1> DEFINE s == [r EXCEPT !.level = 1, !.try = 2, !.gone = FALSE]
<1>1. s.level = 1 /\ s.try = 2
  BY DEF Record
<1>2. s.gone = FALSE
  BY Zenon DEF Record
<1>3. s \in Record
  <2>1. \A u \in Record : [u EXCEPT !.level = 1] \in Record
    BY DEF Record
  <2>2. \A u \in Record : [u EXCEPT !.try = 2] \in Record
    BY DEF Record
  <2>3. \A u \in Record : [u EXCEPT !.gone = FALSE] \in Record
    BY DEF Record
  <2>4. s = [[[r EXCEPT !.level = 1] EXCEPT !.try = 2] EXCEPT !.gone = FALSE]
    BY Zenon
  <2> QED
    BY <2>1, <2>2, <2>3, <2>4
<1>4. /\ s.err = r.err /\ s.result = r.result /\ s.dir = r.dir
      /\ s.fell = r.fell /\ s.leaked = r.leaked
  BY DEF Record
<1> QED
  BY <1>1, <1>2, <1>3, <1>4

\* The write begins to put its folders back, and believes none of them.
LEMMA RecoverLearned ==
  ASSUME IInv, Learned, NEW f \in Tasks, NEW r \in Record, Recover(f, r),
         \/ pc[f] = "write" /\ r = op[f] /\ ~Chunked(f) /\ UNCHANGED sessions
         \/ pc[f] \in {"session", "chunk"} /\ (\E n : r = [op[f] EXCEPT !.chunk = n])
            /\ sessions' = sessions \cup {f},
         UNCHANGED srvDirs
  PROVE  Learned'
<1>1. Known(f) /\ op[f] \in Record /\ Len(Above[f]) \in Nat \ {0}
  BY OpIs DEF Learned
<1> DEFINE s == [r EXCEPT !.level = 1, !.try = 2, !.gone = FALSE]
<1>2. Goes(f, "ask", s) /\ proven' = proven \ AboveSet(f)
  BY StepGoes DEF Recover, Forget
<1>3. /\ r.err = op[f].err /\ r.result = op[f].result /\ r.dir = op[f].dir
      /\ r.fell = op[f].fell /\ r.leaked = op[f].leaked
  BY <1>1 DEF Record
<1>4. /\ s \in Record /\ s.level = 1 /\ s.try = 2 /\ ~s.gone
      /\ s.err = op[f].err /\ s.result = op[f].result /\ s.dir = op[f].dir
      /\ s.fell = op[f].fell /\ s.leaked = op[f].leaked
  BY <1>3, RetryRecord
<1> HIDE DEF s
<1>5. pc'[f] = "ask" /\ op'[f] = s
  BY <1>2, <1>1 DEF Goes, Learned
<1>6. Chunked(f)' = Chunked(f) /\ AboveSet(f)' = AboveSet(f)
  BY <1>4, <1>5 DEF Chunked, AboveSet
<1>7. Sound(f) /\ Sound(f)'
  BY <1>1, <1>4, <1>5, <1>6 DEF Known, Sound, Early, Asking
<1>8. Pending(f)'
  BY <1>1, <1>4, <1>5, <1>6, <1>7 DEF Known, Sound, Pending, Asking
<1>9. Backed(f)'
  BY <1>2, <1>4, <1>5, <1>6 DEF Backed
<1>10. Blamed(f)'
  BY <1>1, <1>4, <1>5, <1>7 DEF Known, Sound, Blamed
<1> QED
  BY <1>2, <1>4, <1>7, <1>8, <1>9, <1>10, GoesKeeps DEF Known

LEMMA WrittenLearned ==
  ASSUME IInv, Learned, NEW f \in Tasks, Written(f) \/ (Verify(f) /\ GiveUp(f, "stored"))
  PROVE  Learned'
<1>1. /\ pc[f] \in {"write", "verify"} /\ UNCHANGED <<proven, srvDirs>>
      /\ sessions' \subseteq sessions
  BY DEF Written, Verify, server
<1>2. Known(f) /\ op[f] \in Record
  BY OpIs DEF Learned
<1> DEFINE d == [op[f] EXCEPT !.result = "stored"]
<1>3. /\ d \in Record /\ d.result = "stored" /\ d.err = op[f].err /\ d.dir = op[f].dir
      /\ d.level = op[f].level /\ d.try = op[f].try
      /\ d.fell = op[f].fell /\ d.leaked = op[f].leaked /\ d.gone = op[f].gone
  BY <1>2 DEF Record
<1>4. \/ Goes(f, "done", d) /\ (Chunked(f) => pc[f] = "verify")
      \/ Goes(f, "verify", op[f]) /\ pc[f] = "write" /\ Chunked(f) /\ f \notin sessions'
  <2>1. CASE Written(f) /\ Chunked(f)
    <3>1. Step(f, "verify", op[f]) /\ pc[f] = "write" /\ f \notin sessions'
      BY <2>1 DEF Written
    <3> QED
      BY <2>1, <3>1, StepGoes
  <2>2. CASE (Written(f) /\ ~Chunked(f)) \/ (Verify(f) /\ GiveUp(f, "stored"))
    <3>1. Finish(f, d) /\ (Chunked(f) => pc[f] = "verify")
      BY <2>2 DEF Written, GiveUp, Verify
    <3> QED
      BY <3>1, FinishGoes
  <2> QED
    BY <2>1, <2>2
<1> HIDE DEF d
<1>5. PICK label, r : /\ Goes(f, label, r)
                      /\ \/ label = "done" /\ r = d /\ (Chunked(f) => pc[f] = "verify")
                         \/ label = "verify" /\ r = op[f] /\ pc[f] = "write" /\ Chunked(f)
                            /\ f \notin sessions'
  BY <1>4
<1>6. pc'[f] = label /\ op'[f] = r /\ r \in Record
  BY <1>2, <1>3, <1>5 DEF Goes, Learned
<1>7. Chunked(f)' = Chunked(f) /\ AboveSet(f)' = AboveSet(f)
  BY <1>3, <1>5, <1>6 DEF Chunked, AboveSet
<1>8. Sound(f) /\ Sound(f)'
  BY <1>1, <1>2, <1>3, <1>5, <1>6, <1>7 DEF Known, Sound, Early, Asking
<1>9. Pending(f)'
  BY <1>1, <1>2, <1>3, <1>5, <1>6, <1>7 DEF Known, Pending, Asking
<1>10. Backed(f)' /\ Blamed(f)'
  BY <1>1, <1>2, <1>3, <1>5, <1>6, <1>8 DEF Known, Sound, Backed, Blamed, Asking
<1> QED
  BY <1>1, <1>5, <1>6, <1>8, <1>9, <1>10, GoesKeeps DEF Known

\* A repeated write misses a folder only if it was told so, or one was removed.
LEMMA MissingLearned ==
  ASSUME IInv, Learned, NEW f \in Tasks, MissingParent(f)
  PROVE  Learned'
<1>1. pc[f] = "write" /\ UNCHANGED <<srvDirs, sessions>>
  BY DEF MissingParent, server
<1>2. Known(f) /\ op[f] \in Record /\ op[f].try \in {1, 2} /\ DirOf(f) \in AboveSet(f)
  BY OpIs DEF Learned
<1>3. CASE op[f].try = 1 /\ ~Chunked(f)
  <2>1. Recover(f, op[f])
    BY <1>3 DEF MissingParent
  <2> QED
    BY <1>1, <1>2, <1>3, <2>1, RecoverLearned
<1>4. CASE ~(op[f].try = 1 /\ ~Chunked(f))
  <2>1. PICK err \in {"net", "missing"} : /\ Fails(f, err)
                                          /\ err = "missing" => DirOf(f) \notin srvDirs
    BY <1>4 DEF MissingParent
  <2>2. op[f].try = 2 /\ UNCHANGED proven
    BY <1>1, <1>2, <1>4 DEF Known, Sound, MissingParent
  <2>3. err = "missing" => op[f].dir # "ok" \/ op[f].gone
    BY <1>1, <1>2, <2>1, <2>2 DEF Known, Backed
  <2> QED
    BY <1>1, <2>1, <2>2, <2>3, FailsLearned
<1> QED
  BY <1>3, <1>4

LEMMA AnyFailureLearned ==
  ASSUME IInv, Learned, NEW f \in Tasks,
         \/ WriteFails(f) \/ ChunkFails(f)
         \/ Verify(f) /\ \E err \in {"net", "threw"} : Fails(f, err)
  PROVE  Learned'
<1>1. /\ pc[f] \in {"write", "session", "chunk", "verify"} /\ UNCHANGED <<proven, srvDirs>>
      /\ \E err \in {"net", "threw"} : Fails(f, err)
  BY DEF WriteFails, ChunkFails, Verify, server
<1>2. Known(f)
  BY DEF Learned
<1>3. /\ sessions' \subseteq sessions \cup {f}
      /\ f \in sessions' => f \in sessions \/ Chunked(f)
  <2>1. ChunkFails(f) => pc[f] \in {"session", "chunk"}
    BY DEF ChunkFails
  <2> QED
    BY <1>2, <2>1 DEF WriteFails, ChunkFails, Verify, server, Known, Sound
<1> QED
  BY <1>1, <1>3, FailsLearned

LEMMA ChunkSentLearned ==
  ASSUME IInv, Learned, NEW f \in Tasks, ChunkSent(f)
  PROVE  Learned'
<1>1. /\ pc[f] \in {"session", "chunk"} /\ UNCHANGED srvDirs
      /\ sessions' = sessions \cup {f}
  BY DEF ChunkSent
<1>2. Known(f) /\ op[f] \in Record /\ op[f].chunk \in Nat
  BY OpIs DEF Learned
<1> DEFINE n == IF pc[f] = "session" THEN 0 ELSE op[f].chunk + 1
           r == [op[f] EXCEPT !.chunk = n]
<1>3. n \in Nat
  BY <1>2
<1> HIDE DEF n
<1>4. /\ r \in Record /\ r.chunk = n /\ r.result = op[f].result /\ r.err = op[f].err
      /\ r.dir = op[f].dir /\ r.level = op[f].level /\ r.try = op[f].try
      /\ r.fell = op[f].fell /\ r.leaked = op[f].leaked /\ r.gone = op[f].gone
  BY <1>2, <1>3 DEF Record
<1>5. \/ Step(f, "chunk", r) /\ UNCHANGED proven
      \/ Recover(f, r)
  BY DEF ChunkSent, n
<1>6. CASE Recover(f, r)
  BY <1>1, <1>4, <1>6, RecoverLearned
<1>7. CASE Step(f, "chunk", r) /\ UNCHANGED proven
  <2>1. Goes(f, "chunk", r)
    BY <1>7, StepGoes
  <2> HIDE DEF r
  <2>2. pc'[f] = "chunk" /\ op'[f] = r
    BY <2>1 DEF Goes, Learned
  <2>3. Chunked(f)' = Chunked(f) /\ AboveSet(f)' = AboveSet(f)
    BY <1>4, <2>2 DEF Chunked, AboveSet
  <2>4. Sound(f) /\ Sound(f)' /\ op[f].try = 1
    BY <1>1, <1>2, <1>4, <2>2, <2>3 DEF Known, Sound, Early, Asking
  <2>5. Pending(f)'
    BY <1>1, <1>2, <1>4, <2>2, <2>3, <2>4 DEF Known, Sound, Pending, Asking
  <2>6. Backed(f)' /\ Blamed(f)'
    BY <1>1, <1>2, <1>4, <2>2, <2>4 DEF Known, Sound, Backed, Blamed, Asking
  <2> QED
    BY <1>1, <1>4, <1>7, <2>1, <2>4, <2>5, <2>6, GoesKeeps DEF Known
<1> QED
  BY <1>5, <1>6, <1>7

\* A session is discarded, or said to be left; then the upload falls back or throws.
LEMMA DiscardLearned ==
  ASSUME IInv, Learned, NEW f \in Tasks, Discard(f) \/ DiscardFails(f)
  PROVE  Learned'
<1>1. pc[f] = "discard" /\ UNCHANGED <<proven, srvDirs>> /\ sessions' \subseteq sessions
  BY DEF Discard, DiscardFails, server
<1>2. Known(f) /\ op[f] \in Record /\ Chunked(f)
  BY <1>1, OpIs DEF Learned, Known, Sound
<1>3. PICK r \in Record :
          /\ AfterDiscard(f, r) /\ (f \in sessions' => r.leaked)
          /\ r.result = op[f].result /\ r.err = op[f].err /\ r.dir = op[f].dir
          /\ r.level = op[f].level /\ r.try = op[f].try /\ r.fell = op[f].fell /\ r.gone = op[f].gone
  <2>1. CASE Discard(f)
    BY <1>2, <2>1 DEF Discard
  <2>2. CASE DiscardFails(f)
    <3> DEFINE q == [op[f] EXCEPT !.leaked = TRUE]
    <3>1. q \in Record
      BY <1>2 DEF Record
    <3>2. q.leaked = TRUE
      BY <1>2, Zenon DEF Record
    <3>3. /\ q.result = op[f].result /\ q.err = op[f].err /\ q.dir = op[f].dir
          /\ q.level = op[f].level /\ q.try = op[f].try /\ q.fell = op[f].fell /\ q.gone = op[f].gone
      BY <1>2 DEF Record
    <3>4. AfterDiscard(f, q)
      BY <2>2 DEF DiscardFails
    <3> HIDE DEF q
    <3> QED
      BY <3>1, <3>2, <3>3, <3>4
  <2> QED
    BY <2>1, <2>2
<1>4. CASE r.err = "threw"
  <2> DEFINE d == [r EXCEPT !.result = "threw"]
  <2>1. /\ d \in Record /\ d.result = "threw" /\ d.err = r.err /\ d.dir = r.dir
        /\ d.level = r.level /\ d.try = r.try
        /\ d.fell = r.fell /\ d.leaked = r.leaked /\ d.gone = r.gone
    BY DEF Record
  <2>2. Goes(f, "done", d)
    <3>1. Finish(f, d)
      BY <1>3, <1>4 DEF AfterDiscard
    <3> QED
      BY <3>1, FinishGoes
  <2> HIDE DEF d
  <2>3. pc'[f] = "done" /\ op'[f] = d
    BY <2>2 DEF Goes, Learned
  <2>4. Sound(f)' /\ Pending(f)' /\ Backed(f)' /\ Blamed(f)'
    BY <1>1, <1>2, <1>3, <1>4, <2>1, <2>3 DEF Known, Sound, Pending, Backed, Blamed, Early, Asking
  <2> QED
    BY <1>1, <2>1, <2>2, <2>4, GoesKeeps DEF Known
<1>5. CASE r.err # "threw"
  <2> DEFINE w == [r EXCEPT !.fell = TRUE, !.err = "none", !.try = 1, !.dir = "ok"]
  <2>1. w \in Record /\ w.fell
    <3>1. \A u \in Record : [u EXCEPT !.fell = TRUE] \in Record
      BY DEF Record
    <3>2. \A u \in Record : [u EXCEPT !.err = "none"] \in Record
      BY DEF Record
    <3>3. \A u \in Record : [u EXCEPT !.try = 1] \in Record
      BY DEF Record
    <3>4. \A u \in Record : [u EXCEPT !.dir = "ok"] \in Record
      BY DEF Record
    <3>5. w = [[[[r EXCEPT !.fell = TRUE] EXCEPT !.err = "none"] EXCEPT !.try = 1] EXCEPT !.dir = "ok"]
      BY Zenon
    <3>6. w.fell = TRUE
      BY Zenon DEF Record
    <3> QED
      BY <3>1, <3>2, <3>3, <3>4, <3>5, <3>6
  <2>2. /\ w.err = "none" /\ w.try = 1 /\ w.dir = "ok" /\ w.result = r.result
        /\ w.level = r.level /\ w.leaked = r.leaked /\ w.gone = r.gone
    BY DEF Record
  <2>3. Goes(f, "write", w)
    <3>1. Step(f, "write", w)
      BY <1>3, <1>5 DEF AfterDiscard
    <3> QED
      BY <3>1, StepGoes
  <2> HIDE DEF w
  <2>4. pc'[f] = "write" /\ op'[f] = w
    BY <2>3 DEF Goes, Learned
  <2>5. ~Chunked(f)' /\ AboveSet(f)' = AboveSet(f)
    BY <2>1, <2>4 DEF Chunked, AboveSet
  <2>6. Sound(f)' /\ Pending(f)' /\ Backed(f)' /\ Blamed(f)'
    BY <1>1, <1>2, <1>3, <2>1, <2>2, <2>4, <2>5
       DEF Known, Sound, Pending, Backed, Blamed, Early, Asking
  <2> QED
    BY <1>1, <2>1, <2>3, <2>6, GoesKeeps DEF Known
<1> QED
  BY <1>4, <1>5

\* A removed folder takes with it only folders whose tasks pass through it.
LEMMA RemoveLearned ==
  ASSUME IInv, Learned, NEW d \in Dirs, ForeignRemove(d)
  PROVE  Learned'
<1> DEFINE hit(f) == pc[f] # "done" /\ d \in AboveSet(f)
<1>1. /\ UNCHANGED <<pc, proven, sessions>>
      /\ op' = [f \in Tasks |-> [op[f] EXCEPT !.gone = @ \/ hit(f)]]
      /\ srvDirs' = srvDirs \ {e \in Dirs : \E f \in Tasks : \E i, j \in 1..Len(Above[f]) :
                                 i <= j /\ Above[f][i] = d /\ Above[f][j] = e}
  BY DEF ForeignRemove
<1>2. op \in [Tasks -> Record]
  BY DEF Learned
<1>3. ASSUME NEW f \in Tasks
      PROVE  /\ op'[f] \in Record /\ op'[f].level = op[f].level /\ op'[f].try = op[f].try
             /\ op'[f].err = op[f].err /\ op'[f].dir = op[f].dir /\ op'[f].result = op[f].result
             /\ op'[f].fell = op[f].fell /\ op'[f].leaked = op[f].leaked
             /\ op[f].gone \in BOOLEAN /\ (op[f].gone \/ hit(f) <=> op'[f].gone)
  <2> HIDE DEF hit
  <2>1. op'[f] = [op[f] EXCEPT !.gone = op[f].gone \/ hit(f)] /\ op[f] \in Record
    BY <1>1, <1>2
  <2>2. op'[f].gone = (op[f].gone \/ hit(f)) /\ op[f].gone \in BOOLEAN
    BY <2>1, Zenon DEF Record
  <2>3. PICK b \in BOOLEAN : b = (op[f].gone \/ hit(f))
    OBVIOUS
  <2>4. op'[f] = [op[f] EXCEPT !.gone = b]
    BY <2>1, <2>3
  <2>5. \A u \in Record : [u EXCEPT !.gone = b] \in Record
    BY DEF Record
  <2>6. op'[f] \in Record
    BY <2>1, <2>4, <2>5
  <2>7. /\ op'[f].level = op[f].level /\ op'[f].try = op[f].try
        /\ op'[f].err = op[f].err /\ op'[f].dir = op[f].dir /\ op'[f].result = op[f].result
        /\ op'[f].fell = op[f].fell /\ op'[f].leaked = op[f].leaked
    BY <2>1, <2>4 DEF Record
  <2> QED
    BY <2>2, <2>6, <2>7
<1>4. ASSUME NEW f \in Tasks, d \notin AboveSet(f) PROVE AboveSet(f) \cap srvDirs \subseteq srvDirs'
  <2> SUFFICES ASSUME NEW k \in 1..Len(Above[f]), Above[f][k] \in srvDirs
               PROVE  Above[f][k] \in srvDirs'
    BY DEF AboveSet
  <2>1. ASSUME NEW g \in Tasks, NEW i \in 1..Len(Above[g]), NEW j \in 1..Len(Above[g]),
               i <= j, Above[g][i] = d, Above[g][j] = Above[f][k]
        PROVE  FALSE
    <3>1. j = k /\ \A m \in 1..j : Above[g][m] = Above[f][m]
      BY <2>1, TreeAssumption
    <3>2. i \in 1..Len(Above[f]) /\ i \in 1..j
      BY <2>1, <3>1
    <3> QED
      BY <1>4, <2>1, <3>1, <3>2 DEF AboveSet
  <2> QED
    BY <1>1, <2>1
<1>5. ASSUME NEW f \in Tasks PROVE Known(f)'
  <2>1. Known(f) /\ pc'[f] = pc[f] /\ AboveSet(f)' = AboveSet(f)
    BY <1>1 DEF Learned, AboveSet
  <2>2. Chunked(f)' = Chunked(f)
    BY <1>3 DEF Chunked
  <2>3. Sound(f)' /\ Pending(f)' /\ Blamed(f)'
    <3>1. Sound(f)'
      BY <1>3, <2>1, <2>2 DEF Known, Sound
    <3>2. Pending(f)'
      BY <1>1, <1>3, <2>1, <2>2 DEF Known, Pending
    <3>3. op[f].gone => op'[f].gone
      BY <1>3
    <3>4. "missing" \in {op'[f].err, op'[f].result} => op'[f].dir # "ok" \/ op[f].gone
      BY <1>3, <2>1 DEF Known, Blamed
    <3>5. Blamed(f)'
      BY <3>3, <3>4, Zenon DEF Blamed
    <3> QED
      BY <3>1, <3>2, <3>5
  <2>4. Backed(f)'
    <3>1. CASE d \in AboveSet(f)
      BY <1>3, <2>1, <3>1 DEF Backed, Asking
    <3>2. CASE d \notin AboveSet(f)
      <4>1. op'[f].gone <=> op[f].gone
        BY <1>3, <3>2
      <4>2. \A i \in 1..op[f].level - 1 : Above[f][i] \in AboveSet(f)
        BY OpIs, <2>1 DEF Known, Sound, AboveSet
      <4> QED
        BY <1>1, <1>3, <1>4, <2>1, <3>2, <4>1, <4>2 DEF Known, Backed
    <3> QED
      BY <3>1, <3>2
  <2> QED
    BY <2>3, <2>4 DEF Known
<1>6. op' \in [Tasks -> Record]
  BY <1>1, <1>3
<1> QED
  BY <1>1, <1>5, <1>6 DEF Learned

LEMMA QuietLearned ==
  ASSUME Learned, UNCHANGED <<proven, pc, op, srvDirs, sessions>>
  PROVE  Learned'
<1>1. \A f \in Tasks : Known(f)'
  BY ElsewhereKeeps DEF Moves, Learned
<1> QED
  BY <1>1 DEF Learned

LEMMA InitLearned == Init => Learned
<1> SUFFICES ASSUME Init PROVE Learned
  OBVIOUS
<1>1. /\ op = [f \in Tasks |-> NoRecord] /\ sessions = {}
      /\ \A f \in Tasks : pc[f] \in Early
  BY DEF Init, Early
<1>2. NoRecord \in Record /\ \A f \in Tasks : op[f] = NoRecord
  BY <1>1 DEF NoRecord, Record
<1>3. \A f \in Tasks : Len(Above[f]) \in Nat \ {0}
  BY AboveAssumption
<1>4. ASSUME NEW f \in Tasks PROVE Known(f)
  BY <1>1, <1>2, <1>3 DEF NoRecord, Known, Sound, Pending, Backed, Blamed, Early, Asking, Chunked
<1> QED
  BY <1>1, <1>2, <1>4 DEF Learned

LEMMA NextLearned ==
  ASSUME IInv, Learned, [Next]_vars
  PROVE  Learned'
<1>1. ASSUME NEW f \in Tasks, Callback(f) PROVE Learned'
  BY <1>1, StartLearned, EnsureLearned, FolderFailedLearned DEF Callback
<1>2. ASSUME NEW f \in Tasks, Answer(f) PROVE Learned'
  <2>1. Verify(f) => \/ Verify(f) /\ GiveUp(f, "stored")
                     \/ Verify(f) /\ \E err \in {"net", "threw"} : Fails(f, err)
    BY DEF Verify
  <2> QED
    BY <1>2, <2>1, MkcolLearned, WrittenLearned, MissingLearned, AnyFailureLearned,
       ChunkSentLearned, DiscardLearned DEF Answer
<1>3. CASE Event
  BY <1>3, StartOtherLearned, RemoveLearned, QuietLearned DEF Event, RequestStop, server
<1>4. CASE UNCHANGED vars
  BY <1>4, QuietLearned DEF vars
<1> QED
  BY <1>1, <1>2, <1>3, <1>4 DEF Next

\* uploadFile, moveFile: a write is given up for a missing parent only when a
\* folder above it could not be made or was removed meanwhile; for every tree of
\* folders, every number of failures and of folders removed elsewhere.
THEOREM MissingParentRestored == Spec => []MissingParentIsRecreated
<1>1. Learned => MissingParentIsRecreated
  BY DEF Learned, Known, Blamed, MissingParentIsRecreated
<1> QED
  BY InitHolds, NextKeeps, InitLearned, NextLearned, <1>1, PTL DEF Spec

\* uploadChunked: an upload that is over has left no session on the server, unless
\* the request that discards it failed.
THEOREM SessionsDiscarded == Spec => []SessionsAreDiscarded
<1>1. Learned => SessionsAreDiscarded
  <2> SUFFICES ASSUME Learned, NEW f \in sessions, pc[f] = "done" PROVE op[f].leaked
    BY DEF SessionsAreDiscarded
  <2> QED
    BY DEF Learned, Known, Pending, Asking
<1> QED
  BY InitHolds, NextKeeps, InitLearned, NextLearned, <1>1, PTL DEF Spec
-----------------------------------------------------------------------------
(* A batch that nothing disturbs.                                          *)

Quiet == faults = 0 /\ foreign = 0 /\ \A f \in Others : pc[f] = "idle"
OneMkcol == \A f, g \in Tasks :
    pc[f] = "mkcol" /\ pc[g] = "mkcol" /\ Asked(f) = Asked(g) => f = g
Clean(f) == /\ op[f].dir = "ok" /\ op[f].err = "none" /\ ~op[f].gone
            /\ pc[f] \notin {"nodir", "discard"}
            /\ pc[f] = "done" => op[f].result \in {"stored", "skipped"}
Smooth == OneMkcol /\ \A f \in Tasks : Clean(f)
QInv == IInv /\ Learned /\ faults \in Nat /\ foreign \in Nat /\ (Quiet => Smooth)

\* Nobody goes back to where a rename of watch mode has not begun.
LEMMA NeverIdle ==
  ASSUME IInv, [Next]_vars, NEW g \in Others, pc'[g] = "idle"
  PROVE  pc[g] = "idle"
<1>1. g \in Tasks /\ g \notin ItemSet /\ pc \in [Tasks -> Pcs]
  BY ItemsAssumption DEF Tasks, IInv, Shape
<1>2. \A f \in Tasks : First(f) # "idle"
  BY DEF First
<1>3. ASSUME NEW f \in Tasks, OwnStep(f) PROVE pc[g] = "idle"
  <2>1. PICK label, r : label \in Under \cup {"done"} /\ Goes(f, label, r)
    BY <1>3, OwnStepProgress, StepGoes, FinishGoes DEF Progress
  <2> QED
    BY <1>1, <1>2, <2>1 DEF Goes, Moves, Under, OnWire
<1>4. ASSUME NEW f \in Tasks, Start(f) \/ RunOne(f) PROVE pc[g] = "idle"
  <2>1. f # g
    BY <1>4, PastLimiter, <1>1 DEF Start, RunOne
  <2>2. CASE Start(f) /\ cancelled
    BY <1>1, <2>1, <2>2 DEF Start, SlotTo
  <2>3. CASE (Start(f) /\ ~cancelled) \/ RunOne(f)
    BY <1>1, <2>1, <2>3 DEF Start, RunOne, Acquire, Goto
  <2> QED
    BY <1>4, <2>2, <2>3
<1>5. ASSUME NEW f \in Tasks, MkcolProves(f) \/ MkcolFails(f) PROVE pc[g] = "idle"
  BY <1>1, <1>5 DEF MkcolProves, MkcolFails
<1>6. ASSUME NEW f \in Tasks, StartOther(f) PROVE pc[g] = "idle"
  BY <1>1, <1>6 DEF StartOther, Goto
<1>7. CASE (\E d \in Dirs : ForeignRemove(d)) \/ RequestStop \/ UNCHANGED vars
  BY <1>7 DEF ForeignRemove, RequestStop, vars
<1> QED
  BY <1>3, <1>4, <1>5, <1>6, <1>7 DEF Next, Event, Callback, Answer, OwnStep

LEMMA CountersGrow ==
  ASSUME [Next]_vars, faults \in Nat, foreign \in Nat
  PROVE  faults' \in {faults, faults + 1} /\ foreign' \in {foreign, foreign + 1}
<1>1. ASSUME NEW f \in Tasks, Callback(f) PROVE UNCHANGED budgets
  BY <1>1 DEF Callback, Start, RunOne, EnsureLevel, FolderFailed
<1>2. ASSUME NEW f \in Tasks, Answer(f) PROVE UNCHANGED budgets \/ Fault
  <2>1. CASE MkcolProves(f) \/ MkcolFails(f)
    BY <2>1 DEF MkcolProves, MkcolFails, Excused
  <2>2. CASE Written(f) \/ MissingParent(f) \/ WriteFails(f)
    BY <2>2 DEF Written, MissingParent, WriteFails, Excused
  <2>3. CASE ChunkSent(f) \/ ChunkFails(f) \/ Verify(f)
    BY <2>3 DEF ChunkSent, ChunkFails, Verify
  <2>4. CASE Discard(f) \/ DiscardFails(f)
    BY <2>4 DEF Discard, DiscardFails
  <2> QED
    BY <1>2, <2>1, <2>2, <2>3, <2>4 DEF Answer
<1>3. CASE Event
  <2>1. \A d \in Dirs : ForeignRemove(d) => foreign' = foreign + 1 /\ faults' = faults
    BY DEF ForeignRemove
  <2>2. \A f \in Tasks : StartOther(f) => UNCHANGED budgets
    BY DEF StartOther
  <2>3. RequestStop => UNCHANGED budgets
    BY DEF RequestStop
  <2> QED
    BY <1>3, <2>1, <2>2, <2>3 DEF Event, budgets
<1> QED
  BY <1>1, <1>2, <1>3 DEF Next, Fault, budgets, vars

\* A quiet state was quiet before.
LEMMA WasQuiet ==
  ASSUME QInv, [Next]_vars, Quiet'
  PROVE  Quiet /\ Smooth /\ UNCHANGED budgets
<1>1. \A f \in Others : pc[f] = "idle"
  BY NeverIdle DEF Quiet, QInv
<1>2. UNCHANGED budgets /\ faults = 0 /\ foreign = 0
  BY CountersGrow DEF QInv, Quiet, budgets
<1> QED
  BY <1>1, <1>2 DEF QInv, Quiet

\* One task's step in a batch that nothing disturbs.
LEMMA SmoothStep ==
  ASSUME IInv, Learned, Smooth, NEW f \in Tasks, NEW label, NEW r, Goes(f, label, r),
         label = "mkcol" => ~InFlight(Above[f][r.level]),
         r.dir = "ok", r.err = "none", ~r.gone, label \notin {"nodir", "discard"},
         label = "done" => r.result \in {"stored", "skipped"}
  PROVE  Smooth'
<1>1. pc'[f] = label /\ op'[f] = r
  BY DEF Goes, Learned
<1>2. ASSUME NEW g \in Tasks \ {f}
      PROVE  /\ op'[g] = op[g] /\ Clean(g)
             /\ pc'[g] \in {"mkcol", "nodir", "discard", "done"} => pc[g] = pc'[g]
  BY DEF Goes, Moves, Learned, Smooth, First
<1>3. \A g \in Tasks : Clean(g)'
  BY <1>1, <1>2 DEF Clean
<1>4. OneMkcol'
  <2> SUFFICES ASSUME NEW g \in Tasks, NEW h \in Tasks, g # h,
                      pc'[g] = "mkcol", pc'[h] = "mkcol", Asked(g)' = Asked(h)'
               PROVE  FALSE
    BY DEF OneMkcol
  <2>1. ASSUME NEW k \in Tasks \ {f}, pc'[k] = "mkcol"
        PROVE  pc[k] = "mkcol" /\ Asked(k)' = Asked(k)
    BY <1>2, <2>1 DEF Asked
  <2>2. CASE g # f /\ h # f
    BY <2>1, <2>2 DEF Smooth, OneMkcol
  <2>3. Asked(f)' = Above[f][r.level]
    BY <1>1 DEF Asked
  <2> QED
    BY <1>1, <2>1, <2>2, <2>3 DEF InFlight
<1> QED
  BY <1>3, <1>4 DEF Smooth

Undisturbed == IInv /\ Learned /\ faults \in Nat /\ Quiet /\ Smooth /\ UNCHANGED budgets

\* Nothing fails, and whoever is under way is one of the batch.
LEMMA NoFault ==
  ASSUME Undisturbed
  PROVE  /\ ~Fault
         /\ \A f \in Tasks : pc[f] # "idle" => f \in ItemSet /\ How[f] # "move"
  BY HowAssumption DEF Undisturbed, Quiet, Fault, budgets, Tasks

LEMMA ResultKept ==
  ASSUME NEW u \in Record
  PROVE  /\ \A x \in {"skipped", "stored"} :
              LET v == [u EXCEPT !.result = x] IN v.result = x /\ v.dir = u.dir /\ v.err = u.err /\ v.gone = u.gone
         /\ \A x \in Nat : LET v == [u EXCEPT !.chunk = x] IN v.dir = u.dir /\ v.err = u.err /\ v.gone = u.gone
         /\ \A x \in Nat \ {0} : LET v == [u EXCEPT !.level = x]
                                 IN v.level = x /\ v.dir = u.dir /\ v.err = u.err /\ v.gone = u.gone
         /\ \A x \in {"ok"} : LET v == [u EXCEPT !.dir = x] IN v.dir = x /\ v.err = u.err /\ v.gone = u.gone
  BY DEF Record

LEMMA StartSmooth ==
  ASSUME Undisturbed, NEW f \in Tasks, Start(f) \/ RunOne(f)
  PROVE  Smooth'
<1>1. IInv /\ Learned /\ Smooth /\ op[f] \in Record
  BY OpIs DEF Undisturbed
<1>2. op[f].dir = "ok" /\ op[f].err = "none" /\ ~op[f].gone
  BY <1>1 DEF Smooth, Clean
<1> DEFINE skip == [op[f] EXCEPT !.result = "skipped"]
<1>3. skip.result = "skipped" /\ skip.dir = op[f].dir /\ skip.err = op[f].err /\ skip.gone = op[f].gone
  BY <1>1, ResultKept
<1>4. First(f) \in {"session", "write"}
  BY DEF First
<1>5. CASE Start(f) /\ cancelled
  <2>1. /\ pc' = [g \in Tasks |-> IF g = f THEN "done" ELSE SlotTo(pc[g], g)]
        /\ op' = [op EXCEPT ![f] = skip]
    BY <1>5 DEF Start
  <2>2. \A g \in Tasks : SlotTo(pc[g], g) = pc[g] \/ (pc[g] = "queued" /\ SlotTo(pc[g], g) = "started")
    BY <1>1 DEF SlotTo, Standing, IInv, Shape
  <2>3. Goes(f, "done", skip)
    BY <2>1, <2>2 DEF Goes, Moves
  <2> HIDE DEF skip
  <2> QED
    BY <1>1, <1>2, <1>3, <2>3, SmoothStep
<1>6. CASE (Start(f) /\ ~cancelled) \/ RunOne(f)
  <2>1. PICK label \in {"chained", "waiting", First(f)} : Goes(f, label, op[f])
    BY <1>1, <1>6, StepGoes, AcquireGoes DEF Start, RunOne
  <2> QED
    BY <1>1, <1>2, <1>4, <2>1, SmoothStep
<1> QED
  BY <1>5, <1>6

LEMMA EnsureSmooth ==
  ASSUME Undisturbed, NEW f \in Tasks, EnsureLevel(f)
  PROVE  Smooth'
<1>1. /\ IInv /\ Learned /\ Smooth /\ op[f] \in Record
      /\ op[f].level \in Nat \ {0} /\ Len(Above[f]) \in Nat
  BY OpIs DEF Undisturbed
<1>2. op[f].dir = "ok" /\ op[f].err = "none" /\ ~op[f].gone
  BY <1>1 DEF Smooth, Clean
<1>3. CASE Unproven(f) = {}
  <2> DEFINE told == [op[f] EXCEPT !.dir = "ok"]
  <2>1. AfterFolders(f, "ok")
    BY <1>3 DEF EnsureLevel
  <2>2. Step(f, "write", op[f]) \/ Step(f, "write", told)
    BY <2>1 DEF AfterFolders
  <2>3. told.dir = "ok" /\ told.err = "none" /\ told.gone = op[f].gone
    BY <1>1, <1>2, ResultKept
  <2>4. Goes(f, "write", op[f]) \/ Goes(f, "write", told)
    BY <1>1, <2>2, StepGoes
  <2> HIDE DEF told
  <2> QED
    BY <1>1, <1>2, <2>3, <2>4, SmoothStep
<1>4. CASE Unproven(f) # {}
  <2> DEFINE i == Min(Unproven(f))
             r == [op[f] EXCEPT !.level = i]
  <2>1. i \in Nat \ {0}
    <3>1. Unproven(f) \subseteq Nat \ {0}
      BY <1>1 DEF Unproven
    <3> QED
      BY <1>4, <3>1, MinIs
  <2>2. Step(f, IF InFlight(Above[f][i]) THEN "join" ELSE "mkcol", r)
    BY <1>4 DEF EnsureLevel
  <2> HIDE DEF i
  <2>3. r.level = i /\ r.dir = op[f].dir /\ r.err = op[f].err /\ r.gone = op[f].gone
    BY <1>1, <2>1, ResultKept
  <2> HIDE DEF r
  <2>4. PICK label \in {"join", "mkcol"} : Goes(f, label, r) /\ (label = "mkcol" => ~InFlight(Above[f][i]))
    <3>1. CASE InFlight(Above[f][i])
      <4>1. Step(f, "join", r)
        BY <2>2, <3>1
      <4> QED
        BY <1>1, <4>1, StepGoes
    <3>2. CASE ~InFlight(Above[f][i])
      <4>1. Step(f, "mkcol", r)
        BY <2>2, <3>2
      <4> QED
        BY <1>1, <3>2, <4>1, StepGoes
    <3> QED
      BY <3>1, <3>2
  <2> QED
    BY <1>1, <1>2, <2>3, <2>4, SmoothStep
<1> QED
  BY <1>3, <1>4

\* A MKCOL is answered: its parents are there, and it is the only one.
LEMMA MkcolSmooth ==
  ASSUME Undisturbed, NEW f \in Tasks, MkcolProves(f) \/ MkcolFails(f)
  PROVE  Smooth'
<1>1. IInv /\ Learned /\ Smooth /\ f \in ItemSet /\ How[f] # "move" /\ pc[f] = "mkcol"
  BY NoFault DEF Undisturbed, MkcolProves, MkcolFails
<1>2. Known(f) /\ ~op[f].gone /\ op[f].level \in Nat \ {0} /\ Len(Above[f]) \in Nat
  BY <1>1, OpIs DEF Learned, Smooth, Clean
<1>3. CanMake(f)
  <2>1. op[f].try = 2
    BY <1>1, <1>2 DEF Known, Sound, Asking
  <2>2. \A i \in 1..op[f].level - 1 : Above[f][i] \in srvDirs
    BY <1>1, <1>2, <2>1 DEF Known, Backed, Asking
  <2> QED
    BY <1>2, <2>2 DEF CanMake
<1>4. ~MkcolFails(f)
  <2> SUFFICES ASSUME MkcolFails(f) PROVE FALSE
    OBVIOUS
  <2>1. Fault \/ Collides(f)
    BY <1>3 DEF MkcolFails, Excused
  <2>2. Collides(f)
    BY <2>1, NoFault
  <2> QED
    BY <1>1, <2>2 DEF Collides, Smooth, OneMkcol
<1>5. /\ op' = op
      /\ pc' = [g \in Tasks |-> IF g \in Waiting(f) THEN "ask" ELSE pc[g]]
  BY <1>4 DEF MkcolProves
<1>6. \A g \in Tasks : Clean(g)'
  BY <1>1, <1>5 DEF Smooth, Clean
<1>7. \A g \in Tasks : (pc'[g] = "mkcol" => pc[g] = "mkcol") /\ Asked(g)' = Asked(g)
  BY <1>5 DEF Asked
<1>8. OneMkcol'
  BY <1>1, <1>7 DEF Smooth, OneMkcol
<1> QED
  BY <1>6, <1>8 DEF Smooth

LEMMA WriteSmooth ==
  ASSUME SerializeByDir, Undisturbed, NEW f \in Tasks,
         Written(f) \/ MissingParent(f) \/ WriteFails(f)
  PROVE  Smooth'
<1>1. /\ IInv /\ Learned /\ Smooth /\ f \in ItemSet /\ How[f] # "move" /\ pc[f] = "write"
      /\ op[f] \in Record /\ op[f].try \in {1, 2} /\ DirOf(f) \in AboveSet(f)
  BY NoFault, OpIs DEF Undisturbed, Written, MissingParent, WriteFails
<1>2. Known(f) /\ op[f].dir = "ok" /\ op[f].err = "none" /\ ~op[f].gone
  BY <1>1 DEF Learned, Smooth, Clean
<1>3. ~WriteFails(f)
  <2> SUFFICES ASSUME WriteFails(f) PROVE FALSE
    OBVIOUS
  <2>1. Collides(f)
    BY NoFault DEF WriteFails, Excused
  <2>2. PICK g \in Tasks \ {f} : pc[g] = "write" /\ DirOf(g) = DirOf(f)
    BY <1>1, <2>1 DEF Collides
  <2>3. g \in Transferring /\ f \in Transferring
    BY <1>1, <2>2, NoFault DEF Transferring, OnWire
  <2> QED
    BY <1>1, <2>2, <2>3, Exclusive DEF DirectoryIsExclusive
<1>4. CASE Written(f)
  <2> DEFINE d == [op[f] EXCEPT !.result = "stored"]
  <2>1. Step(f, "verify", op[f]) \/ Finish(f, d)
    BY <1>4 DEF Written, GiveUp
  <2>2. d.result = "stored" /\ d.dir = op[f].dir /\ d.err = op[f].err /\ d.gone = op[f].gone
    BY <1>1, ResultKept
  <2>3. Goes(f, "verify", op[f]) \/ Goes(f, "done", d)
    BY <1>1, <2>1, StepGoes, FinishGoes
  <2> HIDE DEF d
  <2> QED
    BY <1>1, <1>2, <2>2, <2>3, SmoothStep
<1>5. CASE MissingParent(f)
  <2>1. DirOf(f) \notin srvDirs
    BY <1>1, <1>5 DEF MissingParent
  <2>2. op[f].try = 1
    BY <1>1, <1>2, <2>1 DEF Known, Backed
  <2>3. Recover(f, op[f])
    BY <1>1, <1>2, <1>5, <2>2 DEF MissingParent, Known, Sound
  <2> DEFINE s == [op[f] EXCEPT !.level = 1, !.try = 2, !.gone = FALSE]
  <2>4. Goes(f, "ask", s)
    BY <1>1, <2>3, StepGoes DEF Recover
  <2>5. s.dir = op[f].dir /\ s.err = op[f].err /\ ~s.gone
    BY <1>1, RetryRecord
  <2> HIDE DEF s
  <2> QED
    BY <1>1, <1>2, <2>4, <2>5, SmoothStep
<1> QED
  BY <1>3, <1>4, <1>5

LEMMA ChunkSmooth ==
  ASSUME Undisturbed, NEW f \in Tasks,
         ChunkSent(f) \/ ChunkFails(f) \/ Verify(f) \/ Discard(f) \/ DiscardFails(f) \/ FolderFailed(f)
  PROVE  Smooth'
<1>1. IInv /\ Learned /\ Smooth /\ op[f] \in Record /\ op[f].chunk \in Nat
  BY OpIs DEF Undisturbed
<1>2. op[f].dir = "ok" /\ op[f].err = "none" /\ ~op[f].gone /\ pc[f] \notin {"nodir", "discard"}
  BY <1>1 DEF Smooth, Clean
<1>3. CASE ChunkSent(f)
  <2> DEFINE n == IF pc[f] = "session" THEN 0 ELSE op[f].chunk + 1
             r == [op[f] EXCEPT !.chunk = n]
             s == [r EXCEPT !.level = 1, !.try = 2, !.gone = FALSE]
  <2>1. n \in Nat
    BY <1>1
  <2>2. Step(f, "chunk", r) \/ Recover(f, r)
    BY <1>3 DEF ChunkSent
  <2> HIDE DEF n
  <2>3. r \in Record
    BY <1>1, <2>1 DEF Record
  <2>4. r.dir = op[f].dir /\ r.err = op[f].err /\ r.gone = op[f].gone
    BY <1>1, <2>1, ResultKept
  <2> HIDE DEF r
  <2>5. Goes(f, "chunk", r) \/ Goes(f, "ask", s)
    BY <1>1, <2>2, StepGoes DEF Recover
  <2>6. s.dir = r.dir /\ s.err = r.err /\ ~s.gone
    BY <2>3, RetryRecord
  <2> HIDE DEF s
  <2> QED
    BY <1>1, <1>2, <2>4, <2>5, <2>6, SmoothStep
<1>4. CASE Verify(f)
  <2> DEFINE d == [op[f] EXCEPT !.result = "stored"]
  <2>1. Finish(f, d)
    BY <1>4, NoFault DEF Verify, GiveUp
  <2>2. d.result = "stored" /\ d.dir = op[f].dir /\ d.err = op[f].err /\ d.gone = op[f].gone
    BY <1>1, ResultKept
  <2>3. Goes(f, "done", d)
    BY <1>1, <2>1, FinishGoes
  <2> HIDE DEF d
  <2> QED
    BY <1>1, <1>2, <2>2, <2>3, SmoothStep
<1>5. ~(ChunkFails(f) \/ Discard(f) \/ DiscardFails(f) \/ FolderFailed(f))
  BY <1>2, NoFault DEF ChunkFails, Discard, DiscardFails, FolderFailed
<1> QED
  BY <1>3, <1>4, <1>5

LEMMA RestSmooth ==
  ASSUME Undisturbed, UNCHANGED <<pc, op>>
  PROVE  Smooth'
  BY DEF Undisturbed, Smooth, OneMkcol, Clean, Asked

LEMMA NextSmooth ==
  ASSUME SerializeByDir, QInv, [Next]_vars
  PROVE  QInv'
<1>1. IInv' /\ Learned'
  BY NextKeeps, NextLearned DEF QInv
<1>2. faults' \in Nat /\ foreign' \in Nat
  BY CountersGrow DEF QInv
<1>3. ASSUME Quiet' PROVE Smooth'
  <2>1. Undisturbed
    BY <1>3, WasQuiet DEF QInv, Undisturbed
  <2>2. ASSUME NEW f \in Tasks, Callback(f) PROVE Smooth'
    BY <2>1, <2>2, StartSmooth, EnsureSmooth, ChunkSmooth DEF Callback
  <2>3. ASSUME NEW f \in Tasks, Answer(f) PROVE Smooth'
    BY <2>1, <2>3, MkcolSmooth, WriteSmooth, ChunkSmooth DEF Answer
  <2>4. ASSUME NEW f \in Tasks, StartOther(f) PROVE FALSE
    <3>1. f \in Others /\ pc'[f] = "ask"
      BY <2>1, <2>4 DEF StartOther, Goto, Undisturbed, IInv, Shape
    <3> QED
      BY <1>3, <3>1 DEF Quiet
  <2>5. ASSUME NEW d \in Dirs, ForeignRemove(d) PROVE FALSE
    BY <1>3, <2>1, <2>5 DEF ForeignRemove, Undisturbed, Quiet
  <2>6. CASE RequestStop \/ UNCHANGED vars
    BY <2>1, <2>6, RestSmooth DEF RequestStop, vars
  <2> QED
    BY <2>2, <2>3, <2>4, <2>5, <2>6 DEF Next, Event
<1> QED
  BY <1>1, <1>2, <1>3 DEF QInv

LEMMA InitSmooth == Init => QInv
<1> SUFFICES ASSUME Init PROVE QInv
  OBVIOUS
<1>1. IInv /\ Learned /\ faults = 0 /\ foreign = 0
  BY InitHolds, InitLearned DEF Init
<1>2. \A f \in Tasks : op[f] = NoRecord /\ pc[f] \in {"idle", "queued", "started"}
  BY DEF Init
<1> QED
  BY <1>1, <1>2 DEF QInv, Smooth, OneMkcol, Clean, NoRecord

\* runFileBatch: as long as nothing fails outside, no device removes folders and
\* watch mode renames nothing, every upload of a batch whose directories take
\* turns is stored, or skipped after a stop: whatever folders the server lacks, the
\* uploads of one batch never make each other fail.
THEOREM QuietBatch == ASSUME SerializeByDir PROVE Spec => []QuietBatchSucceeds
<1>1. QInv => QuietBatchSucceeds
  BY DEF QInv, Quiet, Smooth, Clean, QuietBatchSucceeds
<1>2. QInv /\ [Next]_vars => QInv'
  BY NextSmooth
<1> QED
  BY InitSmooth, <1>1, <1>2, PTL DEF Spec
-----------------------------------------------------------------------------
(* Slots. *)

Holding == {f \in ItemSet : pc[f] \notin {"queued", "done"}}
Slots == active \in Nat /\ active <= Limit /\ Cardinality(Holding) <= active

LEMMA ItemsFinite ==
  /\ IsFiniteSet(ItemSet)
  /\ \A S \in SUBSET ItemSet : IsFiniteSet(S) /\ Cardinality(S) \in Nat
<1>1. Len(Items) \in Nat
  BY ItemsAssumption
<1> DEFINE F == [i \in 1..Len(Items) |-> Items[i]]
<1>2. F \in Surjection(1..Len(Items), ItemSet)
  BY DEF Surjection, ItemSet
<1>3. IsFiniteSet(1..Len(Items))
  BY <1>1, FS_Interval
<1> HIDE DEF F
<1>4. IsFiniteSet(ItemSet)
  BY <1>2, <1>3, FS_Surjection
<1>5. ASSUME NEW S \in SUBSET ItemSet PROVE IsFiniteSet(S) /\ Cardinality(S) \in Nat
  <2>1. IsFiniteSet(S)
    BY <1>4, FS_Subset
  <2> QED
    BY <2>1, FS_CardinalityType
<1> QED
  BY <1>4, <1>5

\* Whoever holds no slot takes none.
LEMMA SameSlots ==
  ASSUME Slots, active' = active,
         \A g \in ItemSet : pc'[g] \notin {"queued", "done"} => pc[g] \notin {"queued", "done"}
  PROVE  Slots'
<1>1. Holding' \subseteq Holding
  BY DEF Holding
<1>2. Cardinality(Holding') <= Cardinality(Holding) /\ Cardinality(Holding') \in Nat /\ Cardinality(Holding) \in Nat
  BY <1>1, ItemsFinite, FS_Subset DEF Holding
<1> QED
  BY <1>2, NumbersAssumption DEF Slots

\* A task that is over gives its slot to the head of the queue, or back.
LEMMA SlotGiven ==
  ASSUME IInv, Slots, NEW f \in ItemSet, pc[f] \notin {"queued", "done"}, pc'[f] = "done", PassSlot,
         \A g \in ItemSet \ {f} : \/ pc[g] \notin {"queued", "done"}
                                  \/ pc'[g] = SlotTo(pc[g], g)
  PROVE  Slots'
<1>1. /\ f \in Holding /\ IsFiniteSet(Holding) /\ Cardinality(Holding) \in Nat
      /\ Holding' \subseteq ItemSet /\ IsFiniteSet(Holding') /\ Cardinality(Holding') \in Nat
  BY ItemsFinite DEF Holding
<1>2. IsFiniteSet(Holding \ {f}) /\ Cardinality(Holding \ {f}) = Cardinality(Holding) - 1
  BY <1>1, FS_RemoveElement
<1>3. CASE queue = <<>>
  <2>1. Holding' \subseteq Holding \ {f}
    BY <1>3 DEF Holding, SlotTo
  <2>2. Cardinality(Holding') <= Cardinality(Holding) - 1
    BY <1>2, <2>1, FS_Subset
  <2> QED
    BY <1>1, <1>3, <2>2, NumbersAssumption DEF PassSlot, Slots
<1>4. CASE queue # <<>>
  <2> DEFINE h == Head(queue)
  <2>1. Holding' \subseteq (Holding \ {f}) \cup {h}
    BY <1>4 DEF Holding, SlotTo
  <2>2. /\ IsFiniteSet((Holding \ {f}) \cup {h})
        /\ Cardinality((Holding \ {f}) \cup {h}) <= Cardinality(Holding \ {f}) + 1
    <3> DEFINE H == Holding \ {f}
    <3> HIDE DEF H, h
    <3>1. IsFiniteSet(H) /\ Cardinality(H) \in Nat
      BY <1>2, FS_CardinalityType DEF H
    <3>2. IsFiniteSet(H \cup {h}) /\ Cardinality(H \cup {h}) <= Cardinality(H) + 1
      <4>1. CASE h \in H
        <5>1. H \cup {h} = H
          BY <4>1
        <5> QED
          BY <3>1, <5>1
      <4>2. CASE h \notin H
        <5>1. Cardinality(H \cup {h}) = Cardinality(H) + 1 /\ IsFiniteSet(H \cup {h})
          BY <3>1, <4>2, FS_AddElement, Zenon
        <5> QED
          BY <3>1, <5>1
      <4> QED
        BY <4>1, <4>2
    <3> QED
      BY <3>2 DEF H
  <2>3. Cardinality(Holding') <= Cardinality(Holding)
    <3>1. /\ Cardinality(Holding') <= Cardinality((Holding \ {f}) \cup {h})
          /\ Cardinality((Holding \ {f}) \cup {h}) \in Nat
      BY <2>1, <2>2, FS_Subset, FS_CardinalityType
    <3> QED
      BY <1>1, <1>2, <2>2, <3>1
  <2> QED
    BY <1>1, <1>4, <2>3, NumbersAssumption DEF PassSlot, Slots
<1> QED
  BY <1>3, <1>4

LEMMA FinishSlots ==
  ASSUME IInv, Slots, NEW f \in Tasks, pc[f] \in Under, NEW r, Finish(f, r)
  PROVE  Slots'
<1>1. /\ pc \in [Tasks -> Pcs] /\ ItemSet \subseteq Tasks
      /\ waiters \in Seq(ItemSet) /\ Standing(waiters, "waiting")
  BY DEF IInv, Shape, Tasks
<1>2. CASE f \in Others
  <2>1. pc' = [pc EXCEPT ![f] = "done"] /\ active' = active /\ f \notin ItemSet
    BY <1>2, ItemsAssumption DEF Finish, limits
  <2> QED
    BY <1>1, <2>1, SameSlots
<1>3. CASE f \notin Others
  <2> DEFINE n == Granted(free + Need(f))
             woken == {waiters[i] : i \in 1..n}
  <2>1. /\ pc' = [g \in Tasks |-> IF g = f THEN "done" ELSE IF g \in woken THEN First(g)
                                  ELSE SlotTo(pc[g], g)]
        /\ PassSlot /\ f \in ItemSet
    BY <1>3 DEF Finish, Tasks
  <2>2. n \in 0..Len(waiters)
    BY <1>1, GrantedType
  <2> HIDE DEF n
  <2>3. \A g \in woken : pc[g] = "waiting"
    BY <1>1, <2>2 DEF Standing
  <2>4. pc[f] \notin {"queued", "done"} /\ pc'[f] = "done"
    BY <2>1 DEF Under, OnWire
  <2>5. \A g \in ItemSet \ {f} : pc[g] \notin {"queued", "done"} \/ pc'[g] = SlotTo(pc[g], g)
    BY <1>1, <2>1, <2>3
  <2> QED
    BY <2>1, <2>4, <2>5, SlotGiven
<1> QED
  BY <1>2, <1>3

LEMMA StartSlots ==
  ASSUME IInv, Slots, NEW f \in Tasks, Start(f) \/ RunOne(f)
  PROVE  Slots'
<1>1. pc \in [Tasks -> Pcs] /\ ItemSet \subseteq Tasks /\ pc[f] \in {"started", "chained"} /\ f \in ItemSet
  BY PastLimiter DEF IInv, Shape, Tasks, Start, RunOne
<1>2. CASE Start(f) /\ cancelled
  <2>1. /\ PassSlot
        /\ pc' = [g \in Tasks |-> IF g = f THEN "done" ELSE SlotTo(pc[g], g)]
    BY <1>2 DEF Start
  <2> QED
    BY <1>1, <2>1, SlotGiven
<1>3. CASE (Start(f) /\ ~cancelled) \/ RunOne(f)
  <2>1. active' = active /\ \A g \in Tasks \ {f} : pc'[g] = pc[g]
    BY <1>1, <1>3 DEF Start, RunOne, Acquire, Goto
  <2> QED
    BY <1>1, <2>1, SameSlots
<1> QED
  BY <1>2, <1>3

LEMMA ProgressSlots ==
  ASSUME IInv, Slots, NEW f \in Tasks, pc[f] \in Under, Progress(f)
  PROVE  Slots'
<1>1. ASSUME NEW label \in Under, NEW r, Step(f, label, r) PROVE Slots'
  <2>1. active' = active /\ \A g \in Tasks \ {f} : pc'[g] = pc[g]
    BY <1>1 DEF Step, Goto, limits, IInv, Shape
  <2> QED
    BY <2>1, SameSlots DEF Under, OnWire, Tasks
<1> QED
  BY <1>1, FinishSlots DEF Progress

LEMMA NextSlots ==
  ASSUME IInv, Slots, [Next]_vars
  PROVE  Slots'
<1>1. ASSUME NEW f \in Tasks, OwnStep(f) PROVE Slots'
  BY <1>1, OwnStepProgress, ProgressSlots
<1>2. ASSUME NEW f \in Tasks, MkcolProves(f) \/ MkcolFails(f) PROVE Slots'
  <2>1. active' = active /\ \A g \in Tasks : pc'[g] = pc[g] \/ pc[g] \in {"mkcol", "join"}
    BY <1>2 DEF MkcolProves, MkcolFails, limits, Waiting
  <2> QED
    BY <2>1, SameSlots DEF Tasks
<1>3. ASSUME NEW f \in Tasks, StartOther(f) PROVE Slots'
  <2>1. active' = active /\ f \notin ItemSet /\ \A g \in Tasks \ {f} : pc'[g] = pc[g]
    BY <1>3, ItemsAssumption DEF StartOther, Goto, limits, IInv, Shape
  <2> QED
    BY <2>1, SameSlots DEF Tasks
<1>4. CASE (\E d \in Dirs : ForeignRemove(d)) \/ RequestStop \/ UNCHANGED vars
  BY <1>4, SameSlots DEF ForeignRemove, RequestStop, vars, limits
<1> QED
  BY <1>1, <1>2, <1>3, <1>4, StartSlots DEF Next, Event, Callback, Answer, OwnStep

LEMMA InitSlots == Init => Slots
<1> SUFFICES ASSUME Init PROVE Slots
  OBVIOUS
<1>1. Len(Items) \in Nat /\ Limit \in Nat /\ ItemSet \cap Others = {}
  BY ItemsAssumption, NumbersAssumption
<1>2. active = IF Len(Items) < Limit THEN Len(Items) ELSE Limit
  BY DEF Init
<1>3. active \in Nat /\ active <= Limit /\ active <= Len(Items)
  BY <1>1, <1>2
<1>4. Holding = {Items[i] : i \in 1..active}
  <2>1. \A f \in ItemSet : pc[f] \notin {"queued", "done"} <=> \E i \in 1..Len(Items) : i <= Limit /\ Items[i] = f
    BY <1>1 DEF Init, Tasks
  <2>2. 1..active = {i \in 1..Len(Items) : i <= Limit}
    BY <1>1, <1>2
  <2> QED
    BY <2>1, <2>2 DEF Holding, ItemSet
<1> DEFINE F == [i \in 1..active |-> Items[i]]
<1>5. F \in Surjection(1..active, Holding)
  BY <1>4 DEF Surjection
<1>6. Cardinality(Holding) <= active
  BY <1>3, <1>5, FS_SurjCardinalityBound DEF ExistsSurjection
<1> QED
  BY <1>3, <1>6 DEF Slots

\* createLimiter: never more than networkConcurrency uploads run, for every list of
\* uploads, whatever fails, and however a stop and the waiters for bytes fall.
THEOREM SlotsBounded == Spec => []SlotsAreBounded
<1>1. Slots => SlotsAreBounded
  <2> SUFFICES ASSUME Slots PROVE Cardinality(Transferring) <= Limit
    BY DEF SlotsAreBounded
  <2>1. Transferring \subseteq Holding
    BY DEF Transferring, Holding, OnWire
  <2>2. /\ Cardinality(Transferring) <= Cardinality(Holding)
        /\ Cardinality(Transferring) \in Nat /\ Cardinality(Holding) \in Nat
    BY <2>1, ItemsFinite, FS_Subset DEF Holding, Transferring
  <2> QED
    BY <2>2, NumbersAssumption DEF Slots
<1> QED
  BY InitHolds, NextKeeps, InitSlots, NextSlots, <1>1, PTL DEF Spec
-----------------------------------------------------------------------------
(* Sums.  MapThenSumSet is a recursive function on the subsets of a set:    *)
(* that it exists, and that it does not depend on the order in which        *)
(* elements are taken, is shown on a smallest subset for which it fails.    *)

\* The element that a sum takes first.
Part(s) == CHOOSE x \in s : TRUE
\* g adds up w on every subset of S.
Adds(g, w, S) == g = [s \in SUBSET S |-> IF s = {} THEN 0 ELSE w[Part(s)] + g[s \ {Part(s)}]]
Table(w, S) == CHOOSE g : Adds(g, w, S)
Total(w, S) == Table(w, S)[S]

LEMMA SumIsTotal == ASSUME NEW w, NEW S PROVE MapThenSumSet(LAMBDA x : w[x], S) = Total(w, S)
  BY DEF MapThenSumSet, MapThenFoldSet, Total, Table, Adds, Part

\* A set of subsets of a finite set has a smallest one.
LEMMA MinimalSet ==
  ASSUME NEW S, IsFiniteSet(S), NEW T \in SUBSET (SUBSET S), T # {}
  PROVE  \E x \in T : \A y \in T : y \subseteq x => y = x
<1>1. IsWellFoundedOn(StrictSubsetOrdering(S), SUBSET S)
  BY FS_StrictSubsetOrderingWellFounded, FS_FiniteSubsetsOfFinite
<1>2. PICK x \in T : \A y \in T : ~(<<y, x>> \in StrictSubsetOrdering(S))
  BY <1>1, WFMin
<1>3. \A y \in T : y \subseteq x => y = x
  BY <1>2 DEF StrictSubsetOrdering
<1> QED
  BY <1>3

LEMMA PartIn == ASSUME NEW s, s # {} PROVE Part(s) \in s
  BY DEF Part

LEMMA PartBelow == ASSUME NEW S, NEW s \in SUBSET S, s # {} PROVE Part(s) \in S
  BY PartIn

LEMMA SameTables ==
  ASSUME NEW w, NEW A, NEW B, NEW g, NEW h, Adds(g, w, A), Adds(h, w, B),
         NEW s \in SUBSET (A \cap B), IsFiniteSet(s)
  PROVE  g[s] = h[s]
<1> DEFINE T == {t \in SUBSET s : g[t] # h[t]}
<1> SUFFICES ASSUME T # {} PROVE FALSE
  OBVIOUS
<1>0. T \in SUBSET (SUBSET s)
  OBVIOUS
<1>1. PICK t \in T : \A u \in T : u \subseteq t => u = t
  <2> HIDE DEF T
  <2> QED
    BY <1>0, MinimalSet
<1>2. /\ t \in SUBSET A /\ t \in SUBSET B /\ t \in SUBSET s /\ g[t] # h[t]
  OBVIOUS
<1>3. t # {}
  BY <1>2 DEF Adds
<1>4. t \ {Part(t)} \notin T
  BY <1>1, <1>3, PartIn
<1>5. g[t \ {Part(t)}] = h[t \ {Part(t)}]
  BY <1>2, <1>4
<1> HIDE DEF T
<1>6. g[t] = w[Part(t)] + g[t \ {Part(t)}] /\ h[t] = w[Part(t)] + h[t \ {Part(t)}]
  BY <1>2, <1>3 DEF Adds
<1> QED
  BY <1>2, <1>5, <1>6

LEMMA TableExists == ASSUME NEW w, NEW S, IsFiniteSet(S) PROVE \E g : Adds(g, w, S)
<1> DEFINE T == {t \in SUBSET S : ~\E g : Adds(g, w, t)}
<1> SUFFICES ASSUME T # {} PROVE FALSE
  OBVIOUS
<1>0. T \in SUBSET (SUBSET S)
  OBVIOUS
<1>1. PICK t \in T : \A u \in T : u \subseteq t => u = t
  <2> HIDE DEF T
  <2> QED
    BY <1>0, MinimalSet
<1>2. t \in SUBSET S /\ ~(\E g : Adds(g, w, t)) /\ \A u \in SUBSET t : u # t => \E g : Adds(g, w, u)
  BY <1>1
<1> HIDE DEF T
<1> DEFINE below(u) == Table(w, u)
           value(u) == IF u = {} THEN 0 ELSE w[Part(u)] + below(u \ {Part(u)})[u \ {Part(u)}]
           all == [u \in SUBSET t |-> value(u)]
<1>3. \A u \in SUBSET t : u # t => Adds(below(u), w, u)
  BY <1>2 DEF Table
<1>4. \A u \in SUBSET t : u # t => below(u)[u] = value(u)
  <2> SUFFICES ASSUME NEW u \in SUBSET t, u # t PROVE below(u)[u] = value(u)
    OBVIOUS
  <2>1. CASE u = {}
    <3>1. Adds(below(u), w, u)
      BY <1>3
    <3> HIDE DEF below
    <3> QED
      BY <2>1, <3>1 DEF Adds
  <2>2. CASE u # {}
    <3> DEFINE v == u \ {Part(u)}
    <3>1. v \in SUBSET t /\ v # t /\ IsFiniteSet(v) /\ Adds(below(u), w, u) /\ Adds(below(v), w, v)
      <4>1. v \in SUBSET t /\ v # t
        BY <2>2, PartIn
      <4>2. IsFiniteSet(v)
        BY <1>2, FS_Subset, <4>1
      <4> QED
        BY <1>3, <4>1, <4>2
    <3> HIDE DEF below
    <3>2. below(u)[v] = below(v)[v]
      BY <3>1, SameTables
    <3>3. below(u)[u] = w[Part(u)] + below(u)[v]
      BY <2>2, <3>1 DEF Adds
    <3> QED
      BY <2>2, <3>2, <3>3
  <2> QED
    BY <2>1, <2>2
<1> HIDE DEF below
<1>5. \A u \in SUBSET t : u # {} => all[u \ {Part(u)}] = below(u \ {Part(u)})[u \ {Part(u)}]
  <2> SUFFICES ASSUME NEW u \in SUBSET t, u # {} 
               PROVE all[u \ {Part(u)}] = below(u \ {Part(u)})[u \ {Part(u)}]
    OBVIOUS
  <2>1. u \ {Part(u)} \in SUBSET t /\ u \ {Part(u)} # t
    BY PartIn
  <2> QED
    BY <1>4, <2>1
<1>6. Adds(all, w, t)
  <2>1. \A u \in SUBSET t : value(u) = IF u = {} THEN 0 ELSE w[Part(u)] + all[u \ {Part(u)}]
    BY <1>5
  <2> HIDE DEF value
  <2> QED
    BY <2>1 DEF Adds
<1> HIDE DEF all
<1>7. \E g : Adds(g, w, t)
  BY <1>6, Zenon
<1> QED
  BY <1>2, <1>7

LEMMA TableAdds == ASSUME NEW w, NEW S, IsFiniteSet(S) PROVE Adds(Table(w, S), w, S)
  BY TableExists DEF Table

\* Sums do not depend on the order in which the elements are taken.
LEMMA TotalParts ==
  ASSUME NEW w, NEW S, IsFiniteSet(S)
  PROVE  Total(w, S) = IF S = {} THEN 0 ELSE w[Part(S)] + Total(w, S \ {Part(S)})
<1>1. CASE S = {}
  <2>1. Adds(Table(w, S), w, S)
    BY TableAdds
  <2> QED
    BY <1>1, <2>1 DEF Total, Adds
<1>2. CASE S # {}
  <2> DEFINE v == S \ {Part(S)}
  <2>1. IsFiniteSet(v) /\ v \in SUBSET (S \cap v)
    BY FS_RemoveElement
  <2>2. Adds(Table(w, S), w, S) /\ Adds(Table(w, v), w, v)
    BY <2>1, TableAdds
  <2>3. Table(w, S)[v] = Table(w, v)[v]
    BY <2>1, <2>2, SameTables
  <2>4. Table(w, S)[S] = w[Part(S)] + Table(w, S)[v]
    BY <1>2, <2>2 DEF Adds
  <2> QED
    BY <1>2, <2>3, <2>4 DEF Total
<1> QED
  BY <1>1, <1>2

LEMMA TotalWithout ==
  ASSUME NEW S, IsFiniteSet(S), NEW w, \A x \in S : w[x] \in Nat
  PROVE  Total(w, S) \in Nat /\ \A x \in S : Total(w, S) = w[x] + Total(w, S \ {x})
<1> DEFINE Fine(t) == Total(w, t) \in Nat /\ \A x \in t : Total(w, t) = w[x] + Total(w, t \ {x})
           T == {t \in SUBSET S : ~Fine(t)}
<1> SUFFICES ASSUME T # {} PROVE FALSE
  OBVIOUS
<1>0. T \in SUBSET (SUBSET S)
  OBVIOUS
<1>1. PICK t \in T : \A u \in T : u \subseteq t => u = t
  <2> HIDE DEF T
  <2> QED
    BY <1>0, MinimalSet
<1>2. t \in SUBSET S /\ ~Fine(t) /\ \A u \in SUBSET t : u # t => Fine(u)
  BY <1>1
<1> HIDE DEF T
<1>3. IsFiniteSet(t)
  BY <1>2, FS_Subset
<1>4. t # {}
  <2> SUFFICES ASSUME t = {} PROVE Fine(t)
    BY <1>2
  <2>1. Total(w, t) = 0
    BY <1>3, TotalParts
  <2> QED
    BY <2>1
<1> DEFINE p == Part(t)
<1>5. p \in t /\ Total(w, t) = w[p] + Total(w, t \ {p}) /\ Fine(t \ {p})
  BY <1>2, <1>3, <1>4, TotalParts, PartIn
<1> HIDE DEF p
<1>6. Total(w, t) \in Nat
  BY <1>2, <1>5
<1>7. ASSUME NEW x \in t, x # p PROVE Total(w, t) = w[x] + Total(w, t \ {x})
  <2>1. Fine(t \ {x}) /\ p \in t \ {x} /\ x \in t \ {p}
    BY <1>2, <1>5, <1>7
  <2>2. (t \ {p}) \ {x} = (t \ {x}) \ {p} /\ (t \ {p}) \ {x} \in SUBSET t /\ (t \ {p}) \ {x} # t
    BY <1>7
  <2>3. Total(w, t \ {p}) = w[x] + Total(w, (t \ {p}) \ {x})
    BY <1>5, <2>1
  <2>4. Total(w, t \ {x}) = w[p] + Total(w, (t \ {x}) \ {p})
    BY <2>1
  <2>5. Total(w, (t \ {p}) \ {x}) \in Nat /\ w[p] \in Nat /\ w[x] \in Nat
    BY <1>2, <1>5, <1>7, <2>2
  <2>6. Total(w, (t \ {p}) \ {x}) = Total(w, (t \ {x}) \ {p})
    BY <2>2
  <2>7. Total(w, t) = w[p] + Total(w, t \ {p})
    BY <1>5
  <2> HIDE DEF Fine
  <2> QED
    BY <2>3, <2>4, <2>5, <2>6, <2>7
<1> QED
  BY <1>2, <1>5, <1>6, <1>7

LEMMA SameTotal ==
  ASSUME NEW S, IsFiniteSet(S), NEW v, NEW w, \A x \in S : v[x] = w[x]
  PROVE  Total(v, S) = Total(w, S)
<1> DEFINE T == {t \in SUBSET S : Total(v, t) # Total(w, t)}
<1> SUFFICES ASSUME T # {} PROVE FALSE
  OBVIOUS
<1>1. T \in SUBSET (SUBSET S)
  OBVIOUS
<1>2. PICK t \in T : \A u \in T : u \subseteq t => u = t
  <2> HIDE DEF T
  <2> QED
    BY <1>1, MinimalSet
<1>3. t \in SUBSET S /\ Total(v, t) # Total(w, t) /\ \A u \in SUBSET t : u # t => Total(v, u) = Total(w, u)
  BY <1>2
<1> HIDE DEF T
<1>4. IsFiniteSet(t)
  BY <1>3, FS_Subset
<1>5. t # {}
  BY <1>3, <1>4, TotalParts
<1> DEFINE p == Part(t)
<1>6. p \in t /\ Total(v, t \ {p}) = Total(w, t \ {p})
  BY <1>3, <1>5, PartIn
<1>7. Total(v, t) = v[p] + Total(v, t \ {p}) /\ Total(w, t) = w[p] + Total(w, t \ {p})
  BY <1>4, <1>5, TotalParts
<1> QED
  BY <1>3, <1>6, <1>7

-----------------------------------------------------------------------------
(* The byte budget. *)

\* What each upload, and each waiter in its turn, takes of the budget.
Weights == [f \in Tasks |-> Need(f)]
Lacks == [i \in 1..Len(waiters) |-> Need(waiters[i])]
\* What is not free is held by the transfers.
Balance == free \in Nat /\ free + Total(Weights, Transferring) = Budget

LEMMA NeedIs ==
  /\ \A f \in Tasks : Need(f) \in Nat /\ Weights[f] = Need(f)
  /\ ItemSet \subseteq Tasks
  BY NumbersAssumption DEF Need, Weights, Tasks

LEMMA WeightsAdd ==
  ASSUME NEW S \in SUBSET ItemSet
  PROVE  Total(Weights, S) \in Nat /\ \A x \in S : Total(Weights, S) = Need(x) + Total(Weights, S \ {x})
<1>1. IsFiniteSet(S) /\ \A x \in S : Weights[x] \in Nat /\ Weights[x] = Need(x)
  BY ItemsFinite, NeedIs
<1> QED
  BY <1>1, TotalWithout

LEMMA FirstNeedIs ==
  ASSUME waiters \in Seq(ItemSet), NEW n \in 0..Len(waiters)
  PROVE  FirstNeed(n) = Total(Lacks, 1..n)
<1> DEFINE Grows(g) == g = [s \in SUBSET (1..n) |->
                             IF s = {} THEN 0 ELSE Need(waiters[Part(s)]) + g[s \ {Part(s)}]]
           it == CHOOSE g : Grows(g)
<1>1. FirstNeed(n) = it[1..n]
  BY DEF FirstNeed, MapThenSumSet, MapThenFoldSet, Part
<1>2. \A s \in SUBSET (1..n) : s # {} => Need(waiters[Part(s)]) = Lacks[Part(s)]
  <2> SUFFICES ASSUME NEW s \in SUBSET (1..n), s # {} PROVE Need(waiters[Part(s)]) = Lacks[Part(s)]
    OBVIOUS
  <2>2. Part(s) \in 1..n
    BY PartBelow
  <2>3. Part(s) \in 1..Len(waiters)
    BY <2>2
  <2> QED
    BY <2>3 DEF Lacks
<1>3. ASSUME NEW g PROVE Grows(g) <=> Adds(g, Lacks, 1..n)
  BY <1>2 DEF Adds
<1>4. IsFiniteSet(1..n) /\ Adds(Table(Lacks, 1..n), Lacks, 1..n)
  BY FS_Interval, TableAdds
<1>5. Grows(Table(Lacks, 1..n))
  BY <1>3, <1>4
<1> HIDE DEF Grows
<1>6. Grows(it)
  BY <1>5
<1>7. Adds(it, Lacks, 1..n)
  BY <1>3, <1>6
<1> HIDE DEF it
<1>8. 1..n \in SUBSET ((1..n) \cap (1..n))
  OBVIOUS
<1>9. it[1..n] = Table(Lacks, 1..n)[1..n]
  BY <1>4, <1>7, <1>8, SameTables
<1> QED
  BY <1>1, <1>9 DEF Total

LEMMA FirstNeedStep ==
  ASSUME waiters \in Seq(ItemSet)
  PROVE  /\ FirstNeed(0) = 0
         /\ \A n \in 0..Len(waiters) : FirstNeed(n) \in Nat
         /\ \A n \in 1..Len(waiters) : FirstNeed(n) = Need(waiters[n]) + FirstNeed(n - 1)
<1>1. \A i \in 1..Len(waiters) : Lacks[i] = Need(waiters[i]) /\ Lacks[i] \in Nat
  <2> SUFFICES ASSUME NEW i \in 1..Len(waiters) PROVE Lacks[i] = Need(waiters[i]) /\ Lacks[i] \in Nat
    OBVIOUS
  <2>1. waiters[i] \in Tasks
    BY NeedIs
  <2> QED
    BY <2>1, NeedIs DEF Lacks
<1>2. ASSUME NEW n \in 0..Len(waiters)
      PROVE  /\ FirstNeed(n) \in Nat /\ FirstNeed(n) = Total(Lacks, 1..n)
             /\ \A i \in 1..n : FirstNeed(n) = Need(waiters[i]) + Total(Lacks, (1..n) \ {i})
  <2>1. IsFiniteSet(1..n) /\ \A i \in 1..n : Lacks[i] \in Nat
    BY <1>1, FS_Interval
  <2>2. Total(Lacks, 1..n) \in Nat /\ \A i \in 1..n : Total(Lacks, 1..n) = Lacks[i] + Total(Lacks, (1..n) \ {i})
    BY <2>1, TotalWithout
  <2>3. FirstNeed(n) = Total(Lacks, 1..n)
    BY FirstNeedIs
  <2>4. \A i \in 1..n : Lacks[i] = Need(waiters[i])
    BY <1>1
  <2> QED
    BY <2>2, <2>3, <2>4
<1>3. FirstNeed(0) = 0
  <2>1. 1..0 = {} /\ 0 \in 0..Len(waiters)
    OBVIOUS
  <2>2. Total(Lacks, {}) = 0
    BY FS_EmptySet, TotalParts
  <2> QED
    BY <1>2, <2>1, <2>2
<1>4. ASSUME NEW n \in 1..Len(waiters) PROVE FirstNeed(n) = Need(waiters[n]) + FirstNeed(n - 1)
  <2>1. (1..n) \ {n} = 1..(n - 1) /\ n - 1 \in 0..Len(waiters) /\ n \in 0..Len(waiters) /\ n \in 1..n
    OBVIOUS
  <2>2. FirstNeed(n - 1) = Total(Lacks, 1..(n - 1))
    BY <1>2, <2>1
  <2>3. FirstNeed(n) = Need(waiters[n]) + Total(Lacks, (1..n) \ {n})
    BY <1>2, <2>1
  <2> QED
    BY <2>1, <2>2, <2>3
<1> QED
  BY <1>2, <1>3, <1>4

\* drain grants no more than is there.
LEMMA GrantedFits ==
  ASSUME waiters \in Seq(ItemSet), NEW avail \in Nat
  PROVE  FirstNeed(Granted(avail)) <= avail
<1> DEFINE D == {n \in 1..Len(waiters) : FirstNeed(n) <= avail}
           Out == {n \in Nat \ {0} : n \notin D}
           m == Min(Out)
<1>1. Len(waiters) \in Nat /\ Len(waiters) + 1 \in Out
  OBVIOUS
<1>2. m \in Out /\ \A i \in Out : m <= i
  BY <1>1, MinIs
<1> HIDE DEF m
<1>3. m \in Nat \ {0} /\ m <= Len(waiters) + 1 /\ \A i \in 1..(m - 1) : i \in D
  BY <1>1, <1>2
<1>4. \A n \in m..Len(waiters) : FirstNeed(n) > avail
  <2> DEFINE B == {n \in m..Len(waiters) : FirstNeed(n) <= avail}
  <2> SUFFICES ASSUME B # {} PROVE FALSE
    <3>1. \A n \in m..Len(waiters) : FirstNeed(n) \in Nat
      BY <1>3, FirstNeedStep
    <3> QED
      BY <3>1
  <2>1. B \in SUBSET Nat
    BY <1>3
  <2> DEFINE k == Min(B)
  <2>2. k \in B /\ \A i \in B : k <= i
    BY <2>1, MinIs
  <2> HIDE DEF k
  <2>3. k \in m..Len(waiters) /\ k \in 1..Len(waiters) /\ FirstNeed(k) <= avail
    BY <1>3, <2>2
  <2>4. k # m
    BY <1>2, <2>3
  <2>5. k - 1 \in m..Len(waiters) /\ k - 1 \notin B /\ k - 1 \in 0..Len(waiters)
    BY <1>3, <2>2, <2>3, <2>4
  <2>6. waiters[k] \in Tasks /\ Need(waiters[k]) \in Nat
    BY <2>3, NeedIs
  <2>7. FirstNeed(k) = Need(waiters[k]) + FirstNeed(k - 1) /\ FirstNeed(k - 1) \in Nat
    BY <2>3, <2>5, FirstNeedStep
  <2> QED
    BY <2>3, <2>5, <2>6, <2>7
<1>5. D = 1..(m - 1)
  <2>1. \A n \in 1..Len(waiters) : FirstNeed(n) \in Nat
    BY FirstNeedStep
  <2> QED
    BY <1>3, <1>4, <2>1
<1>6. Granted(avail) = m - 1
  <2>1. Cardinality(1..(m - 1)) = m - 1
    BY <1>3, FS_Interval
  <2> QED
    BY <1>5, <2>1 DEF Granted
<1> QED
  BY <1>3, <1>6, FirstNeedStep

\* Waiters that are let in add what drain took for them.
LEMMA Joined ==
  ASSUME waiters \in Seq(ItemSet), Distinct(waiters), NEW n \in 0..Len(waiters),
         NEW R \in SUBSET ItemSet, \A i \in 1..Len(waiters) : waiters[i] \notin R
  PROVE  Total(Weights, R \cup {waiters[i] : i \in 1..n}) = Total(Weights, R) + FirstNeed(n)
<1> DEFINE With(k) == R \cup {waiters[i] : i \in 1..k}
           B == {k \in 0..Len(waiters) : Total(Weights, With(k)) # Total(Weights, R) + FirstNeed(k)}
           k == Min(B)
<1> SUFFICES ASSUME B # {} PROVE FALSE
  OBVIOUS
<1>1. B \in SUBSET Nat
  OBVIOUS
<1>2. k \in B /\ \A i \in B : k <= i
  BY <1>1, MinIs
<1> HIDE DEF k
<1>3. k \in 0..Len(waiters) /\ Total(Weights, With(k)) # Total(Weights, R) + FirstNeed(k)
  BY <1>2
<1>4. Total(Weights, R) \in Nat
  BY WeightsAdd
<1>5. k # 0
  <2>1. With(0) = R
    OBVIOUS
  <2> HIDE DEF With
  <2>2. FirstNeed(0) = 0
    BY FirstNeedStep
  <2> QED
    BY <1>3, <1>4, <2>1, <2>2
<1> DEFINE x == waiters[k]
<1>6. k \in 1..Len(waiters) /\ k - 1 \in 0..Len(waiters) /\ k - 1 \notin B /\ x \in ItemSet
  BY <1>2, <1>3, <1>5
<1>7. Total(Weights, With(k - 1)) = Total(Weights, R) + FirstNeed(k - 1)
  BY <1>6
<1>8. With(k) \in SUBSET ItemSet /\ x \in With(k) /\ With(k) \ {x} = With(k - 1)
  <2>1. \A i \in 1..k - 1 : waiters[i] # x
    BY <1>6 DEF Distinct
  <2>2. x \notin R
    BY <1>6
  <2>3. With(k) = With(k - 1) \cup {x}
    BY <1>6
  <2> QED
    BY <1>6, <2>1, <2>2, <2>3
<1> HIDE DEF With, B, x
<1>9. Total(Weights, With(k)) = Need(x) + Total(Weights, With(k - 1))
  BY <1>8, WeightsAdd
<1>10. FirstNeed(k) = Need(x) + FirstNeed(k - 1) /\ FirstNeed(k - 1) \in Nat /\ Need(x) \in Nat
  BY <1>6, FirstNeedStep, NeedIs DEF x
<1> QED
  BY <1>3, <1>4, <1>7, <1>9, <1>10

LEMMA TransfersUnder == Transferring = {f \in ItemSet : pc[f] \in Under}
  BY DEF Transferring, Under

LEMMA SameBalance ==
  ASSUME Balance, free' = free, \A g \in ItemSet : pc'[g] \in Under <=> pc[g] \in Under
  PROVE  Balance'
<1>1. Transferring' = Transferring
  BY DEF Transferring, Under
<1> QED
  BY <1>1 DEF Balance

LEMMA AcquireBalance ==
  ASSUME IInv, Balance, NEW f \in ItemSet, pc[f] \in {"started", "chained"}, Acquire(f)
  PROVE  Balance'
<1>1. f \in Tasks /\ pc \in [Tasks -> Pcs] /\ ItemSet \subseteq Tasks /\ Need(f) \in Nat
  BY NeedIs DEF IInv, Shape
<1>2. pc[f] \notin Under /\ First(f) \in Under /\ "waiting" \notin Under
  BY DEF Under, OnWire, First
<1>3. CASE Need(f) <= free
  <2>1. free' = free - Need(f) /\ pc' = [pc EXCEPT ![f] = First(f)]
    BY <1>3 DEF Acquire, Goto
  <2>2. Transferring' \in SUBSET ItemSet /\ f \in Transferring' /\ Transferring' \ {f} = Transferring
    BY <1>1, <1>2, <2>1 DEF Transferring, Under
  <2>3. Total(Weights, Transferring') = Need(f) + Total(Weights, Transferring)
    BY <2>2, WeightsAdd
  <2>4. Total(Weights, Transferring) \in Nat
    BY WeightsAdd DEF Transferring
  <2> QED
    BY <1>1, <1>3, <2>1, <2>3, <2>4, NumbersAssumption DEF Balance
<1>4. CASE ~(Need(f) <= free)
  <2>1. free' = free /\ pc' = [pc EXCEPT ![f] = "waiting"]
    BY <1>4 DEF Acquire, Goto
  <2> QED
    BY <1>1, <1>2, <2>1, SameBalance
<1> QED
  BY <1>3, <1>4

\* What a transfer gives back goes to the waiters that fit, and the rest is free.
LEMMA FinishBalance ==
  ASSUME IInv, Balance, NEW f \in Tasks, pc[f] \in Under, NEW r, Finish(f, r)
  PROVE  Balance'
<1>1. /\ pc \in [Tasks -> Pcs] /\ ItemSet \subseteq Tasks
      /\ waiters \in Seq(ItemSet) /\ Standing(waiters, "waiting") /\ Standing(queue, "queued")
  BY DEF IInv, Shape, Tasks
<1>2. CASE f \in Others
  <2>1. pc' = [pc EXCEPT ![f] = "done"] /\ free' = free /\ f \notin ItemSet
    BY <1>2, ItemsAssumption DEF Finish, limits
  <2> QED
    BY <1>1, <2>1, SameBalance
<1>3. CASE f \notin Others
  <2> DEFINE avail == free + Need(f)
             n == Granted(avail)
             woken == {waiters[i] : i \in 1..n}
             rest == Transferring \ {f}
  <2>1. /\ pc' = [g \in Tasks |-> IF g = f THEN "done" ELSE IF g \in woken THEN First(g)
                                  ELSE SlotTo(pc[g], g)]
    BY <1>3 DEF Finish
  <2>9. free' = free + (Need(f) - FirstNeed(n))
    BY <1>3 DEF Finish
  <2>2. n \in 0..Len(waiters) /\ Need(f) \in Nat /\ avail \in Nat
    BY <1>1, GrantedType, NeedIs DEF Balance
  <2>3. FirstNeed(n) <= avail /\ FirstNeed(n) \in Nat
    BY <1>1, <2>2, GrantedFits, FirstNeedStep
  <2>4. f \in ItemSet /\ f \in Transferring /\ Transferring \in SUBSET ItemSet
    BY <1>3, TransfersUnder DEF Tasks
  <2>5. Total(Weights, Transferring) = Need(f) + Total(Weights, rest) /\ Total(Weights, rest) \in Nat
    BY <2>4, WeightsAdd
  <2> HIDE DEF n, avail
  <2>6. Transferring' = rest \cup woken
    <3>1. \A g \in Tasks : First(g) \in Under /\ "done" \notin Under /\ "started" \notin Under /\ "queued" \notin Under
      BY DEF First, Under, OnWire
    <3>2. \A g \in woken : g \in ItemSet /\ pc[g] = "waiting" /\ g # f
      BY <1>1, <2>2 DEF Standing, Under, OnWire
    <3>3. \A g \in ItemSet : SlotTo(pc[g], g) \in Under <=> pc[g] \in Under
      BY <1>1, <3>1 DEF SlotTo, Standing
    <3>4. \A g \in ItemSet : pc'[g] \in Under <=> g \in woken \/ (g # f /\ pc[g] \in Under)
      BY <1>1, <2>1, <2>4, <3>1, <3>2, <3>3
    <3> QED
      BY <3>2, <3>4 DEF Transferring, Under
  <2>7. Total(Weights, Transferring') = Total(Weights, rest) + FirstNeed(n)
    <3>1. \A i \in 1..Len(waiters) : waiters[i] \notin rest
      BY <1>1 DEF Standing, Transferring, OnWire
    <3>2. Distinct(waiters) /\ rest \in SUBSET ItemSet
      BY <1>1, <2>4 DEF Standing
    <3> HIDE DEF rest
    <3> QED
      BY <1>1, <2>2, <2>6, <3>1, <3>2, Joined
  <2> QED
    BY <2>2, <2>3, <2>5, <2>7, <2>9, NumbersAssumption DEF Balance, avail
<1> QED
  BY <1>2, <1>3

LEMMA StartBalance ==
  ASSUME IInv, Balance, NEW f \in Tasks, Start(f) \/ RunOne(f)
  PROVE  Balance'
<1>1. /\ pc \in [Tasks -> Pcs] /\ ItemSet \subseteq Tasks /\ pc[f] \in {"started", "chained"}
      /\ f \in ItemSet /\ Standing(queue, "queued")
  BY PastLimiter DEF IInv, Shape, Tasks, Start, RunOne
<1>2. {"started", "chained", "queued", "done"} \cap Under = {}
  BY DEF Under, OnWire
<1>3. CASE Start(f) /\ cancelled
  <2>1. free' = free /\ pc' = [g \in Tasks |-> IF g = f THEN "done" ELSE SlotTo(pc[g], g)]
    BY <1>3 DEF Start
  <2>2. \A g \in ItemSet : SlotTo(pc[g], g) \in Under <=> pc[g] \in Under
    BY <1>1, <1>2 DEF SlotTo, Standing
  <2> QED
    BY <1>1, <1>2, <2>1, <2>2, SameBalance
<1>4. CASE Start(f) /\ ~cancelled /\ SerializeByDir
  <2>1. free' = free /\ pc' = [pc EXCEPT ![f] = "chained"]
    BY <1>4, NumbersAssumption DEF Start, Goto
  <2> QED
    BY <1>1, <1>2, <2>1, SameBalance
<1>5. CASE (Start(f) /\ ~cancelled /\ ~SerializeByDir) \/ RunOne(f)
  <2>1. Acquire(f)
    BY <1>5 DEF Start, RunOne
  <2> QED
    BY <1>1, <2>1, AcquireBalance
<1> QED
  BY <1>3, <1>4, <1>5

LEMMA ProgressBalance ==
  ASSUME IInv, Balance, NEW f \in Tasks, pc[f] \in Under, Progress(f)
  PROVE  Balance'
<1>1. ASSUME NEW label \in Under, NEW r, Step(f, label, r) PROVE Balance'
  <2>1. free' = free /\ pc' = [pc EXCEPT ![f] = label] /\ pc \in [Tasks -> Pcs] /\ ItemSet \subseteq Tasks
    BY <1>1 DEF Step, Goto, limits, IInv, Shape, Tasks
  <2> QED
    BY <2>1, SameBalance
<1> QED
  BY <1>1, FinishBalance DEF Progress

LEMMA NextBalance ==
  ASSUME IInv, Balance, [Next]_vars
  PROVE  Balance'
<1>1. ASSUME NEW f \in Tasks, OwnStep(f) PROVE Balance'
  BY <1>1, OwnStepProgress, ProgressBalance
<1>2. ASSUME NEW f \in Tasks, MkcolProves(f) \/ MkcolFails(f) PROVE Balance'
  <2>1. /\ free' = free
        /\ \A g \in ItemSet :
               pc'[g] = pc[g] \/ (pc[g] \in {"mkcol", "join"} /\ pc'[g] \in {"ask", "nodir"})
    <3>1. ItemSet \subseteq Tasks /\ \A g \in Waiting(f) : pc[g] \in {"mkcol", "join"}
      BY <1>2 DEF MkcolProves, MkcolFails, Waiting, Tasks
    <3>2. UNCHANGED limits
      BY <1>2 DEF MkcolProves, MkcolFails
    <3>3. PICK label \in {"ask", "nodir"} : pc' = [g \in Tasks |-> IF g \in Waiting(f) THEN label ELSE pc[g]]
      BY <1>2 DEF MkcolProves, MkcolFails
    <3>4. \A g \in Tasks : pc'[g] = pc[g] \/ (g \in Waiting(f) /\ pc'[g] = label)
      BY <3>3
    <3>5. free' = free
      BY <3>2 DEF limits
    <3> QED
      BY <3>1, <3>4, <3>5
  <2> QED
    BY <2>1, SameBalance DEF Under, OnWire
<1>3. ASSUME NEW f \in Tasks, StartOther(f) PROVE Balance'
  <2>1. free' = free /\ f \notin ItemSet /\ \A g \in Tasks \ {f} : pc'[g] = pc[g]
    BY <1>3, ItemsAssumption DEF StartOther, Goto, limits, IInv, Shape
  <2> QED
    BY <2>1, SameBalance DEF Tasks
<1>4. CASE (\E d \in Dirs : ForeignRemove(d)) \/ RequestStop \/ UNCHANGED vars
  BY <1>4, SameBalance DEF ForeignRemove, RequestStop, vars, limits
<1> QED
  BY <1>1, <1>2, <1>3, <1>4, StartBalance DEF Next, Event, Callback, Answer, OwnStep

LEMMA InitBalance == Init => Balance
<1> SUFFICES ASSUME Init PROVE Balance
  OBVIOUS
<1>1. \A f \in ItemSet : pc[f] \in {"idle", "started", "queued"}
  BY DEF Init, Tasks
<1>2. Transferring = {}
  BY <1>1 DEF Transferring, OnWire
<1>3. Total(Weights, Transferring) = 0
  BY <1>2, FS_EmptySet, TotalParts
<1> QED
  BY <1>3, NumbersAssumption DEF Init, Balance

\* ByteSemaphore: the bodies in memory stay within MAX_INFLIGHT_BYTES unless one file
\* alone is larger, for every list of uploads and sizes, and whoever waits and fails.
THEOREM BytesBounded == Spec => []BytesAreBounded
<1>1. Balance => BytesAreBounded
  <2> SUFFICES ASSUME Balance, ~(\E f \in Transferring : \A g \in Transferring \ {f} : Bytes[g] = 0)
               PROVE  MapThenSumSet(LAMBDA f : Bytes[f], Transferring) <= Budget
    BY DEF BytesAreBounded
  <2>1. Transferring \in SUBSET ItemSet /\ IsFiniteSet(Transferring)
    BY ItemsFinite DEF Transferring
  <2>2. \A f \in Transferring : Bytes[f] \in Nat /\ Weights[f] = Need(f) /\ Weights[f] \in Nat
    BY <2>1, NeedIs, NumbersAssumption
  <2>3. ASSUME NEW f \in Transferring, Bytes[f] > Budget PROVE FALSE
    <3>1. Need(f) = Budget
      BY <2>2, <2>3, NumbersAssumption DEF Need
    <3>2. Total(Weights, Transferring) = Need(f) + Total(Weights, Transferring \ {f})
      BY <2>1, WeightsAdd
    <3>3. Transferring \ {f} \in SUBSET ItemSet /\ Total(Weights, Transferring \ {f}) \in Nat
      BY <2>1, WeightsAdd
    <3>4. Total(Weights, Transferring \ {f}) = 0
      BY <3>1, <3>2, <3>3, NumbersAssumption DEF Balance
    <3>5. ASSUME NEW g \in Transferring \ {f} PROVE Bytes[g] = 0
      <4>1. Total(Weights, Transferring \ {f}) = Need(g) + Total(Weights, (Transferring \ {f}) \ {g})
        BY <3>3, WeightsAdd
      <4>2. Total(Weights, (Transferring \ {f}) \ {g}) \in Nat
        BY <3>3, WeightsAdd
      <4>3. Need(g) = 0
        BY <2>2, <3>4, <4>1, <4>2
      <4> QED
        BY <2>2, <4>3, NumbersAssumption DEF Need
    <3> QED
      BY <3>5
  <2>4. \A f \in Transferring : Bytes[f] = Weights[f]
    BY <2>2, <2>3, NumbersAssumption DEF Need
  <2>5. Total(Bytes, Transferring) = Total(Weights, Transferring)
    BY <2>1, <2>4, SameTotal
  <2>6. Total(Weights, Transferring) \in Nat /\ Total(Weights, Transferring) <= Budget
    BY <2>1, WeightsAdd, NumbersAssumption DEF Balance
  <2> QED
    BY <2>5, <2>6, SumIsTotal
<1> QED
  BY InitHolds, NextKeeps, InitBalance, NextBalance, <1>1, PTL DEF Spec
-----------------------------------------------------------------------------
(* The types, and the whole of Safety. *)

Rest == /\ cancelled \in BOOLEAN /\ proven \subseteq Dirs /\ srvDirs \subseteq Dirs
        /\ foreign \in 0..MaxForeign /\ faults \in 0..MaxFaults

LEMMA AskedType ==
  ASSUME Learned, NEW f \in Tasks, pc[f] \in Asking
  PROVE  Asked(f) \in Dirs
  BY OpIs DEF Learned, Known, Sound, Asked, AboveSet

LEMMA InitRest == Init => Rest
<1> SUFFICES ASSUME Init PROVE Rest
  OBVIOUS
<1>1. cancelled = FALSE /\ proven = {} /\ srvDirs \in SUBSET Dirs /\ foreign = 0 /\ faults = 0
  BY DEF Init
<1>2. 0 \in 0..MaxForeign /\ 0 \in 0..MaxFaults
  BY NumbersAssumption
<1>3. cancelled \in BOOLEAN
  BY <1>1
<1> QED
  BY <1>1, <1>2, <1>3, Zenon DEF Rest

LEMMA NextRest ==
  ASSUME IInv, Learned, Rest, [Next]_vars
  PROVE  Rest'
<1>1. ASSUME NEW f \in Tasks, Callback(f) PROVE Rest'
  BY <1>1 DEF Callback, Start, RunOne, EnsureLevel, FolderFailed, server, budgets, Rest
<1>2. ASSUME NEW f \in Tasks, Answer(f) PROVE Rest'
  <2>1. ASSUME MkcolProves(f) \/ MkcolFails(f) PROVE Rest'
    <3>1. Asked(f) \in Dirs
      BY <2>1, AskedType DEF MkcolProves, MkcolFails, Asking
    <3> QED
      BY <2>1, <3>1, NumbersAssumption DEF MkcolProves, MkcolFails, Excused, Fault, budgets, Rest
  <2>2. ASSUME Written(f) \/ MissingParent(f) \/ ChunkSent(f) \/ Discard(f) PROVE Rest'
    BY <2>2, NumbersAssumption DEF Written, MissingParent, ChunkSent, Discard, Recover, Forget, Fault, server, budgets, Rest
  <2>3. ASSUME WriteFails(f) \/ ChunkFails(f) \/ Verify(f) \/ DiscardFails(f) PROVE Rest'
    BY <2>3, NumbersAssumption DEF WriteFails, ChunkFails, Verify, DiscardFails, Excused, Fault, server, budgets, Rest
  <2> QED
    BY <1>2, <2>1, <2>2, <2>3 DEF Answer
<1>3. CASE Event
  <2>1. ASSUME NEW f \in Tasks, StartOther(f) PROVE Rest'
    BY <2>1 DEF StartOther, server, budgets, Rest
  <2>2. ASSUME NEW d \in Dirs, ForeignRemove(d) PROVE Rest'
    <3>1. UNCHANGED <<cancelled, proven, faults>> /\ srvDirs' \subseteq srvDirs
          /\ foreign < MaxForeign /\ foreign' = foreign + 1
      BY <2>2 DEF ForeignRemove
    <3> QED
      BY <3>1, NumbersAssumption DEF Rest
  <2>3. ASSUME RequestStop PROVE Rest'
    BY <2>3 DEF RequestStop, server, budgets, Rest
  <2> QED
    BY <1>3, <2>1, <2>2, <2>3 DEF Event
<1>4. CASE UNCHANGED vars
  BY <1>4 DEF vars, Rest
<1> QED
  BY <1>1, <1>2, <1>3, <1>4 DEF Next

\* The types, the bounds on slots and bytes, and nothing left behind on the server.
THEOREM BatchSafe == Spec => []Safety
<1>1. IInv /\ Learned /\ Slots /\ Balance /\ Rest => TypeOK
  <2> SUFFICES ASSUME IInv, Learned, Slots, Balance, Rest PROVE TypeOK
    OBVIOUS
  <2>1. free \in 0..Budget
    <3>1. Total(Weights, Transferring) \in Nat
      BY WeightsAdd DEF Transferring
    <3> QED
      BY <3>1, NumbersAssumption DEF Balance
  <2>2. active \in 0..Limit
    BY NumbersAssumption DEF Slots
  <2> QED
    BY <2>1, <2>2 DEF TypeOK, IInv, Shape, Learned, Rest
<1>2. Spec => []TypeOK
  BY <1>1, InitHolds, NextKeeps, InitLearned, NextLearned, InitSlots, NextSlots,
     InitBalance, NextBalance, InitRest, NextRest, PTL DEF Spec
<1> QED
  BY <1>2, SlotsBounded, BytesBounded, SessionsDiscarded, PTL DEF Safety, MemoryIsBounded
=============================================================================
