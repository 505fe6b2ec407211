-------------------------- MODULE CheckedDesignProofs --------------------------
(****************************************************************************)
(* Theorems about CheckedDesign for any number of wires, any leaves and any *)
(* drivers: the search misses no cycle of recorded reads, an evaluation can *)
(* only meet a cycle that goes through a bundle field, and what it          *)
(* remembers solves the drivers' equations.                                 *)
(****************************************************************************)
EXTENDS CheckedDesign, TLAPS, SequenceTheorems, FiniteSetTheorems

Slot == [node : Wire, leaving : BOOLEAN]

\* The stack of the search holds slots: a wire and whether it is being left.
LEMMA SlotType ==
  ASSUME NEW s \in Seq(Slot), NEW i \in 1..Len(s)
  PROVE  s[i] \in Slot /\ s[i].node \in Wire /\ s[i].leaving \in BOOLEAN
<1>1. s[i] \in Slot BY ElementOfSeq
<1> QED BY <1>1 DEF Slot

\* Popping the search's stack.
LEMMA FrontType ==
  ASSUME NEW S, NEW s \in Seq(S), s # <<>>
  PROVE  /\ Len(s) \in Nat \ {0} /\ Last(s) \in S
         /\ Front(s) \in Seq(S) /\ Len(Front(s)) = Len(s) - 1
         /\ \A i \in 1..(Len(s) - 1) : Front(s)[i] = s[i]
<1>1. Len(s) \in Nat \ {0} /\ \A i \in 1..(Len(s) - 1) : s[i] \in S
  BY EmptySeq, LenProperties
<1>2. /\ SubSeq(s, 1, Len(s) - 1) \in Seq(S)
      /\ Len(SubSeq(s, 1, Len(s) - 1)) = Len(s) - 1
      /\ \A i \in 1..(Len(s) - 1) : SubSeq(s, 1, Len(s) - 1)[i] = s[i]
  <2> DEFINE n == Len(s) - 1  f == SubSeq(s, 1, n)
  <2>1. n \in Nat /\ 1 \in Int /\ n \in Int /\ \A i \in 1..n : s[i] \in S
    BY <1>1
  <2> HIDE DEF n
  <2>2. /\ f \in Seq(S) /\ Len(f) = IF 1 <= n THEN n - 1 + 1 ELSE 0
        /\ \A i \in 1..(n - 1 + 1) : f[i] = s[1 + i - 1]
    BY <2>1, SubSeqProperties
  <2> HIDE DEF f
  <2>3. f \in Seq(S) /\ Len(f) = n /\ \A i \in 1..n : f[i] = s[i]
    <3>1. Len(f) = n BY <2>1, <2>2
    <3>2. ASSUME NEW i \in 1..n PROVE f[i] = s[i]
      <4>1. i \in 1..(n - 1 + 1) /\ 1 + i - 1 = i BY <2>1
      <4> QED BY <2>2, <4>1
    <3> QED BY <2>2, <3>1, <3>2
  <2> QED BY <2>3 DEF n, f
<1>3. s[Len(s)] \in S BY <1>1, ElementOfSeq
<1> QED BY <1>1, <1>2, <1>3 DEF Front, Last

\* The fields of the two kinds of slots.
LEMMA SlotFields ==
  ASSUME NEW w
  PROVE  /\ Entry(w).node = w /\ Entry(w).leaving = FALSE
         /\ Leaving(w).node = w /\ Leaving(w).leaving = TRUE
         /\ w \in Wire => Entry(w) \in Slot /\ Leaving(w) \in Slot
BY DEF Entry, Leaving, Slot

\* Entering a wire and leaving one are different slots.
LEMMA EntryNotLeaving == ASSUME NEW w, NEW v PROVE Entry(w) # Leaving(v)
BY SlotFields

\* A function on 1..k is a sequence of length k.
LEMMA FunctionSeq ==
  ASSUME NEW S, NEW k \in Nat, NEW u \in [1..k -> S]
  PROVE  u \in Seq(S) /\ Len(u) = k
OBVIOUS

\* Replacing the slot on top by e.
LEMMA TopReplaced ==
  ASSUME NEW s \in Seq(Slot), s # <<>>, NEW e \in Slot
  PROVE  /\ Len(s) \in Nat \ {0}
         /\ Front(s) \o <<e>> \in Seq(Slot) /\ Len(Front(s) \o <<e>>) = Len(s)
         /\ (Front(s) \o <<e>>)[Len(s)] = e
         /\ \A i \in 1..(Len(s) - 1) : (Front(s) \o <<e>>)[i] = s[i]
<1> DEFINE f == Front(s)  g == <<e>>
<1>1. g \in Seq(Slot) /\ Len(g) = 1 /\ g[1] = e
  OBVIOUS
<1>2. /\ Len(s) \in Nat \ {0} /\ f \in Seq(Slot) /\ Len(f) = Len(s) - 1
      /\ \A i \in 1..(Len(s) - 1) : f[i] = s[i]
  BY FrontType
<1> HIDE DEF f, g
<1>3. /\ f \o g \in Seq(Slot) /\ Len(f \o g) = Len(f) + Len(g)
      /\ \A i \in 1..(Len(f) + Len(g)) : (f \o g)[i] = IF i <= Len(f) THEN f[i] ELSE g[i - Len(f)]
  BY <1>1, <1>2, ConcatProperties
<1>4. Len(s) - (Len(s) - 1) = 1 /\ Len(s) \in 1..(Len(f) + Len(g)) BY <1>1, <1>2
<1>5. (f \o g)[Len(s)] = e BY <1>1, <1>2, <1>3, <1>4
<1>6. \A i \in 1..(Len(s) - 1) : (f \o g)[i] = s[i] BY <1>1, <1>2, <1>3
<1> QED BY <1>1, <1>2, <1>3, <1>5, <1>6 DEF f, g

\* Putting the slots of u on top of p.
LEMMA PutOn ==
  ASSUME NEW p \in Seq(Slot), NEW u \in Seq(Slot)
  PROVE  /\ Len(p) \in Nat /\ Len(u) \in Nat
         /\ p \o u \in Seq(Slot) /\ Len(p \o u) = Len(p) + Len(u)
         /\ \A i \in 1..Len(p) : (p \o u)[i] = p[i]
         /\ \A i \in 1..Len(u) : (p \o u)[Len(p) + i] = u[i]
<1>1. Len(p) \in Nat /\ Len(u) \in Nat BY LenProperties
<1>2. /\ p \o u \in Seq(Slot) /\ Len(p \o u) = Len(p) + Len(u)
      /\ \A i \in 1..(Len(p) + Len(u)) : (p \o u)[i] = IF i <= Len(p) THEN p[i] ELSE u[i - Len(p)]
  BY ConcatProperties
<1>3. ASSUME NEW i \in 1..Len(u) PROVE (p \o u)[Len(p) + i] = u[i]
  <2>1. Len(p) + i \in 1..(Len(p) + Len(u)) /\ ~(Len(p) + i <= Len(p)) /\ (Len(p) + i) - Len(p) = i
    BY <1>1
  <2> QED BY <1>2, <2>1
<1>4. \A i \in 1..Len(p) : (p \o u)[i] = p[i] BY <1>1, <1>2
<1> QED BY <1>1, <1>2, <1>3, <1>4

\* The slots of a wire's reads, in the order of their declarations.
Slots(q) == [i \in DOMAIN q |-> Entry(q[i])]

\* The slots pushed for a sorted set enter its members and nothing else.
LEMMA SortedType ==
  ASSUME NEW S \in SUBSET Wire, NEW q \in Sorted(S)
  PROVE  /\ Slots(q) \in Seq(Slot)
         /\ \A i \in 1..Len(Slots(q)) : Slots(q)[i].leaving = FALSE /\ Slots(q)[i].node \in S
         /\ \A v \in S : \E i \in 1..Len(Slots(q)) : Slots(q)[i].node = v
<1> DEFINE k == Cardinality(S)  u == Slots(q)
<1>1. k \in Nat
  <2>1. 1 \in Int /\ N \in Int BY NetlistAssumptionHolds DEF NetlistAssumption
  <2>2. IsFiniteSet(1..N) BY <2>1, FS_Interval
  <2>3. IsFiniteSet(S) BY <2>2, FS_Subset DEF Wire
  <2> QED BY <2>3, FS_CardinalityType
<1>2. q \in [1..k -> S] /\ \A v \in S : \E i \in DOMAIN q : q[i] = v
  BY DEF Sorted
<1> HIDE DEF k
<1>3. u \in [1..k -> Slot] /\ \A i \in 1..k : u[i] = Entry(q[i])
  BY <1>2, SlotFields DEF Slots
<1> HIDE DEF u
<1>4. u \in Seq(Slot) /\ Len(u) = k
  BY <1>1, <1>3, FunctionSeq
<1>5. ASSUME NEW i \in 1..k PROVE u[i].leaving = FALSE /\ u[i].node = q[i] /\ q[i] \in S
  <2>1. u[i] = Entry(q[i]) BY <1>3
  <2> QED BY <1>2, <2>1, SlotFields
<1>6. ASSUME NEW v \in S PROVE \E i \in 1..k : u[i].node = v
  <2>1. PICK i \in 1..k : q[i] = v BY <1>2
  <2> QED BY <1>5, <2>1
<1>7. /\ u \in Seq(Slot) /\ \A i \in 1..Len(u) : u[i].leaving = FALSE /\ u[i].node \in S
      /\ \A v \in S : \E i \in 1..Len(u) : u[i].node = v
  BY <1>4, <1>5, <1>6
<1> QED BY <1>7 DEF u
-----------------------------------------------------------------------------
\* The part of DfsTypeOK that the search depends on.
Searching ==
  /\ root \in 1..(N + 1) /\ stack \in Seq(Slot)
  /\ color \in [Wire -> {"white", "grey", "black"}]
  /\ left \in Nat /\ finish \in [Wire -> 0..left]

\* The grey wires are those on the stack to be left, each once.
GreyOnStack ==
  /\ \A w \in Wire : color[w] = "grey" <=> \E i \in DOMAIN stack : stack[i] = Leaving(w)
  /\ \A i, j \in DOMAIN stack :
       stack[i].leaving /\ stack[j].leaving /\ stack[i].node = stack[j].node => i = j

\* What a grey wire reads is done, or has a slot above it.
ReadsFirst ==
  \A i \in DOMAIN stack : stack[i].leaving =>
    \A v \in Edges(stack[i].node) :
      color[v] = "black" \/ \E j \in DOMAIN stack : j > i /\ stack[j].node = v

BlackOrdered ==
  \A w \in Wire : color[w] = "black" =>
    \A v \in Edges(w) : color[v] = "black" /\ finish[v] < finish[w]

RootsMet ==
  \A w \in Wire : w < root => color[w] # "white" \/ \E j \in DOMAIN stack : stack[j].node = w

DfsInv ==
  /\ Searching /\ GreyOnStack /\ RootsMet
  /\ cycles = {} => ReadsFirst /\ BlackOrdered

\* What a wire's driver reads are wires.
LEMMA EdgesType == ASSUME NEW w \in Wire PROVE Edges(w) \in SUBSET Wire
BY DEF Edges, ExprReads

\* The search begins in its invariant.
LEMMA DfsInitInv == ASSUME DfsInit PROVE DfsInv
<1>1. stack = <<>> /\ DOMAIN stack = {} BY DEF DfsInit
<1>2. Searching BY <1>1, NetlistAssumptionHolds DEF DfsInit, Searching, NetlistAssumption
<1> QED
  BY <1>1, <1>2 DEF DfsInit, DfsInv, GreyOnStack, RootsMet, ReadsFirst, BlackOrdered, Wire

\* With nothing left to walk and nothing reported, the order of finishing is
\* one in which every wire comes after all it reads.
LEMMA DfsOrdered == ASSUME DfsInv PROVE Ordered
<1> SUFFICES ASSUME Accepted PROVE \A w \in Wire : \A v \in Edges(w) : finish[v] < finish[w]
  BY DEF Ordered
<1>1. stack = <<>> /\ DOMAIN stack = {} /\ root > N BY DEF Accepted, Walked
<1>2. \A w \in Wire : w < root
  BY <1>1, NetlistAssumptionHolds DEF DfsInv, Searching, Wire, NetlistAssumption
<1>3. \A w \in Wire : color[w] = "black"
  BY <1>1, <1>2 DEF DfsInv, Searching, GreyOnStack, RootsMet
<1> QED BY <1>3 DEF Accepted, DfsInv, BlackOrdered
-----------------------------------------------------------------------------
\* Starting the search at the next wire not yet seen keeps its invariant.
LEMMA NextRootInv == ASSUME DfsInv, NextRoot, UNCHANGED comb PROVE DfsInv'
<1>1. root \in Wire /\ stack = <<>> /\ DOMAIN stack = {}
  BY NetlistAssumptionHolds DEF DfsInv, Searching, NextRoot, Wire, NetlistAssumption
<1>2. CASE color[root] = "white"
  <2>1. stack' = <<Entry(root)>> /\ DOMAIN stack' = {1} /\ stack'[1] = Entry(root)
    BY <1>2 DEF NextRoot
  <2>2. Searching'
    <3>0. Entry(root) \in Slot BY <1>1, SlotFields
    <3>1. stack' \in Seq(Slot) BY <2>1, <3>0
    <3>2. root' \in 1..(N + 1)
      BY <1>1, NetlistAssumptionHolds DEF NextRoot, Wire, NetlistAssumption
    <3> QED BY <3>1, <3>2 DEF DfsInv, Searching, NextRoot
  <2>3. GreyOnStack' BY <1>1, <2>1 DEF DfsInv, GreyOnStack, NextRoot, Entry, Leaving
  <2>4. RootsMet'
    BY <1>1, <2>1 DEF DfsInv, Searching, RootsMet, NextRoot, Entry, Wire
  <2>5. ReadsFirst' BY <2>1 DEF ReadsFirst, Entry
  <2> QED BY <2>2, <2>3, <2>4, <2>5 DEF DfsInv, BlackOrdered, NextRoot, Edges
<1>3. CASE color[root] # "white"
  <2>1. stack' = <<>> /\ DOMAIN stack' = {}
    BY <1>3 DEF NextRoot
  <2>2. Searching'
    BY <1>1, <2>1, NetlistAssumptionHolds
       DEF DfsInv, Searching, NextRoot, Wire, NetlistAssumption
  <2>3. GreyOnStack' BY <1>1, <2>1 DEF DfsInv, GreyOnStack, NextRoot
  <2>4. RootsMet'
    BY <1>1, <1>3, <2>1 DEF DfsInv, Searching, RootsMet, NextRoot, Wire
  <2>5. ReadsFirst' BY <2>1 DEF ReadsFirst
  <2> QED BY <2>2, <2>3, <2>4, <2>5 DEF DfsInv, BlackOrdered, NextRoot, Edges
<1> QED BY <1>2, <1>3

\* What the four steps of the inner loop share: the slot on top is for w.
LEMMA PoppedType ==
  ASSUME DfsInv, NEW w \in Wire, NEW b \in BOOLEAN, Popped(w, b)
  PROVE  /\ stack \in Seq(Slot) /\ stack # <<>> /\ Len(stack) \in Nat \ {0}
         /\ Len(stack) \in DOMAIN stack /\ DOMAIN stack = 1..Len(stack)
         /\ stack[Len(stack)] = [node |-> w, leaving |-> b]
         /\ Front(stack) \in Seq(Slot) /\ Len(Front(stack)) = Len(stack) - 1
         /\ DOMAIN Front(stack) = 1..(Len(stack) - 1)
         /\ \A i \in 1..(Len(stack) - 1) : Front(stack)[i] = stack[i]
         /\ \A i \in 1..Len(stack) : stack[i].node \in Wire
<1>1. stack \in Seq(Slot) /\ stack # <<>> BY DEF DfsInv, Searching, Popped
<1>2. \A i \in 1..Len(stack) : stack[i].node \in Wire
  BY <1>1, SlotType
<1> QED BY <1>1, <1>2, FrontType DEF Popped, Last

\* A place in a stack is its top or below it.
LEMMA TopOrBelow ==
  ASSUME NEW n \in Nat \ {0}, NEW i \in 1..n
  PROVE  i = n \/ i \in 1..(n - 1)
OBVIOUS

\* Each place of a longer sequence is below the n-th, the n-th, or above it.
LEMMA BelowTopAbove ==
  ASSUME NEW n \in Nat \ {0}, NEW m \in Nat, NEW i \in 1..m
  PROVE  i \in 1..(n - 1) \/ i = n \/ i \in (n + 1)..m
OBVIOUS

\* A slot on the stack is the one on top, which is for w, or stays.
LEMMA SlotStays ==
  ASSUME DfsInv, NEW w \in Wire, NEW b \in BOOLEAN, Popped(w, b),
         NEW j \in 1..Len(stack)
  PROVE  \/ j = Len(stack) /\ stack[j].node = w
         \/ j \in 1..(Len(stack) - 1) /\ Front(stack)[j] = stack[j]
<1>1. CASE j = Len(stack)
  <2>1. stack[j] = [node |-> w, leaving |-> b] BY <1>1, PoppedType
  <2> QED BY <1>1, <2>1
<1>2. CASE j # Len(stack)
  BY <1>2, PoppedType, TopOrBelow
<1> QED BY <1>1, <1>2

\* Leaving a wire, now done, keeps the invariant of the search.
LEMMA LeaveInv ==
  ASSUME DfsInv, NEW w \in Wire, Leave(w), UNCHANGED comb PROVE DfsInv'
<1> DEFINE L == Len(stack)
<1>1. Popped(w, TRUE) /\ stack' = Front(stack) /\ cycles' = cycles /\ root' = root
  BY DEF Leave
<1>2. color' = [color EXCEPT ![w] = "black"] /\ left' = left + 1
      /\ finish' = [finish EXCEPT ![w] = left + 1]
  BY DEF Leave
<1>3. L \in Nat \ {0} /\ stack[L] = Leaving(w) /\ DOMAIN stack = 1..L
      /\ DOMAIN stack' = 1..(L - 1) /\ stack' \in Seq(Slot)
      /\ (\A i \in 1..(L - 1) : stack'[i] = stack[i])
      /\ \A i \in 1..L : stack[i].node \in Wire
  BY <1>1, PoppedType DEF Leaving
<1>4. color[w] = "grey"
  BY <1>3 DEF DfsInv, GreyOnStack
<1>5. Searching' BY <1>1, <1>2, <1>3 DEF DfsInv, Searching
<1>6. GreyOnStack'
  <2>1. \A i \in 1..(L - 1) : stack[i] # Leaving(w)
    BY <1>3 DEF DfsInv, GreyOnStack, Leaving
  <2>2. \A v \in Wire : v # w => stack[L] # Leaving(v) BY <1>3 DEF Leaving
  <2>3. \A v \in Wire : color'[v] = "grey" <=> color[v] = "grey" /\ v # w
    BY <1>2 DEF DfsInv, Searching
  <2>4. \A v \in Wire : v # w =>
          ((\E i \in 1..L : stack[i] = Leaving(v)) <=> \E i \in 1..(L - 1) : stack'[i] = Leaving(v))
    BY <1>3, <2>2
  <2>5. \A v \in Wire : color'[v] = "grey" <=> \E i \in DOMAIN stack' : stack'[i] = Leaving(v)
    BY <1>3, <2>1, <2>3, <2>4 DEF DfsInv, GreyOnStack
  <2> QED BY <1>3, <2>5 DEF DfsInv, GreyOnStack
<1>7. RootsMet'
  <2> SUFFICES ASSUME NEW v \in Wire, v < root
               PROVE  color'[v] # "white" \/ \E j \in 1..(L - 1) : stack'[j].node = v
    BY <1>1, <1>3 DEF RootsMet
  <2>1. color[v] # "white" \/ \E j \in 1..L : stack[j].node = v
    BY <1>3 DEF DfsInv, RootsMet
  <2>2. color'[v] = IF v = w THEN "black" ELSE color[v] BY <1>2 DEF DfsInv, Searching
  <2>3. \A j \in 1..L : stack[j].node = v => v = w \/ (j \in 1..(L - 1) /\ stack'[j].node = v)
    BY <1>1, SlotStays
  <2> QED BY <2>1, <2>2, <2>3
<1>8. ASSUME cycles' = {} PROVE ReadsFirst'
  <2> SUFFICES ASSUME NEW i \in 1..(L - 1), stack[i].leaving, NEW v \in Edges(stack[i].node)
               PROVE  color'[v] = "black" \/ \E j \in 1..(L - 1) : j > i /\ stack'[j].node = v
    BY <1>3 DEF ReadsFirst, Edges
  <2>1. v \in Wire /\ i \in DOMAIN stack BY <1>3, EdgesType
  <2>2. color[v] = "black" \/ \E j \in 1..L : j > i /\ stack[j].node = v
    BY <1>1, <1>3, <1>8, <2>1 DEF DfsInv, ReadsFirst
  <2>3. color'[v] = IF v = w THEN "black" ELSE color[v]
    BY <1>2, <2>1 DEF DfsInv, Searching
  <2>4. \A j \in 1..L : stack[j].node = v => v = w \/ (j \in 1..(L - 1) /\ stack'[j].node = v)
    BY <1>1, SlotStays
  <2> QED BY <2>2, <2>3, <2>4
<1>9. ASSUME cycles' = {} PROVE BlackOrdered'
  <2>1. \A v \in Edges(w) : color[v] = "black" /\ v \in Wire
    <3> SUFFICES ASSUME NEW v \in Edges(w) PROVE color[v] = "black"
      BY EdgesType
    <3>1. stack[L].leaving /\ stack[L].node = w BY <1>3 DEF Leaving
    <3>2. color[v] = "black" \/ \E j \in 1..L : j > L /\ stack[j].node = v
      BY <1>1, <1>3, <1>9, <3>1 DEF DfsInv, ReadsFirst
    <3> QED BY <1>3, <3>2
  <2>2. \A v \in Wire : finish[v] <= left /\ finish[v] \in Nat
    BY DEF DfsInv, Searching
  <2> SUFFICES ASSUME NEW x \in Wire, color'[x] = "black", NEW v \in Edges(x)
               PROVE  color'[v] = "black" /\ finish'[v] < finish'[x]
    BY DEF BlackOrdered, Edges
  <2>3. v \in Wire BY EdgesType
  <2>4. CASE x = w
    BY <1>2, <1>4, <2>1, <2>2, <2>3, <2>4 DEF DfsInv, Searching
  <2>5. CASE x # w
    <3>1. color[x] = "black" BY <1>2, <2>5 DEF DfsInv, Searching
    <3>2. color[v] = "black" /\ finish[v] < finish[x]
      BY <1>1, <1>9, <3>1 DEF DfsInv, BlackOrdered
    <3> QED BY <1>2, <1>4, <2>3, <2>5, <3>2 DEF DfsInv, Searching
  <2> QED BY <2>4, <2>5
<1> QED BY <1>5, <1>6, <1>7, <1>8, <1>9 DEF DfsInv

\* Popping a slot that was pushed and is not needed, grey or black.
LEMMA DropInv ==
  ASSUME DfsInv, NEW w \in Wire, Popped(w, FALSE), color[w] # "white",
         cycles = {} => color[w] = "black" \/ cycles' # {},
         cycles # {} => cycles' # {},
         stack' = Front(stack), UNCHANGED <<comb, root, color, finish, left>>
  PROVE  DfsInv'
<1> DEFINE L == Len(stack)
<1>1. L \in Nat \ {0} /\ stack[L] = Entry(w) /\ DOMAIN stack = 1..L
      /\ DOMAIN stack' = 1..(L - 1) /\ stack' \in Seq(Slot)
      /\ (\A i \in 1..(L - 1) : stack'[i] = stack[i])
      /\ \A i \in 1..L : stack[i].node \in Wire
  BY PoppedType DEF Entry
<1>2. \A j \in 1..L : (j = L /\ stack[j].node = w) \/ (j \in 1..(L - 1) /\ stack'[j] = stack[j])
  BY SlotStays
<1>3. Searching' BY <1>1 DEF DfsInv, Searching
<1>4. GreyOnStack'
  <2>1. \A v \in Wire : stack[L] # Leaving(v)
    BY <1>1, EntryNotLeaving
  <2>2. \A v \in Wire : (\E i \in 1..L : stack[i] = Leaving(v)) <=> \E i \in 1..(L - 1) : stack'[i] = Leaving(v)
    <3> SUFFICES ASSUME NEW v \in Wire
                 PROVE (\E i \in 1..L : stack[i] = Leaving(v)) <=> \E i \in 1..(L - 1) : stack'[i] = Leaving(v)
      OBVIOUS
    <3>1. \A i \in 1..L : stack[i] = Leaving(v) => i \in 1..(L - 1) /\ stack'[i] = stack[i]
      BY <1>1, <1>2, <2>1
    <3>2. \A i \in 1..(L - 1) : i \in 1..L /\ stack'[i] = stack[i]
      BY <1>1
    <3> QED BY <3>1, <3>2
  <2>3. \A v \in Wire : color[v] = "grey" <=> \E i \in 1..(L - 1) : stack'[i] = Leaving(v)
    BY <1>1, <2>2 DEF DfsInv, GreyOnStack
  <2>4. ASSUME NEW i \in 1..(L - 1), NEW j \in 1..(L - 1),
               stack'[i].leaving, stack'[j].leaving, stack'[i].node = stack'[j].node
        PROVE  i = j
    <3>1. i \in 1..L /\ j \in 1..L /\ stack'[i] = stack[i] /\ stack'[j] = stack[j] BY <1>1
    <3>2. stack[i].leaving /\ stack[j].leaving /\ stack[i].node = stack[j].node
      BY <2>4, <3>1
    <3> QED BY <1>1, <3>1, <3>2 DEF DfsInv, GreyOnStack
  <2> QED BY <1>1, <2>3, <2>4 DEF GreyOnStack
<1>5. RootsMet'
  <2> SUFFICES ASSUME NEW v \in Wire, v < root
               PROVE  color[v] # "white" \/ \E j \in 1..(L - 1) : stack'[j].node = v
    BY <1>1 DEF RootsMet
  <2>1. color[v] # "white" \/ \E j \in 1..L : stack[j].node = v
    BY <1>1 DEF DfsInv, RootsMet
  <2> QED BY <1>2, <2>1
<1>6. ASSUME cycles' = {} PROVE ReadsFirst'
  <2>1. cycles = {} /\ color[w] = "black" BY <1>6
  <2> SUFFICES ASSUME NEW i \in 1..(L - 1), stack[i].leaving, NEW v \in Edges(stack[i].node)
               PROVE  color[v] = "black" \/ \E j \in 1..(L - 1) : j > i /\ stack'[j].node = v
    BY <1>1 DEF ReadsFirst, Edges
  <2>2. i \in 1..L BY <1>1
  <2>3. color[v] = "black" \/ \E j \in 1..L : j > i /\ stack[j].node = v
    BY <1>1, <2>1, <2>2 DEF DfsInv, ReadsFirst
  <2> QED BY <1>2, <2>1, <2>3
<1>7. ASSUME cycles' = {} PROVE BlackOrdered'
  BY <1>7 DEF DfsInv, BlackOrdered, Edges
<1> QED BY <1>3, <1>4, <1>5, <1>6, <1>7 DEF DfsInv

\* Entering w turns its slot into one to leave it, under the slots of its reads.
LEMMA EnteredStack ==
  ASSUME DfsInv, NEW w \in Wire, Enter(w)
  PROVE  LET L == Len(stack)  M == Len(stack') IN
         /\ L \in Nat \ {0} /\ stack \in Seq(Slot) /\ stack # <<>> /\ stack[L] = Entry(w)
         /\ DOMAIN stack = 1..L /\ \A i \in 1..L : stack[i].node \in Wire
         /\ stack' \in Seq(Slot) /\ M \in Nat /\ M >= L /\ DOMAIN stack' = 1..M
         /\ stack'[L] = Leaving(w)
         /\ \A i \in 1..(L - 1) : stack'[i] = stack[i]
         /\ \A i \in (L + 1)..M : stack'[i].leaving = FALSE /\ stack'[i].node \in Edges(w)
         /\ \A v \in Edges(w) : \E i \in (L + 1)..M : stack'[i].node = v
<1> DEFINE L == Len(stack)  M == Len(stack')
<1>1. Popped(w, FALSE) BY DEF Enter
<1>2. L \in Nat \ {0} /\ stack \in Seq(Slot) /\ stack # <<>> /\ stack[L] = Entry(w)
      /\ DOMAIN stack = 1..L /\ \A i \in 1..L : stack[i].node \in Wire
  BY <1>1, PoppedType DEF Entry
<1>3. PICK q \in Sorted(Edges(w)) :
        stack' = Front(stack) \o <<Leaving(w)>> \o Slots(q)
  BY DEF Enter, Slots
<1> DEFINE u == Slots(q)  p == Front(stack) \o <<Leaving(w)>>
<1>4. stack' = p \o u BY <1>3
<1>5. Edges(w) \in SUBSET Wire /\ Leaving(w) \in Slot BY EdgesType, SlotFields
<1>6. /\ u \in Seq(Slot)
      /\ \A i \in 1..Len(u) : u[i].leaving = FALSE /\ u[i].node \in Edges(w)
      /\ \A v \in Edges(w) : \E i \in 1..Len(u) : u[i].node = v
  BY <1>3, <1>5, SortedType
<1>7. /\ p \in Seq(Slot) /\ Len(p) = L /\ p[L] = Leaving(w)
      /\ \A i \in 1..(L - 1) : p[i] = stack[i]
  BY <1>2, <1>5, TopReplaced
<1> HIDE DEF u, p
<1>8. /\ Len(u) \in Nat /\ stack' \in Seq(Slot) /\ M = L + Len(u)
      /\ \A i \in 1..L : stack'[i] = p[i]
      /\ \A i \in 1..Len(u) : stack'[L + i] = u[i]
  <2>1. /\ Len(p) \in Nat /\ Len(u) \in Nat
        /\ p \o u \in Seq(Slot) /\ Len(p \o u) = Len(p) + Len(u)
        /\ \A i \in 1..Len(p) : (p \o u)[i] = p[i]
        /\ \A i \in 1..Len(u) : (p \o u)[Len(p) + i] = u[i]
    BY <1>6, <1>7, PutOn
  <2> QED BY <1>4, <1>7, <2>1
<1>9. \A i \in (L + 1)..M : i - L \in 1..Len(u) /\ L + (i - L) = i
  BY <1>2, <1>8
<1>10. ASSUME NEW i \in (L + 1)..M PROVE stack'[i].leaving = FALSE /\ stack'[i].node \in Edges(w)
  <2>1. i - L \in 1..Len(u) /\ stack'[i] = u[i - L] BY <1>8, <1>9
  <2> QED BY <1>6, <2>1
<1>11. ASSUME NEW v \in Edges(w) PROVE \E i \in (L + 1)..M : stack'[i].node = v
  <2>1. PICK k \in 1..Len(u) : u[k].node = v BY <1>6
  <2>2. L + k \in (L + 1)..M BY <1>2, <1>8
  <2> QED BY <1>8, <2>1, <2>2
<1>12. M \in Nat /\ M >= L /\ DOMAIN stack' = 1..M BY <1>2, <1>8, LenProperties
<1>13. stack'[L] = Leaving(w) /\ \A i \in 1..(L - 1) : stack'[i] = stack[i]
  BY <1>2, <1>7, <1>8
<1> QED BY <1>2, <1>8, <1>10, <1>11, <1>12, <1>13

\* Entering a wire, whether new, done or on the path, keeps the invariant.
LEMMA EnterInv ==
  ASSUME DfsInv, NEW w \in Wire, Enter(w), UNCHANGED comb PROVE DfsInv'
<1> DEFINE L == Len(stack)  M == Len(stack')
<1>1. Popped(w, FALSE) /\ color[w] = "white" BY DEF Enter
<1>2. color' = [color EXCEPT ![w] = "grey"] /\ UNCHANGED <<root, cycles, finish, left>>
  BY DEF Enter
<1>3. L \in Nat \ {0} /\ stack \in Seq(Slot) /\ stack # <<>> /\ stack[L] = Entry(w)
      /\ DOMAIN stack = 1..L /\ \A i \in 1..L : stack[i].node \in Wire
  BY EnteredStack
<1>4. /\ stack' \in Seq(Slot) /\ M \in Nat /\ M >= L /\ DOMAIN stack' = 1..M
      /\ stack'[L] = Leaving(w)
      /\ \A i \in 1..(L - 1) : stack'[i] = stack[i]
      /\ \A i \in (L + 1)..M : stack'[i].leaving = FALSE
      /\ \A v \in Edges(w) : \E i \in (L + 1)..M : stack'[i].node = v
  BY EnteredStack
<1>0. /\ stack'[L].node = w /\ stack'[L].leaving = TRUE
      /\ stack[L].node = w /\ stack[L].leaving = FALSE
  <2>1. stack'[L] = Leaving(w) /\ stack[L] = Entry(w) BY <1>3, <1>4
  <2> QED BY <2>1, SlotFields
<1>5. \A i \in 1..M : i \in 1..(L - 1) \/ i = L \/ i \in (L + 1)..M
  BY <1>3, <1>4, BelowTopAbove
<1>6. \A i \in 1..L : i \in 1..M /\ stack'[i].node = stack[i].node
  <2> SUFFICES ASSUME NEW i \in 1..L PROVE i \in 1..M /\ stack'[i].node = stack[i].node
    OBVIOUS
  <2>1. i \in 1..M BY <1>3, <1>4
  <2> QED BY <1>0, <1>3, <1>4, <2>1, TopOrBelow
<1>7. \A v \in Wire : color'[v] = IF v = w THEN "grey" ELSE color[v]
  BY <1>2 DEF DfsInv, Searching
<1>8. \A i \in 1..M : stack'[i].leaving =>
        i = L \/ (i \in 1..(L - 1) /\ stack[i].leaving /\ stack'[i] = stack[i])
  BY <1>4, <1>5
<1>9. \A i \in 1..(L - 1) : stack[i].leaving => stack[i].node # w
  <2> SUFFICES ASSUME NEW i \in 1..(L - 1), stack[i].leaving, stack[i].node = w PROVE FALSE
    OBVIOUS
  <2>1. i \in 1..L BY <1>3
  <2>2. stack[i] = Leaving(w) BY <1>3, <2>1, SlotType DEF Leaving, Slot
  <2> QED BY <1>1, <1>3, <2>1, <2>2 DEF DfsInv, GreyOnStack
<1>10. Searching' BY <1>2, <1>4 DEF DfsInv, Searching
<1>11. GreyOnStack'
  <2>1. ASSUME NEW v \in Wire
        PROVE  color'[v] = "grey" <=> \E i \in 1..M : stack'[i] = Leaving(v)
    <3>1. CASE v = w
      <4>1. L \in 1..M BY <1>3, <1>4
      <4> QED BY <1>4, <1>7, <3>1, <4>1
    <3>2. CASE v # w
      <4>1. stack'[L] # Leaving(v) /\ stack[L] # Leaving(v)
        BY <1>0, <3>2, SlotFields
      <4>2. \A i \in 1..M : stack'[i] = Leaving(v) => i \in 1..L /\ stack[i] = Leaving(v)
        <5> SUFFICES ASSUME NEW i \in 1..M, stack'[i] = Leaving(v) PROVE i \in 1..L /\ stack[i] = Leaving(v)
          OBVIOUS
        <5>1. stack'[i].leaving BY SlotFields
        <5>2. i \in 1..(L - 1) /\ stack'[i] = stack[i] BY <1>8, <4>1, <5>1
        <5> QED BY <1>3, <5>2
      <4>3. \A i \in 1..L : stack[i] = Leaving(v) => i \in 1..M /\ stack'[i] = Leaving(v)
        BY <1>3, <1>4, <1>6, <4>1, TopOrBelow
      <4>4. color[v] = "grey" <=> \E i \in 1..L : stack[i] = Leaving(v)
        BY <1>3 DEF DfsInv, GreyOnStack
      <4> QED BY <1>7, <3>2, <4>2, <4>3, <4>4
    <3> QED BY <3>1, <3>2
  <2>2. ASSUME NEW i \in 1..M, NEW j \in 1..M,
               stack'[i].leaving, stack'[j].leaving, stack'[i].node = stack'[j].node
        PROVE  i = j
    <3>2. \A k, l \in 1..(L - 1) : stack[k].leaving /\ stack[l].leaving /\ stack[k].node = stack[l].node => k = l
      BY <1>3 DEF DfsInv, GreyOnStack
    <3> QED BY <1>0, <1>8, <1>9, <2>2, <3>2
  <2> QED BY <1>4, <2>1, <2>2 DEF GreyOnStack
<1>12. RootsMet'
  <2> SUFFICES ASSUME NEW v \in Wire, v < root
               PROVE  color'[v] # "white" \/ \E j \in 1..M : stack'[j].node = v
    BY <1>2, <1>4 DEF RootsMet
  <2>1. color[v] # "white" \/ \E j \in 1..L : stack[j].node = v
    BY <1>3 DEF DfsInv, RootsMet
  <2> QED BY <1>6, <1>7, <2>1
<1>13. ASSUME cycles' = {} PROVE ReadsFirst'
  <2> SUFFICES ASSUME NEW i \in 1..M, stack'[i].leaving, NEW v \in Edges(stack'[i].node)
               PROVE  color'[v] = "black" \/ \E j \in 1..M : j > i /\ stack'[j].node = v
    BY <1>4 DEF ReadsFirst, Edges
  <2>1. CASE i = L
    <3>1. v \in Edges(w) BY <1>4, <2>1, SlotFields
    <3>2. PICK j \in (L + 1)..M : stack'[j].node = v BY <1>4, <3>1
    <3>3. j \in 1..M /\ j > i BY <1>3, <1>4, <2>1
    <3> QED BY <3>2, <3>3
  <2>2. CASE i \in 1..(L - 1) /\ stack[i].leaving /\ stack'[i] = stack[i]
    <3>1. i \in 1..L /\ v \in Wire BY <1>3, <2>2, EdgesType
    <3>2. color[v] = "black" \/ \E j \in 1..L : j > i /\ stack[j].node = v
      BY <1>2, <1>3, <1>13, <2>2, <3>1 DEF DfsInv, ReadsFirst
    <3> QED BY <1>1, <1>6, <1>7, <3>1, <3>2
  <2> QED BY <1>8, <2>1, <2>2
<1>14. ASSUME cycles' = {} PROVE BlackOrdered'
  <2> SUFFICES ASSUME NEW x \in Wire, color'[x] = "black", NEW v \in Edges(x)
               PROVE  color'[v] = "black" /\ finish[v] < finish[x]
    BY <1>2 DEF BlackOrdered, Edges
  <2>1. color[x] = "black" /\ v \in Wire BY <1>7, EdgesType
  <2>2. color[v] = "black" /\ finish[v] < finish[x]
    BY <1>2, <1>14, <2>1 DEF DfsInv, BlackOrdered
  <2> QED BY <1>1, <1>7, <2>1, <2>2
<1> QED BY <1>10, <1>11, <1>12, <1>13, <1>14 DEF DfsInv

\* Every step of the search keeps its invariant.
LEMMA SearchInv == ASSUME DfsInv, Search, UNCHANGED comb PROVE DfsInv'
<1>1. CASE NextRoot BY <1>1, NextRootInv
<1>2. ASSUME NEW w \in Wire, Leave(w) PROVE DfsInv' BY <1>2, LeaveInv
<1>3. ASSUME NEW w \in Wire, BackEdge(w) PROVE DfsInv'
  <2>1. cycles' # {} /\ Popped(w, FALSE) /\ color[w] # "white"
    BY <1>3 DEF BackEdge
  <2> QED BY <1>3, <2>1, DropInv DEF BackEdge
<1>4. ASSUME NEW w \in Wire, Skip(w) PROVE DfsInv'
  <2>1. cycles' = cycles /\ Popped(w, FALSE) /\ color[w] = "black"
    BY <1>4 DEF Skip
  <2> QED BY <1>4, <2>1, DropInv DEF Skip
<1>5. ASSUME NEW w \in Wire, Enter(w) PROVE DfsInv' BY <1>5, EnterInv
<1> QED BY <1>1, <1>2, <1>3, <1>4, <1>5 DEF Search
-----------------------------------------------------------------------------
\* The path is the nodes on the stack to be left, from the bottom to the top.
PathOnStack ==
  /\ path \in Seq(Wire)
  /\ \A k \in DOMAIN path : \E i \in DOMAIN stack : stack[i] = Leaving(path[k])
  /\ \A i \in DOMAIN stack : stack[i].leaving => \E k \in DOMAIN path : path[k] = stack[i].node
  /\ \A k, l \in DOMAIN path, i, j \in DOMAIN stack :
       k < l /\ stack[i] = Leaving(path[k]) /\ stack[j] = Leaving(path[l]) => i < j

Chained == \A k \in 1..(Len(path) - 1) : path[k + 1] \in Edges(path[k])

\* Slot j is the first below slot i that is one to leave.
NearestBelow(j, i) == j < i /\ stack[j].leaving /\ \A m \in (j + 1)..(i - 1) : ~stack[m].leaving

\* A node to be entered is read by the one that is left after it.
EntriesRead ==
  \A i, j \in DOMAIN stack :
    ~stack[i].leaving /\ NearestBelow(j, i) => stack[i].node \in Edges(stack[j].node)

PathInv == PathOnStack /\ Chained /\ EntriesRead /\ CyclesReal

\* The path is a sequence of wires.
LEMMA PathType ==
  ASSUME PathInv
  PROVE  /\ Len(path) \in Nat /\ DOMAIN path = 1..Len(path) /\ (path # <<>> => Len(path) >= 1)
         /\ \A k \in 1..Len(path) : path[k] \in Wire
<1>1. path \in Seq(Wire) BY DEF PathInv, PathOnStack
<1> QED BY <1>1, LenProperties, EmptySeq, ElementOfSeq

\* The node on top, to be entered, is read by the last of the path.
LEMMA TopIsRead ==
  ASSUME DfsInv, PathInv, NEW w \in Wire, Popped(w, FALSE), path # <<>>
  PROVE  w \in Edges(path[Len(path)])
<1> DEFINE L == Len(stack)  K == Len(path)  x == path[K]
<1>0. stack[L] = Entry(w) BY PoppedType DEF Entry
<1>1. /\ L \in Nat \ {0} /\ DOMAIN stack = 1..L /\ stack \in Seq(Slot)
      /\ stack[L].node = w /\ stack[L].leaving = FALSE
  <2>1. L \in Nat \ {0} /\ DOMAIN stack = 1..L /\ stack \in Seq(Slot) BY PoppedType
  <2> HIDE DEF L
  <2>2. stack[L].node = w /\ stack[L].leaving = FALSE BY <1>0 DEF Entry
  <2> QED BY <2>1, <2>2
<1>2. K \in Nat \ {0} /\ DOMAIN path = 1..K BY PathType
<1>9. L \in 1..Len(stack) /\ \A m \in 1..L : m \in 1..Len(stack) BY <1>1
<1> HIDE DEF L, K
<1>3. PICK j \in 1..L : stack[j] = Leaving(x)
  BY <1>1, <1>2 DEF PathInv, PathOnStack
<1>4. stack[j].leaving /\ stack[j].node = x BY <1>3, SlotFields
<1>5. j < L BY <1>1, <1>4
<1>6. ASSUME NEW m \in (j + 1)..(L - 1), stack[m].leaving PROVE FALSE
  <2>1. m \in 1..L /\ m > j BY <1>1, <1>3, <1>6
  <2>2. PICK k \in 1..K : path[k] = stack[m].node
    BY <2>1, <1>1, <1>2, <1>6 DEF PathInv, PathOnStack
  <2>3. stack[m] = Leaving(path[k])
    <3>1. stack[m] \in Slot /\ stack[m].leaving \in BOOLEAN BY <1>1, <1>9, <2>1, SlotType
    <3>2. stack[m].leaving = TRUE BY <3>1, <1>6
    <3> QED BY <3>1, <3>2, <2>2 DEF Slot, Leaving
  <2>4. CASE k = K
    BY <2>1, <2>2, <2>4, <1>1, <1>4, <1>6 DEF DfsInv, GreyOnStack
  <2>5. CASE k < K
    <3>1. m < j BY <2>1, <2>3, <2>5, <1>1, <1>2, <1>3 DEF PathInv, PathOnStack
    <3> QED BY <3>1, <2>1
  <2> QED BY <2>4, <2>5, <1>2
<1>7. NearestBelow(j, L) BY <1>4, <1>5, <1>6 DEF NearestBelow
<1>8. L \in 1..L BY <1>1
<1> QED BY <1>1, <1>4, <1>7, <1>8 DEF PathInv, EntriesRead, K

\* The node on top, to be left, is the last of the path.
LEMMA TopIsLast ==
  ASSUME DfsInv, PathInv, NEW w \in Wire, Popped(w, TRUE)
  PROVE  path # <<>> /\ path[Len(path)] = w
<1> DEFINE L == Len(stack)  K == Len(path)
<1>1. /\ L \in Nat \ {0} /\ DOMAIN stack = 1..L /\ stack[L] = Leaving(w)
  BY PoppedType DEF Leaving
<1> HIDE DEF L
<1>6. L \in DOMAIN stack /\ stack[L].leaving /\ stack[L].node = w BY <1>1 DEF Leaving
<1>2. PICK k \in DOMAIN path : path[k] = w
  BY <1>6 DEF PathInv, PathOnStack
<1>3. K \in Nat /\ DOMAIN path = 1..K /\ K \in 1..K /\ path # <<>>
  BY <1>2, PathType
<1>4. CASE k = K BY <1>2, <1>3, <1>4
<1> HIDE DEF K
<1>5. CASE k < K
  <2>1. PICK i \in 1..L : stack[i] = Leaving(path[K])
    BY <1>1, <1>3 DEF PathInv, PathOnStack
  <2>2. L < i BY <2>1, <1>1, <1>2, <1>3, <1>5, <1>6 DEF PathInv, PathOnStack
  <2> QED BY <2>1, <2>2, <1>1
<1> QED BY <1>2, <1>3, <1>4, <1>5 DEF K

\* A new root leaves the path and the reports as they are.
LEMMA NextRootPath == ASSUME DfsInv, PathInv, NextRoot, UNCHANGED comb PROVE PathInv'
<1>1. stack = <<>> /\ DOMAIN stack = {} /\ path' = path /\ cycles' = cycles /\ comb' = comb
  BY DEF NextRoot
<1>2. DOMAIN path = {} BY <1>1 DEF PathInv, PathOnStack
<1>3. /\ DOMAIN stack' \subseteq {1}
      /\ \A i \in DOMAIN stack' : stack'[i] = Entry(root)
  <2>1. CASE color[root] = "white"
    <3>1. stack' = <<Entry(root)>> BY <2>1 DEF NextRoot
    <3> QED BY <3>1
  <2>2. CASE color[root] # "white" BY <2>2 DEF NextRoot
  <2> QED BY <2>1, <2>2
<1>4. PathOnStack'
  <2>1. \A i \in DOMAIN stack' : ~stack'[i].leaving BY <1>3, SlotFields
  <2> QED BY <1>1, <1>2, <2>1 DEF PathInv, PathOnStack
<1>5. EntriesRead' BY <1>3 DEF EntriesRead, NearestBelow
<1> QED BY <1>1, <1>4, <1>5 DEF PathInv, Chained, CyclesReal, Edges

\* Leaving a wire takes the last wire off the path.
LEMMA LeavePath ==
  ASSUME DfsInv, PathInv, NEW w \in Wire, Leave(w), UNCHANGED comb PROVE PathInv'
<1> DEFINE L == Len(stack)  K == Len(path)
<1>1. /\ Popped(w, TRUE) /\ stack' = Front(stack) /\ path' = Front(path)
      /\ cycles' = cycles /\ comb' = comb
  BY DEF Leave
<1>2. /\ L \in Nat \ {0} /\ stack[L] = Leaving(w) /\ DOMAIN stack = 1..L
      /\ DOMAIN stack' = 1..(L - 1) /\ \A i \in 1..(L - 1) : stack'[i] = stack[i]
  BY <1>1, PoppedType DEF Leaving
<1>3. path # <<>> /\ path[K] = w BY <1>1, TopIsLast
<1>4. /\ K \in Nat \ {0} /\ DOMAIN path = 1..K
      /\ path' \in Seq(Wire) /\ Len(path') = K - 1 /\ DOMAIN path' = 1..(K - 1)
      /\ \A k \in 1..(K - 1) : path'[k] = path[k]
  <2>1. path \in Seq(Wire) BY DEF PathInv, PathOnStack
  <2>2. /\ K \in Nat \ {0} /\ Front(path) \in Seq(Wire) /\ Len(Front(path)) = K - 1
        /\ \A k \in 1..(K - 1) : Front(path)[k] = path[k]
    BY <2>1, <1>3, FrontType
  <2> QED BY <2>1, <2>2, <1>1, LenProperties
<1> HIDE DEF L, K
<1>5. \A k \in 1..(K - 1) : k \in 1..K /\ k < K BY <1>4
<1>6. \A i \in 1..(L - 1) : i \in 1..L /\ i < L BY <1>2
<1>7. K \in 1..K /\ L \in 1..L BY <1>2, <1>4
<1>8. ASSUME NEW k \in 1..(K - 1) PROVE \E i \in 1..(L - 1) : stack'[i] = Leaving(path'[k])
  <2>1. PICK i \in 1..L : stack[i] = Leaving(path[k])
    BY <1>2, <1>4, <1>5 DEF PathInv, PathOnStack
  <2>2. i < L
    BY <2>1, <1>2, <1>3, <1>4, <1>5, <1>7 DEF PathInv, PathOnStack
  <2>3. i \in 1..(L - 1) BY <2>1, <2>2, <1>2
  <2> QED BY <2>1, <2>3, <1>2, <1>4
<1>9. ASSUME NEW i \in 1..(L - 1), stack'[i].leaving
      PROVE  \E k \in 1..(K - 1) : path'[k] = stack'[i].node
  <2>1. i \in 1..L /\ stack'[i] = stack[i] /\ i < L BY <1>2, <1>6
  <2>2. PICK k \in 1..K : path[k] = stack[i].node
    BY <2>1, <1>2, <1>4, <1>9 DEF PathInv, PathOnStack
  <2>3. k # K
    <3>1. stack[L].leaving /\ stack[L].node = w BY <1>2, SlotFields
    <3>2. stack[i].node = w => i = L
      BY <3>1, <2>1, <1>2, <1>7, <1>9 DEF DfsInv, GreyOnStack
    <3> QED BY <3>2, <2>1, <2>2, <1>3
  <2>4. k \in 1..(K - 1) BY <2>3, <1>4
  <2> QED BY <2>1, <2>2, <2>4, <1>4
<1>10. PathOnStack'
  <2>1. ASSUME NEW k \in 1..(K - 1), NEW l \in 1..(K - 1), NEW i \in 1..(L - 1), NEW j \in 1..(L - 1),
               k < l, stack'[i] = Leaving(path'[k]), stack'[j] = Leaving(path'[l])
        PROVE  i < j
    <3>1. stack[i] = Leaving(path[k]) /\ stack[j] = Leaving(path[l]) BY <2>1, <1>2, <1>4
    <3> QED BY <3>1, <2>1, <1>2, <1>4, <1>5, <1>6 DEF PathInv, PathOnStack
  <2> QED BY <2>1, <1>2, <1>4, <1>8, <1>9 DEF PathOnStack
<1>11. Chained'
  <2> SUFFICES ASSUME NEW k \in 1..((K - 1) - 1) PROVE path'[k + 1] \in Edges(path'[k])
    BY <1>1, <1>4 DEF Chained, Edges
  <2>1. k \in 1..(K - 1) /\ k + 1 \in 1..(K - 1) BY <1>4
  <2> QED BY <2>1, <1>4 DEF PathInv, Chained
<1>12. EntriesRead'
  <2> SUFFICES ASSUME NEW i \in 1..(L - 1), NEW j \in 1..(L - 1), ~stack'[i].leaving,
                      j < i, stack'[j].leaving, \A m \in (j + 1)..(i - 1) : ~stack'[m].leaving
               PROVE  stack'[i].node \in Edges(stack'[j].node)
    BY <1>1, <1>2 DEF EntriesRead, NearestBelow, Edges
  <2>1. \A m \in (j + 1)..(i - 1) : m \in 1..(L - 1) BY <1>2
  <2>2. NearestBelow(j, i) BY <2>1, <1>2 DEF NearestBelow
  <2> QED BY <2>2, <1>2, <1>6 DEF PathInv, EntriesRead
<1> QED BY <1>1, <1>10, <1>11, <1>12 DEF PathInv, CyclesReal, Edges

\* A slot of an entry that is popped takes nothing from the path.
LEMMA DropPath ==
  ASSUME DfsInv, PathInv, NEW w \in Wire, Popped(w, FALSE),
         stack' = Front(stack), UNCHANGED <<comb, path>>
  PROVE  PathOnStack' /\ Chained' /\ EntriesRead'
<1> DEFINE L == Len(stack)
<1>1. /\ L \in Nat \ {0} /\ stack[L] = Entry(w) /\ DOMAIN stack = 1..L
      /\ DOMAIN stack' = 1..(L - 1) /\ \A i \in 1..(L - 1) : stack'[i] = stack[i]
  BY PoppedType DEF Entry
<1> HIDE DEF L
<1>2. /\ \A i \in 1..(L - 1) : i \in 1..L
      /\ \A i \in 1..L : i = L \/ i \in 1..(L - 1)
  BY <1>1
<1>3. \A v : stack[L] # Leaving(v) BY <1>1, EntryNotLeaving
<1>4. PathOnStack'
  <2>1. \A k \in DOMAIN path : \E i \in 1..(L - 1) : stack'[i] = Leaving(path[k])
    BY <1>1, <1>2, <1>3 DEF PathInv, PathOnStack
  <2>2. \A i \in 1..(L - 1) : stack'[i].leaving => \E k \in DOMAIN path : path[k] = stack'[i].node
    BY <1>1, <1>2 DEF PathInv, PathOnStack
  <2>3. \A k, l \in DOMAIN path, i, j \in 1..(L - 1) :
          k < l /\ stack'[i] = Leaving(path[k]) /\ stack'[j] = Leaving(path[l]) => i < j
    BY <1>1, <1>2 DEF PathInv, PathOnStack
  <2>4. path \in Seq(Wire) /\ DOMAIN stack' = 1..(L - 1) /\ path' = path
    BY <1>1 DEF PathInv, PathOnStack
  <2> QED BY <2>1, <2>2, <2>3, <2>4 DEF PathOnStack
<1>5. Chained' BY DEF PathInv, Chained, Edges
<1>6. EntriesRead'
  <2> SUFFICES ASSUME NEW i \in 1..(L - 1), NEW j \in 1..(L - 1), ~stack'[i].leaving,
                      j < i, stack'[j].leaving, \A m \in (j + 1)..(i - 1) : ~stack'[m].leaving
               PROVE  stack'[i].node \in Edges(stack'[j].node)
    BY <1>1 DEF EntriesRead, NearestBelow, Edges
  <2>1. \A m \in (j + 1)..(i - 1) : m \in 1..(L - 1) BY <1>1
  <2>2. NearestBelow(j, i) BY <2>1, <1>1 DEF NearestBelow
  <2> QED BY <2>2, <1>1, <1>2 DEF PathInv, EntriesRead
<1> QED BY <1>4, <1>5, <1>6

\* The path from a grey node onward, closed by that node, is a cycle of reads.
LEMMA BackEdgePath ==
  ASSUME DfsInv, PathInv, NEW w \in Wire, BackEdge(w), UNCHANGED comb PROVE PathInv'
<1> DEFINE K == Len(path)
<1>1. PICK i \in DOMAIN path :
        path[i] = w /\ cycles' = cycles \union {SubSeq(path, i, Len(path)) \o <<w>>}
  BY DEF BackEdge
<1>2. Popped(w, FALSE) /\ stack' = Front(stack) /\ UNCHANGED <<path, comb>> BY DEF BackEdge
<1>3. K \in Nat /\ DOMAIN path = 1..K /\ i \in 1..K /\ path # <<>>
      /\ \A k \in 1..K : path[k] \in Wire
  BY <1>1, PathType
<1>4. w \in Edges(path[K]) BY <1>2, <1>3, TopIsRead
<1> DEFINE s == SubSeq(path, i, K)  c == s \o <<w>>  n == K - i + 1
<1>5. n \in Nat \ {0} /\ i \in Int /\ K \in Int /\ i <= K /\ i + n - 1 = K BY <1>3
<1>6. /\ s \in Seq(Wire) /\ Len(s) = n /\ \A m \in 1..n : s[m] = path[i + m - 1]
  <2>1. \A m \in i..K : path[m] \in Wire BY <1>3
  <2>2. /\ s \in Seq(Wire) /\ Len(s) = IF i <= K THEN K - i + 1 ELSE 0
        /\ \A m \in 1..(K - i + 1) : s[m] = path[i + m - 1]
    BY <1>5, <2>1, SubSeqProperties
  <2> QED BY <2>2, <1>5
<1> HIDE DEF s, n
<1>7. <<w>> \in Seq(Wire) /\ Len(<<w>>) = 1 /\ <<w>>[1] = w OBVIOUS
<1>8. /\ Len(c) = n + 1 /\ \A m \in 1..n : c[m] = path[i + m - 1]
      /\ c[n + 1] = w
  <2>1. /\ Len(s \o <<w>>) = n + 1
        /\ \A m \in 1..(n + 1) : (s \o <<w>>)[m] = IF m <= n THEN s[m] ELSE <<w>>[m - n]
    BY <1>6, <1>7, ConcatProperties
  <2>2. \A m \in 1..n : m \in 1..(n + 1) /\ m <= n BY <1>5
  <2>3. n + 1 \in 1..(n + 1) /\ ~(n + 1 <= n) /\ (n + 1) - n = 1 BY <1>5
  <2> QED BY <2>1, <2>2, <2>3, <1>6, <1>7
<1> HIDE DEF c
<1>9. Len(c) > 1 /\ c[1] = c[Len(c)]
  <2>1. 1 \in 1..n /\ i + 1 - 1 = i /\ n + 1 > 1 BY <1>5
  <2> QED BY <2>1, <1>1, <1>8
<1>10. ASSUME NEW m \in 1..(Len(c) - 1) PROVE c[m + 1] \in Edges(c[m])
  <2>1. m \in 1..n /\ c[m] = path[i + m - 1] BY <1>5, <1>8, <1>10
  <2>2. CASE m = n
    <3>1. i + m - 1 = K BY <2>2, <1>5
    <3> QED BY <3>1, <2>1, <2>2, <1>4, <1>8
  <2>3. CASE m # n
    <3>1. m + 1 \in 1..n /\ i + (m + 1) - 1 = (i + m - 1) + 1 /\ i + m - 1 \in 1..(K - 1)
      BY <2>1, <2>3, <1>3, <1>5
    <3>2. c[m + 1] = path[(i + m - 1) + 1] BY <3>1, <1>8
    <3>3. path[(i + m - 1) + 1] \in Edges(path[i + m - 1]) BY <3>1 DEF PathInv, Chained
    <3> QED BY <3>2, <3>3, <2>1
  <2> QED BY <2>2, <2>3
<1>11. CyclesReal'
  <2>1. cycles' = cycles \union {c} /\ comb' = comb BY <1>1, <1>2 DEF c, s
  <2> SUFFICES ASSUME NEW d \in cycles'
               PROVE  /\ Len(d) > 1 /\ d[1] = d[Len(d)]
                      /\ \A m \in 1..(Len(d) - 1) : d[m + 1] \in Edges(d[m])
    BY <2>1 DEF CyclesReal, Edges
  <2>2. CASE d = c BY <2>2, <1>9, <1>10
  <2>3. CASE d \in cycles BY <2>3 DEF PathInv, CyclesReal
  <2> QED BY <2>1, <2>2, <2>3
<1> QED BY <1>2, <1>11, DropPath DEF PathInv

\* Entering extends the path, or reports the part of it that closes a cycle.
LEMMA EnterPath ==
  ASSUME DfsInv, PathInv, NEW w \in Wire, Enter(w), UNCHANGED comb PROVE PathInv'
<1> DEFINE L == Len(stack)  M == Len(stack')  K == Len(path)
<1>1. /\ Popped(w, FALSE) /\ color[w] = "white" /\ path' = Append(path, w)
      /\ cycles' = cycles /\ comb' = comb
  BY DEF Enter
<1>2. /\ L \in Nat \ {0} /\ stack[L] = Entry(w) /\ DOMAIN stack = 1..L
      /\ M \in Nat /\ M >= L /\ DOMAIN stack' = 1..M /\ stack'[L] = Leaving(w)
      /\ \A i \in 1..(L - 1) : stack'[i] = stack[i]
      /\ \A i \in (L + 1)..M : stack'[i].leaving = FALSE /\ stack'[i].node \in Edges(w)
  BY EnteredStack
<1>3. /\ K \in Nat /\ DOMAIN path = 1..K /\ path' \in Seq(Wire) /\ DOMAIN path' = 1..(K + 1)
      /\ Len(path') = K + 1 /\ path'[K + 1] = w /\ \A k \in 1..K : path'[k] = path[k]
  <2>1. path \in Seq(Wire) BY DEF PathInv, PathOnStack
  <2>2. /\ Append(path, w) \in Seq(Wire) /\ Len(Append(path, w)) = K + 1
        /\ Append(path, w)[K + 1] = w /\ \A k \in 1..K : Append(path, w)[k] = path[k]
    BY <2>1, AppendProperties, LenProperties
  <2> QED BY <1>1, <2>1, <2>2, LenProperties
<1>4. K # 0 => w \in Edges(path[K]) BY <1>1, <1>3, EmptySeq, TopIsRead
<1> HIDE DEF L, M, K
<1>5. /\ \A i \in 1..M : i \in 1..(L - 1) \/ i = L \/ i \in (L + 1)..M
      /\ \A i \in 1..(L - 1) : i \in 1..L /\ i \in 1..M /\ i < L
      /\ L \in 1..M /\ L \in 1..L
  BY <1>2
<1>6. \A v \in Wire : (\E i \in 1..L : stack[i] = Leaving(v)) => v # w
  BY <1>1, <1>2 DEF DfsInv, GreyOnStack
<1>7. \A v, i : i \in 1..L /\ stack[i] = Leaving(v) => i \in 1..(L - 1)
  <2>1. \A v : stack[L] # Leaving(v) BY <1>2, EntryNotLeaving
  <2> QED BY <2>1, <1>2
<1>8. ASSUME NEW v, NEW i \in 1..M, stack'[i] = Leaving(v)
      PROVE  (i \in 1..(L - 1) /\ stack[i] = Leaving(v)) \/ (i = L /\ v = w)
  <2>1. stack'[i].leaving = TRUE BY <1>8 DEF Leaving
  <2>2. i \notin (L + 1)..M BY <2>1, <1>2
  <2>3. CASE i = L
    <3>1. Leaving(v) = Leaving(w) BY <2>3, <1>2, <1>8
    <3> QED BY <3>1, <2>3 DEF Leaving
  <2> QED BY <2>2, <2>3, <1>2, <1>5, <1>8
<1>9. \A k \in 1..K : path[k] \in Wire /\ \E i \in 1..(L - 1) : stack[i] = Leaving(path[k])
  <2>1. \A k \in 1..K : path[k] \in Wire BY PathType DEF K
  <2>2. \A k \in 1..K : \E i \in 1..L : stack[i] = Leaving(path[k])
    BY <1>2, <1>3 DEF PathInv, PathOnStack
  <2> QED BY <2>1, <2>2, <1>7
<1>10. \A k \in 1..K : path[k] # w BY <1>5, <1>6, <1>9
<1>11. \A k \in 1..(K + 1) : k \in 1..K \/ k = K + 1 BY <1>3
<1>12. PathOnStack'
  <2>1. ASSUME NEW k \in 1..(K + 1) PROVE \E i \in 1..M : stack'[i] = Leaving(path'[k])
    BY <1>2, <1>3, <1>5, <1>9, <1>11
  <2>2. ASSUME NEW i \in 1..M, stack'[i].leaving
        PROVE  \E k \in 1..(K + 1) : path'[k] = stack'[i].node
    <3>1. CASE i = L
      <4>1. stack'[i].node = w BY <3>1, <1>2 DEF Leaving
      <4>2. K + 1 \in 1..(K + 1) BY <1>3
      <4> QED BY <4>1, <4>2, <1>3
    <3>2. CASE i \in 1..(L - 1)
      <4>1. PICK k \in 1..K : path[k] = stack[i].node
        BY <3>2, <2>2, <1>2, <1>3, <1>5 DEF PathInv, PathOnStack
      <4>2. k \in 1..(K + 1) BY <1>3
      <4> QED BY <4>1, <4>2, <3>2, <1>2, <1>3
    <3> QED BY <3>1, <3>2, <2>2, <1>2, <1>5
  <2>3. ASSUME NEW k \in 1..(K + 1), NEW l \in 1..(K + 1), NEW i \in 1..M, NEW j \in 1..M,
               k < l, stack'[i] = Leaving(path'[k]), stack'[j] = Leaving(path'[l])
        PROVE  i < j
    <3>1. k \in 1..K BY <2>3, <1>3
    <3>2. i \in 1..(L - 1) /\ stack[i] = Leaving(path[k])
      BY <3>1, <2>3, <1>3, <1>8, <1>10
    <3>3. CASE l \in 1..K
      <4>1. j \in 1..(L - 1) /\ stack[j] = Leaving(path[l])
        BY <3>3, <2>3, <1>3, <1>8, <1>10
      <4> QED BY <4>1, <3>1, <3>2, <3>3, <2>3, <1>2, <1>3, <1>5 DEF PathInv, PathOnStack
    <3>4. CASE l = K + 1
      <4>1. stack'[j] = Leaving(w) BY <3>4, <2>3, <1>3
      <4>2. ~(j \in 1..(L - 1) /\ stack[j] = Leaving(w)) BY <1>5, <1>6
      <4>3. j = L BY <4>1, <4>2, <1>8
      <4> QED BY <4>3, <3>2, <1>5
    <3> QED BY <3>3, <3>4, <1>11
  <2> QED BY <2>1, <2>2, <2>3, <1>2, <1>3 DEF PathOnStack
<1>13. Chained'
  <2> SUFFICES ASSUME NEW k \in 1..((K + 1) - 1) PROVE path'[k + 1] \in Edges(path'[k])
    BY <1>1, <1>3 DEF Chained, Edges
  <2>1. CASE k = K BY <2>1, <1>3, <1>4
  <2>2. CASE k # K
    <3>1. k \in 1..(K - 1) /\ k \in 1..K /\ k + 1 \in 1..K BY <2>2, <1>3
    <3>2. path[k + 1] \in Edges(path[k]) BY <3>1 DEF PathInv, Chained, K
    <3> QED BY <3>1, <3>2, <1>3
  <2> QED BY <2>1, <2>2
<1>14. EntriesRead'
  <2> SUFFICES ASSUME NEW i \in 1..M, NEW j \in 1..M, ~stack'[i].leaving,
                      j < i, stack'[j].leaving, \A m \in (j + 1)..(i - 1) : ~stack'[m].leaving
               PROVE  stack'[i].node \in Edges(stack'[j].node)
    BY <1>1, <1>2 DEF EntriesRead, NearestBelow, Edges
  <2>1. stack'[L].leaving /\ stack'[L].node = w BY <1>2 DEF Leaving
  <2>2. j \notin (L + 1)..M BY <1>2
  <2>3. CASE i \in 1..(L - 1)
    <3>1. j \in 1..(L - 1) /\ \A m \in (j + 1)..(i - 1) : m \in 1..(L - 1) BY <2>3, <1>2
    <3>2. NearestBelow(j, i) BY <3>1, <2>3, <1>2 DEF NearestBelow
    <3> QED BY <3>1, <3>2, <2>3, <1>2, <1>5 DEF PathInv, EntriesRead
  <2>4. CASE i \in (L + 1)..M
    <3>1. ~(j < L)
      <4> SUFFICES ASSUME j < L PROVE FALSE OBVIOUS
      <4>1. L \in (j + 1)..(i - 1) BY <2>4, <1>2
      <4> QED BY <4>1, <2>1
    <3>2. j = L BY <3>1, <2>2, <1>2, <1>5
    <3> QED BY <3>2, <2>1, <2>4, <1>2
  <2>5. i # L BY <2>1
  <2> QED BY <2>3, <2>4, <2>5, <1>5
<1> QED BY <1>1, <1>12, <1>13, <1>14 DEF PathInv, CyclesReal, Edges

\* Every step of the search keeps the path and the reports real.
LEMMA SearchPath == ASSUME DfsInv, PathInv, Search, UNCHANGED comb PROVE PathInv'
<1>1. CASE NextRoot BY <1>1, NextRootPath
<1>2. ASSUME NEW w \in Wire, Leave(w) PROVE PathInv' BY <1>2, LeavePath
<1>3. ASSUME NEW w \in Wire, BackEdge(w) PROVE PathInv' BY <1>3, BackEdgePath
<1>4. ASSUME NEW w \in Wire, Skip(w) PROVE PathInv'
  <2>1. Popped(w, FALSE) /\ stack' = Front(stack) /\ UNCHANGED <<path, cycles>>
    BY <1>4 DEF Skip
  <2> QED BY <2>1, DropPath DEF PathInv, CyclesReal, Edges
<1>5. ASSUME NEW w \in Wire, Enter(w) PROVE PathInv' BY <1>5, EnterPath
<1> QED BY <1>1, <1>2, <1>3, <1>4, <1>5 DEF Search
-----------------------------------------------------------------------------
\* The frames of an evaluation, and what they read next.
Evaluating ==
  /\ leaf \in [Leaf -> Bit] /\ memo \in [Wire -> Bit \union {None}]
  /\ frames \in Seq(Frame) /\ error \in Wire \union {None}
  /\ \A i \in DOMAIN frames : Len(frames[i].got) <= 2

\* The read that frame i is making was recorded by the checker.
Recorded(i) == ReadNow(frames[i]) \notin comb[frames[i].wire].field

\* From frame to frame, while the reads are recorded, the order of finishing goes
\* down; it is the order between any two frames that makes this inductive.
Descends ==
  \A i, j \in DOMAIN frames :
    i < j /\ (\A k \in i..(j - 1) : Recorded(k)) => finish[frames[j].wire] < finish[frames[i].wire]

\* A wire being computed is computed once and has no value yet.
Busy ==
  /\ \A i \in DOMAIN frames : memo[frames[i].wire] = None
  /\ \A i, j \in DOMAIN frames : frames[i].wire = frames[j].wire => i = j

\* The first values a frame has read are those of the reads its driver makes.
ReadRight(f) ==
  LET d == comb[f.wire] IN
  /\ Len(f.got) >= 1 => Value(d.arg[1]) = f.got[1]
  /\ Len(f.got) >= 2 => Value(d.arg[NextRead(d, <<f.got[1]>>)]) = f.got[2]

FramesRight == \A i \in DOMAIN frames : ReadRight(frames[i])

Idle == frames = <<>> /\ error = None

ResolverInv ==
  /\ Evaluating /\ (~Accepted => Idle)
  /\ Descends /\ Busy /\ FramesRight /\ MemoRight /\ CyclesAreFields

IInv == comb \in Designs /\ DfsInv /\ ResolverInv

\* A driver of the design, and the position an evaluation of it reads.
LEMMA DriverType ==
  ASSUME comb \in Designs, NEW w \in Wire, NEW got \in Seq(Bit)
  PROVE  /\ comb[w] \in Driver /\ comb[w].arg \in [Position -> Node]
         /\ NextRead(comb[w], got) \in Reads(comb[w])
         /\ NextRead(comb[w], got) \in Position
<1>1. comb[w] \in Driver BY NetlistAssumptionHolds DEF NetlistAssumption
<1>2. comb[w].op \in {"if", "xor"} /\ comb[w].arg \in [Position -> Node]
  BY <1>1 DEF Driver
<1> QED BY <1>1, <1>2 DEF NextRead, Reads, Position

\* A recorded read of a wire is an edge.
LEMMA RecordedEdge ==
  ASSUME comb \in Designs, NEW w \in Wire, NEW p \in Reads(comb[w]),
         p \notin comb[w].field, comb[w].arg[p] \in Wire
  PROVE  comb[w].arg[p] \in Edges(w)
BY DEF Edges, ExprReads

\* The frame on top.
LEMMA TopType ==
  ASSUME IInv, frames # <<>>
  PROVE  /\ Len(frames) \in Nat \ {0} /\ Len(frames) \in DOMAIN frames
         /\ DOMAIN frames = 1..Len(frames)
         /\ Top = frames[Len(frames)] /\ Top \in Frame
         /\ Top.wire \in Wire /\ Top.got \in Seq(Bit) /\ Len(Top.got) <= 2
         /\ ReadNow(Top) \in Reads(comb[Top.wire])
         /\ Wanted = comb[Top.wire].arg[ReadNow(Top)] /\ Wanted \in Node
<1>1. frames \in Seq(Frame) /\ comb \in Designs BY DEF IInv, ResolverInv, Evaluating
<1>2. Len(frames) \in Nat \ {0} /\ DOMAIN frames = 1..Len(frames)
  BY <1>1, EmptySeq, LenProperties
<1>3. Top = frames[Len(frames)] /\ Top \in Frame
  BY <1>1, <1>2, ElementOfSeq DEF Top, Last
<1>4. Top.wire \in Wire /\ Top.got \in Seq(Bit) BY <1>3 DEF Frame
<1>5. Len(Top.got) <= 2 BY <1>2, <1>3 DEF IInv, ResolverInv, Evaluating
<1>6. /\ ReadNow(Top) \in Reads(comb[Top.wire]) /\ ReadNow(Top) \in Position
      /\ comb[Top.wire].arg \in [Position -> Node]
  BY <1>1, <1>4, DriverType DEF ReadNow
<1> QED BY <1>2, <1>3, <1>4, <1>5, <1>6 DEF Wanted

\* The parts of a frame of an evaluation.
LEMMA FrameType ==
  ASSUME IInv, NEW i \in DOMAIN frames
  PROVE  /\ frames[i] \in Frame /\ frames[i].wire \in Wire /\ frames[i].got \in Seq(Bit)
         /\ Len(frames[i].got) <= 2 /\ i \in 1..Len(frames)
<1>1. frames \in Seq(Frame) BY DEF IInv, ResolverInv, Evaluating
<1>2. i \in 1..Len(frames) /\ frames[i] \in Frame BY <1>1, LenProperties, ElementOfSeq
<1> QED BY <1>2 DEF Frame, IInv, ResolverInv, Evaluating
-----------------------------------------------------------------------------
\* While the search goes on nothing is evaluated.
LEMMA CheckInv == ASSUME IInv, Check PROVE IInv'
<1>1. DfsInv' BY SearchInv DEF IInv, Check
<1>2. ~Accepted
  <2> SUFFICES ASSUME Accepted PROVE FALSE OBVIOUS
  <2>1. stack = <<>> /\ root > N BY DEF Accepted, Walked
  <2>2. ~NextRoot BY <2>1, NetlistAssumptionHolds DEF NextRoot, IInv, DfsInv, Searching, NetlistAssumption
  <2> QED BY <2>1, <2>2 DEF Check, Search, Popped, Leave, BackEdge, Skip, Enter
<1>3. frames = <<>> /\ frames' = <<>> /\ DOMAIN frames = {} /\ error = None /\ error' = None
      /\ memo' = memo /\ leaf' = leaf /\ comb' = comb
  BY <1>2 DEF Check, resolverVars, IInv, ResolverInv, Idle
<1>4. Evaluating' BY <1>3 DEF IInv, ResolverInv, Evaluating
<1>5. MemoRight' BY <1>3 DEF IInv, ResolverInv, MemoRight, Solved, Known, Value
<1>6. Descends' /\ Busy' /\ FramesRight' /\ CyclesAreFields' /\ Idle'
  BY <1>3 DEF Descends, Busy, FramesRight, CyclesAreFields, Idle
<1> QED BY <1>1, <1>3, <1>4, <1>5, <1>6 DEF IInv, ResolverInv
-----------------------------------------------------------------------------
\* A new frame has read nothing.
LEMMA CalledType ==
  ASSUME NEW w \in Wire
  PROVE  Called(w) \in Frame /\ Called(w).wire = w /\ Called(w).got = <<>>
BY DEF Called, Frame

\* A place strictly below another of a sequence is not its last.
LEMMA Between ==
  ASSUME NEW n \in Nat, NEW i \in 1..n, NEW j \in 1..n, NEW k \in i..(j - 1)
  PROVE  k \in 1..n /\ k # n
OBVIOUS

\* A count of reads below two may be 0 or 1.
LEMMA BelowTwo == ASSUME NEW n \in Nat, n <= 2, n # 2 PROVE n \in {0, 1} /\ n + 1 <= 2
OBVIOUS

\* A place that is not the last comes before the last.
LEMMA BeforeLast ==
  ASSUME NEW n \in Nat, NEW i \in 1..n, i # n
  PROVE  i < n /\ n \in 1..n /\ \A k \in i..(n - 1) : k \in i..n
OBVIOUS

\* The places below the last are places, and not the last.
LEMMA NotLast == ASSUME NEW n \in Nat \ {0} PROVE \A i \in 1..(n - 1) : i \in 1..n /\ i # n
OBVIOUS

\* What is remembered stays right while nothing it depends on changes.
LEMMA MemoSame ==
  ASSUME MemoRight, memo' = memo, leaf' = leaf, comb' = comb PROVE MemoRight'
<1>1. \A w \in Wire : Solved(w)' <=> Solved(w) BY DEF Solved, Known, Value
<1> QED BY <1>1 DEF MemoRight

\* A step of the resolver leaves the design and the order of finishing alone.
LEMMA AskInv ==
  ASSUME IInv, Accepted, NEW w \in Wire, Ask(w), UNCHANGED <<comb, dfsVars>>
  PROVE  ResolverInv'
<1>1. /\ error = None /\ error' = None /\ leaf' = leaf /\ memo' = memo /\ comb' = comb
      /\ Accepted'
  BY DEF Ask, Accepted, Walked, dfsVars
<1>2. frames' = <<Called(w)>> /\ DOMAIN frames' = {1} /\ frames'[1] = Called(w)
  BY DEF Ask
<1>3. Called(w) \in Frame /\ Called(w).wire = w /\ Called(w).got = <<>>
  BY CalledType
<1>4. Evaluating'
  <2>1. <<Called(w)>> \in Seq(Frame) BY <1>3
  <2> QED BY <1>1, <1>2, <1>3, <2>1 DEF IInv, ResolverInv, Evaluating
<1>5. Descends' BY <1>2 DEF Descends
<1>6. Busy'
  <2>1. w \notin Leaf
    BY NetlistAssumptionHolds DEF NetlistAssumption, Wire
  <2>2. memo[w] = None BY <2>1 DEF Ask, Known, Value
  <2> QED BY <1>1, <1>2, <1>3, <2>2 DEF Busy
<1>7. FramesRight' BY <1>2, <1>3 DEF FramesRight, ReadRight
<1>8. MemoRight' BY <1>1, MemoSame DEF IInv, ResolverInv
<1> QED BY <1>1, <1>4, <1>5, <1>6, <1>7, <1>8 DEF ResolverInv, CyclesAreFields

\* Reading a leaf or a remembered wire keeps the invariant of the evaluation.
LEMMA ReadInv ==
  ASSUME IInv, Accepted, Read, UNCHANGED <<comb, dfsVars>>
  PROVE  ResolverInv'
<1> DEFINE L == Len(frames)
<1>1. /\ error = None /\ error' = None /\ leaf' = leaf /\ memo' = memo /\ comb' = comb
      /\ Accepted' /\ finish' = finish /\ frames # <<>> /\ ~Evaluated(Top.got) /\ Known(Wanted)
  BY DEF Read, Running, Accepted, Walked, dfsVars
<1>2. /\ L \in Nat \ {0} /\ DOMAIN frames = 1..L /\ Top = frames[L] /\ Top.wire \in Wire
      /\ Top.got \in Seq(Bit) /\ Len(Top.got) <= 2 /\ Wanted \in Node
      /\ Wanted = comb[Top.wire].arg[ReadNow(Top)]
      /\ frames \in Seq(Frame) /\ memo \in [Wire -> Bit \union {None}] /\ leaf \in [Leaf -> Bit]
  BY <1>1, TopType DEF IInv, ResolverInv, Evaluating
<1> DEFINE g == Append(Top.got, Value(Wanted))  f == [wire |-> Top.wire, got |-> g]
<1>3. Value(Wanted) \in Bit
  BY <1>1, <1>2 DEF Known, Value, Node
<1>4. /\ g \in Seq(Bit) /\ Len(g) = Len(Top.got) + 1 /\ Len(Top.got) \in Nat
      /\ (\A i \in 1..Len(Top.got) : g[i] = Top.got[i]) /\ g[Len(Top.got) + 1] = Value(Wanted)
  BY <1>2, <1>3, AppendProperties, LenProperties
<1>5. frames' = [frames EXCEPT ![L] = f]
  BY DEF Read
<1> HIDE DEF g
<1>6. Len(Top.got) \in {0, 1} /\ Len(g) <= 2
  <2>1. Len(Top.got) # 2 BY <1>1 DEF Evaluated
  <2>2. Len(Top.got) \in Nat /\ Len(Top.got) <= 2 /\ Len(g) = Len(Top.got) + 1
    BY <1>2, <1>4
  <2>3. Len(Top.got) \in {0, 1} /\ Len(Top.got) + 1 <= 2 BY <2>1, <2>2, BelowTwo
  <2> QED BY <2>2, <2>3
<1>7. PICK e \in Frame : e = f /\ e.wire = Top.wire /\ e.got = g
  <2>1. f \in Frame /\ f.wire = Top.wire /\ f.got = g BY <1>2, <1>4 DEF Frame
  <2> QED BY <2>1
<1>8. /\ frames' \in Seq(Frame) /\ DOMAIN frames' = 1..L
      /\ \A i \in 1..L : frames'[i] = IF i = L THEN e ELSE frames[i]
  <2>1. L \in 1..Len(frames) BY <1>2
  <2>2. /\ frames' \in Seq(Frame) /\ Len(frames') = L
        /\ \A i \in 1..L : frames'[i] = IF i = L THEN e ELSE frames[i]
    BY <1>2, <1>5, <1>7, <2>1, ExceptSeq
  <2> QED BY <2>2, LenProperties
<1> HIDE DEF f
<1>9. \A i \in 1..L : frames'[i].wire = frames[i].wire
  BY <1>2, <1>7, <1>8
<1>10. Evaluating'
  BY <1>1, <1>2, <1>6, <1>7, <1>8 DEF IInv, ResolverInv, Evaluating
<1>11. Descends'
  <2> SUFFICES ASSUME NEW i \in 1..L, NEW j \in 1..L, i < j, \A k \in i..(j - 1) : Recorded(k)'
               PROVE  finish[frames[j].wire] < finish[frames[i].wire]
    BY <1>1, <1>8, <1>9 DEF Descends
  <2>1. \A k \in i..(j - 1) : k \in 1..L /\ k # L BY <1>2, Between
  <2>2. \A k \in i..(j - 1) : Recorded(k)
    BY <1>1, <1>8, <2>1 DEF Recorded, ReadNow
  <2> QED BY <1>2, <2>2 DEF IInv, ResolverInv, Descends
<1>12. Busy' BY <1>1, <1>2, <1>8, <1>9 DEF IInv, ResolverInv, Busy
<1>13. ReadRight(e)'
  <2>1. ReadRight(Top) BY <1>2 DEF IInv, ResolverInv, FramesRight
  <2>2. CASE Len(Top.got) = 0
    <3>1. Top.got = <<>> /\ ReadNow(Top) = 1 BY <1>2, <2>2, EmptySeq DEF ReadNow, NextRead
    <3>2. Len(g) = 1 /\ g[1] = Value(comb[Top.wire].arg[1]) BY <1>2, <1>4, <2>2, <3>1
    <3> QED BY <1>1, <1>7, <3>2 DEF ReadRight, Value
  <2>3. CASE Len(Top.got) = 1
    <3>1. Top.got = <<Top.got[1]>> BY <1>2, <2>3
    <3>2. Len(g) = 2 /\ g[1] = Top.got[1] /\ g[2] = Value(Wanted) BY <1>4, <2>3
    <3>3. Wanted = comb[Top.wire].arg[NextRead(comb[Top.wire], <<g[1]>>)]
      BY <1>2, <3>1, <3>2 DEF ReadNow
    <3>4. g[1] = Value(comb[Top.wire].arg[1]) BY <2>1, <2>3, <3>2 DEF ReadRight
    <3> QED BY <1>1, <1>7, <3>2, <3>3, <3>4 DEF ReadRight, Value
  <2> QED BY <1>6, <2>2, <2>3
<1>14. FramesRight'
  <2> SUFFICES ASSUME NEW i \in 1..L PROVE ReadRight(frames[i])'
    BY <1>8 DEF FramesRight
  <2>1. CASE i = L
    BY <1>8, <1>13, <2>1
  <2>2. CASE i # L
    BY <1>1, <1>2, <1>8, <2>2 DEF IInv, ResolverInv, FramesRight, ReadRight, Value
  <2> QED BY <2>1, <2>2
<1>15. MemoRight' BY <1>1, MemoSame DEF IInv, ResolverInv
<1> QED BY <1>1, <1>10, <1>11, <1>12, <1>14, <1>15 DEF ResolverInv, CyclesAreFields

\* What a frame wants next, if the read is recorded, was finished before it.
LEMMA WantedBelow ==
  ASSUME IInv, Accepted, frames # <<>>, Wanted \in Wire, Recorded(Len(frames))
  PROVE  finish[Wanted] < finish[Top.wire]
<1>1. /\ Top = frames[Len(frames)] /\ Top.wire \in Wire
      /\ ReadNow(Top) \in Reads(comb[Top.wire])
      /\ Wanted = comb[Top.wire].arg[ReadNow(Top)]
  BY TopType
<1>2. Wanted \in Edges(Top.wire)
  BY <1>1, RecordedEdge DEF Recorded, IInv
<1>3. Ordered BY DfsOrdered DEF IInv
<1> QED BY <1>1, <1>2, <1>3 DEF Ordered

\* Starting the evaluation of a wire that is not remembered keeps it too.
LEMMA RecurseInv ==
  ASSUME IInv, Accepted, Recurse, UNCHANGED <<comb, dfsVars>>
  PROVE  ResolverInv'
<1> DEFINE L == Len(frames)
<1>1. /\ error = None /\ error' = None /\ leaf' = leaf /\ memo' = memo /\ comb' = comb
      /\ Accepted' /\ finish' = finish /\ frames # <<>> /\ ~Known(Wanted) /\ ~InProgress(Wanted)
      /\ frames' = Append(frames, Called(Wanted))
  BY DEF Recurse, Running, Accepted, Walked, dfsVars
<1>2. /\ L \in Nat \ {0} /\ DOMAIN frames = 1..L /\ Top = frames[L] /\ Top.wire \in Wire
      /\ Wanted \in Node /\ frames \in Seq(Frame)
  BY <1>1, TopType DEF IInv, ResolverInv, Evaluating
<1>3. PICK w \in Wire : w = Wanted /\ memo[w] = None
  <2>1. Wanted \notin Leaf
    BY <1>1, ResolverAssumptionHolds
       DEF Known, Value, IInv, ResolverInv, Evaluating, ResolverAssumption
  <2>2. memo[Wanted] = None BY <1>1, <2>1 DEF Known, Value
  <2> QED BY <1>2, <2>1, <2>2 DEF Node
<1>4. Called(w) \in Frame /\ Called(w).wire = w /\ Called(w).got = <<>>
  BY CalledType
<1>5. /\ frames' \in Seq(Frame) /\ Len(frames') = L + 1 /\ frames'[L + 1] = Called(w)
      /\ \A i \in 1..L : frames'[i] = frames[i]
  BY <1>1, <1>2, <1>3, <1>4, AppendProperties
<1>6. DOMAIN frames' = 1..(L + 1) BY <1>5, LenProperties
<1>7. \A i \in 1..(L + 1) : i \in 1..L \/ i = L + 1 BY <1>2
<1>8. Evaluating'
  BY <1>1, <1>2, <1>4, <1>5, <1>6, <1>7 DEF IInv, ResolverInv, Evaluating
<1>9. Descends'
  <2> SUFFICES ASSUME NEW i \in 1..(L + 1), NEW j \in 1..(L + 1), i < j,
                      \A k \in i..(j - 1) : Recorded(k)'
               PROVE  finish[frames'[j].wire] < finish[frames'[i].wire]
    BY <1>1, <1>6 DEF Descends
  <2>1. \A k \in i..(j - 1) : k \in 1..L BY <1>2, Between
  <2>2. \A k \in i..(j - 1) : Recorded(k)
    BY <1>1, <1>5, <2>1 DEF Recorded, ReadNow
  <2>3. i \in 1..L BY <1>2
  <2>4. CASE j \in 1..L
    BY <1>2, <1>5, <2>2, <2>3, <2>4 DEF IInv, ResolverInv, Descends
  <2>5. CASE j = L + 1
    <3>1. L \in i..(j - 1) BY <1>2, <2>3, <2>5
    <3>2. finish[w] < finish[Top.wire] BY <1>1, <1>3, <2>2, <3>1, WantedBelow
    <3> HIDE DEF L
    <3>5. frames'[j].wire = w /\ frames'[i].wire = frames[i].wire BY <1>4, <1>5, <2>3, <2>5
    <3>6. j - 1 = L BY <1>2, <2>5
    <3>3. CASE i = L
      <4>1. frames[i] = Top BY <1>2, <3>3
      <4> QED BY <3>2, <3>5, <4>1
    <3>4. CASE i # L
      <4>1. i < L /\ L \in 1..L /\ \A k \in i..(L - 1) : k \in i..(j - 1)
        BY <1>2, <2>3, <3>4, <3>6, BeforeLast
      <4>2. finish[frames[L].wire] < finish[frames[i].wire]
        BY <1>2, <2>2, <2>3, <4>1 DEF IInv, ResolverInv, Descends
      <4>3. frames[i].wire \in Wire BY <1>2, <2>3, FrameType
      <4>4. \A x \in Wire : finish[x] \in Int BY DEF IInv, DfsInv, Searching
      <4>5. finish[w] < finish[frames[i].wire] BY <1>2, <3>2, <4>2, <4>3, <4>4
      <4> QED BY <3>5, <4>5
    <3> QED BY <3>3, <3>4
  <2> QED BY <1>7, <2>4, <2>5
<1>10. Busy'
  <2>1. \A i \in 1..L : frames[i].wire # w BY <1>1, <1>2, <1>3 DEF InProgress
  <2>2. \A i \in 1..L : memo[frames[i].wire] = None
    BY <1>2 DEF IInv, ResolverInv, Busy
  <2>3. \A i, j \in 1..L : frames[i].wire = frames[j].wire => i = j
    BY <1>2 DEF IInv, ResolverInv, Busy
  <2> QED BY <1>1, <1>3, <1>4, <1>5, <1>6, <1>7, <2>1, <2>2, <2>3 DEF Busy
<1>11. FramesRight'
  <2> SUFFICES ASSUME NEW i \in 1..(L + 1) PROVE ReadRight(frames[i])'
    BY <1>6 DEF FramesRight
  <2>1. CASE i = L + 1
    BY <1>4, <1>5, <2>1 DEF ReadRight
  <2>2. CASE i \in 1..L
    BY <1>1, <1>2, <1>5, <2>2 DEF IInv, ResolverInv, FramesRight, ReadRight, Value
  <2> QED BY <1>7, <2>1, <2>2
<1>12. MemoRight' BY <1>1, MemoSame DEF IInv, ResolverInv
<1> QED BY <1>1, <1>8, <1>9, <1>10, <1>11, <1>12 DEF ResolverInv, CyclesAreFields

\* The frames are those of a cycle; if every read on it were recorded, the wire
\* asked for would have been finished before itself.
LEMMA ReportCycleInv ==
  ASSUME IInv, Accepted, ReportCycle, UNCHANGED <<comb, dfsVars>>
  PROVE  ResolverInv'
<1> DEFINE L == Len(frames)
<1>1. /\ error = None /\ error' = Wanted /\ leaf' = leaf /\ memo' = memo /\ comb' = comb
      /\ frames' = frames /\ finish' = finish /\ Accepted' /\ frames # <<>> /\ InProgress(Wanted)
  BY DEF ReportCycle, Running, Accepted, Walked, dfsVars
<1>2. /\ L \in Nat \ {0} /\ DOMAIN frames = 1..L /\ Top = frames[L] /\ Top.wire \in Wire
  BY <1>1, TopType
<1>3. PICK s \in 1..L : s = StartOf(Wanted) /\ frames[s].wire = Wanted
  BY <1>1, <1>2 DEF InProgress, StartOf
<1>4. Wanted \in Wire BY <1>2, <1>3, FrameType
<1>5. \E k \in s..L : ~Recorded(k)
  <2> SUFFICES ASSUME \A k \in s..L : Recorded(k) PROVE FALSE OBVIOUS
  <2>1. L \in s..L /\ \A k \in s..(L - 1) : k \in s..L BY <1>2
  <2>2. finish[Wanted] < finish[Top.wire] BY <1>1, <1>4, <2>1, WantedBelow
  <2>3. \A x \in Wire : finish[x] \in Int BY DEF IInv, DfsInv, Searching
  <2>4. CASE s = L BY <1>2, <1>3, <1>4, <2>2, <2>3, <2>4
  <2>5. CASE s # L
    <3>1. s < L /\ L \in 1..L BY <1>2, <2>5, BeforeLast
    <3>2. finish[frames[L].wire] < finish[frames[s].wire]
      BY <1>2, <2>1, <3>1 DEF IInv, ResolverInv, Descends
    <3> QED BY <1>2, <1>3, <1>4, <2>2, <2>3, <3>2
  <2> QED BY <2>4, <2>5
<1>6. CyclesAreFields'
  BY <1>1, <1>3, <1>5 DEF CyclesAreFields, StartOf, Recorded, ReadNow
<1>7. Evaluating' BY <1>1, <1>4 DEF IInv, ResolverInv, Evaluating
<1>8. Descends' BY <1>1 DEF IInv, ResolverInv, Descends, Recorded, ReadNow
<1>9. Busy' BY <1>1 DEF IInv, ResolverInv, Busy
<1>10. FramesRight' BY <1>1 DEF IInv, ResolverInv, FramesRight, ReadRight, Value
<1>11. MemoRight' BY <1>1, MemoSame DEF IInv, ResolverInv
<1> QED BY <1>1, <1>6, <1>7, <1>8, <1>9, <1>10, <1>11 DEF ResolverInv

\* What solves the equations goes on doing so while what is known stays as it is.
KnownKept == \A x \in Node : Known(x) => Known(x)' /\ Value(x)' = Value(x)

\* A solved wire stays solved while what is known only grows.
LEMMA SolvedKept ==
  ASSUME comb \in Designs, NEW w \in Wire, Solved(w), comb' = comb, memo'[w] = memo[w], KnownKept
  PROVE  Solved(w)'
<1> DEFINE d == comb[w]
<1>1. PICK a \in Bit, b \in Bit :
        /\ Known(d.arg[1]) /\ Value(d.arg[1]) = a
        /\ Known(d.arg[NextRead(d, <<a>>)]) /\ Value(d.arg[NextRead(d, <<a>>)]) = b
        /\ memo[w] = Result(d, <<a, b>>)
  BY DEF Solved
<1>2. d.arg[1] \in Node /\ d.arg[NextRead(d, <<a>>)] \in Node
  <2>1. <<a>> \in Seq(Bit) OBVIOUS
  <2>2. d.arg \in [Position -> Node] /\ NextRead(d, <<a>>) \in Position
    BY <2>1, DriverType
  <2> QED BY <2>2 DEF Position
<1>3. /\ Known(d.arg[1])' /\ Value(d.arg[1])' = a
      /\ Known(d.arg[NextRead(d, <<a>>)])' /\ Value(d.arg[NextRead(d, <<a>>)])' = b
  BY <1>1, <1>2 DEF KnownKept, Known, Value
<1>4. memo'[w] = Result(d, <<a, b>>) BY <1>1
<1> QED BY <1>3, <1>4 DEF Solved

\* What a frame has read stays right while what is known only grows.
LEMMA ReadRightKept ==
  ASSUME comb \in Designs, NEW f \in Frame, Len(f.got) <= 2, ReadRight(f), comb' = comb, KnownKept
  PROVE  ReadRight(f)'
<1> DEFINE d == comb[f.wire]
<1>1. f.wire \in Wire /\ f.got \in Seq(Bit) BY DEF Frame
<1>2. ASSUME Len(f.got) >= 1
      PROVE  /\ f.got[1] \in Bit /\ Value(d.arg[1]) = f.got[1]
             /\ d.arg[1] \in Node /\ d.arg[NextRead(d, <<f.got[1]>>)] \in Node
  <2>1. f.got[1] \in Bit /\ <<f.got[1]>> \in Seq(Bit) BY <1>1, <1>2
  <2>2. d.arg \in [Position -> Node] /\ NextRead(d, <<f.got[1]>>) \in Position
    BY <1>1, <2>1, DriverType
  <2> QED BY <1>2, <2>1, <2>2 DEF ReadRight, Position
<1>3. ASSUME Len(f.got) >= 1 PROVE Value(d.arg[1])' = f.got[1]
  BY <1>2, <1>3, ResolverAssumptionHolds DEF KnownKept, Known, ResolverAssumption
<1>4. ASSUME Len(f.got) >= 2 PROVE Value(d.arg[NextRead(d, <<f.got[1]>>)])' = f.got[2]
  <2>1. f.got[2] \in Bit /\ Len(f.got) >= 1 BY <1>1, <1>4
  <2>2. Value(d.arg[NextRead(d, <<f.got[1]>>)]) = f.got[2] BY <1>4 DEF ReadRight
  <2> QED BY <1>2, <2>1, <2>2, ResolverAssumptionHolds DEF KnownKept, Known, ResolverAssumption
<1> QED BY <1>3, <1>4 DEF ReadRight, Value

\* What is known stays known when the wire on top, which nobody knows yet, gets
\* its value.
LEMMA ReturnInv ==
  ASSUME IInv, Accepted, Return, UNCHANGED <<comb, dfsVars>>
  PROVE  ResolverInv'
<1> DEFINE L == Len(frames)
<1>1. /\ error = None /\ error' = None /\ leaf' = leaf /\ comb' = comb /\ Accepted'
      /\ finish' = finish /\ frames # <<>> /\ Len(Top.got) = 2 /\ frames' = Front(frames)
      /\ memo' = [memo EXCEPT ![Top.wire] = Result(comb[Top.wire], Top.got)]
  BY DEF Return, Evaluated, Accepted, Walked, dfsVars
<1>2. /\ L \in Nat \ {0} /\ L \in 1..L /\ DOMAIN frames = 1..L /\ Top = frames[L] /\ Top.wire \in Wire
      /\ Top.got \in Seq(Bit) /\ frames \in Seq(Frame)
      /\ memo \in [Wire -> Bit \union {None}] /\ leaf \in [Leaf -> Bit]
  BY <1>1, TopType DEF IInv, ResolverInv, Evaluating
<1>3. PICK t \in Wire, a \in Bit, b \in Bit :
        t = Top.wire /\ Top.got = <<a, b>> /\ Top.got[1] = a /\ Top.got[2] = b
  <2>1. Top.got[1] \in Bit /\ Top.got[2] \in Bit /\ Top.got = <<Top.got[1], Top.got[2]>>
    BY <1>1, <1>2
  <2> QED BY <1>2, <2>1
<1>4. memo[t] = None BY <1>2, <1>3 DEF IInv, ResolverInv, Busy
<1>5. PICK r \in Bit : r = Result(comb[t], <<a, b>>)
  <2>1. a + b \in Int /\ (a + b) % 2 \in Bit BY DEF Bit
  <2> QED BY <1>3, <2>1 DEF Result, Xor
<1>6. memo' = [memo EXCEPT ![t] = r] BY <1>1, <1>3, <1>5
<1>7. KnownKept
  BY <1>1, <1>2, <1>4, <1>6 DEF KnownKept, Known, Value, Node
<1>8. /\ frames' \in Seq(Frame) /\ Len(frames') = L - 1
      /\ \A i \in 1..(L - 1) : i \in 1..L /\ i # L /\ frames'[i] = frames[i]
  <2>1. /\ Front(frames) \in Seq(Frame) /\ Len(Front(frames)) = L - 1
        /\ \A i \in 1..(L - 1) : Front(frames)[i] = frames[i]
    BY <1>1, <1>2, FrontType
  <2>2. \A i \in 1..(L - 1) : i \in 1..L /\ i # L BY <1>2, NotLast
  <2> QED BY <1>1, <2>1, <2>2
<1>9. DOMAIN frames' = 1..(L - 1) BY <1>8, LenProperties
<1>10. Evaluating'
  <2>1. memo' \in [Wire -> Bit \union {None}] BY <1>2, <1>6
  <2> QED BY <1>1, <1>2, <1>8, <1>9, <2>1 DEF IInv, ResolverInv, Evaluating
<1>11. Descends'
  <2> SUFFICES ASSUME NEW i \in 1..(L - 1), NEW j \in 1..(L - 1), i < j,
                      \A k \in i..(j - 1) : Recorded(k)'
               PROVE  finish[frames[j].wire] < finish[frames[i].wire]
    BY <1>1, <1>8, <1>9 DEF Descends
  <2>1. \A k \in i..(j - 1) : k \in 1..(L - 1) BY <1>2, Between
  <2>2. \A k \in i..(j - 1) : Recorded(k)
    BY <1>1, <1>8, <2>1 DEF Recorded, ReadNow
  <2> QED BY <1>2, <1>8, <2>2 DEF IInv, ResolverInv, Descends
<1>12. Busy'
  <2>1. \A i \in 1..(L - 1) : frames[i].wire # t /\ frames[i].wire \in Wire
    BY <1>2, <1>3, <1>8, FrameType DEF IInv, ResolverInv, Busy
  <2>2. ASSUME NEW i \in 1..(L - 1) PROVE memo'[frames'[i].wire] = None
    <3>1. memo[frames[i].wire] = None BY <1>2, <1>8 DEF IInv, ResolverInv, Busy
    <3>2. memo'[frames[i].wire] = memo[frames[i].wire] BY <1>2, <1>6, <2>1
    <3> QED BY <1>8, <3>1, <3>2
  <2>3. \A i, j \in 1..(L - 1) : frames'[i].wire = frames'[j].wire => i = j
    BY <1>2, <1>8 DEF IInv, ResolverInv, Busy
  <2> QED BY <1>9, <2>2, <2>3 DEF Busy
<1>13. FramesRight'
  <2> SUFFICES ASSUME NEW i \in 1..(L - 1) PROVE ReadRight(frames[i])'
    BY <1>8, <1>9 DEF FramesRight, ReadRight
  <2>1. ReadRight(frames[i]) BY <1>2, <1>8 DEF IInv, ResolverInv, FramesRight
  <2>2. PICK f \in Frame : f = frames[i] /\ Len(f.got) <= 2 /\ frames'[i] = f
    BY <1>2, <1>8, FrameType
  <2>3. ReadRight(f)' BY <1>1, <1>7, <2>1, <2>2, ReadRightKept DEF IInv
  <2> QED BY <2>2, <2>3
<1>14. Solved(t)'
  <2> DEFINE d == comb[t]
  <2>1. ReadRight(Top) BY <1>2 DEF IInv, ResolverInv, FramesRight
  <2>2. Value(d.arg[1]) = a /\ Value(d.arg[NextRead(d, <<a>>)]) = b
    BY <1>1, <1>3, <2>1 DEF ReadRight
  <2>3. d.arg[1] \in Node /\ d.arg[NextRead(d, <<a>>)] \in Node
    <3>1. <<a>> \in Seq(Bit) OBVIOUS
    <3>2. d.arg \in [Position -> Node] /\ NextRead(d, <<a>>) \in Position
      BY <3>1, DriverType DEF IInv
    <3> QED BY <3>2 DEF Position
  <2>4. /\ Known(d.arg[1])' /\ Value(d.arg[1])' = a
        /\ Known(d.arg[NextRead(d, <<a>>)])' /\ Value(d.arg[NextRead(d, <<a>>)])' = b
    BY <1>1, <1>7, <2>2, <2>3, ResolverAssumptionHolds
       DEF KnownKept, Known, Value, ResolverAssumption
  <2>5. memo'[t] = Result(d, <<a, b>>) BY <1>2, <1>5, <1>6
  <2> QED BY <1>1, <2>4, <2>5 DEF Solved
<1>15. MemoRight'
  <2> SUFFICES ASSUME NEW w \in Wire, memo'[w] # None PROVE Solved(w)'
    BY DEF MemoRight
  <2>1. CASE w = t BY <1>14, <2>1
  <2>2. CASE w # t
    <3>1. memo'[w] = memo[w] BY <1>2, <1>6, <2>2
    <3>2. Solved(w) BY <3>1 DEF IInv, ResolverInv, MemoRight
    <3> QED BY <1>1, <1>7, <3>1, <3>2, SolvedKept DEF IInv
  <2> QED BY <2>1, <2>2
<1> QED BY <1>1, <1>10, <1>11, <1>12, <1>13, <1>15 DEF ResolverInv, CyclesAreFields

\* A fresh environment knows nothing.
LEMMA NewStateInv ==
  ASSUME IInv, Accepted, NewState, UNCHANGED <<comb, dfsVars>>
  PROVE  ResolverInv'
<1>1. /\ leaf' \in [Leaf -> Bit] /\ memo' = NoMemo /\ frames' = <<>> /\ error' = None
      /\ DOMAIN frames' = {} /\ Accepted'
  BY DEF NewState, Accepted, Walked, dfsVars
<1>2. \A w \in Wire : memo'[w] = None BY <1>1 DEF NoMemo
<1>3. Evaluating' BY <1>1 DEF Evaluating, NoMemo
<1> QED BY <1>1, <1>2, <1>3
        DEF ResolverInv, Descends, Busy, FramesRight, MemoRight, CyclesAreFields

\* Every step of the simulation keeps the invariant.
LEMMA SimulateInv == ASSUME IInv, Simulate PROVE IInv'
<1>1. Accepted /\ comb' = comb /\ UNCHANGED <<comb, dfsVars>> BY DEF Simulate
<1>2. DfsInv'
  BY <1>1 DEF IInv, DfsInv, dfsVars, Searching, GreyOnStack, RootsMet, ReadsFirst, BlackOrdered, Edges
<1>3. ResolverInv'
  <2>1. CASE \E w \in Wire : Ask(w) BY <1>1, <2>1, AskInv
  <2>2. CASE Read BY <1>1, <2>2, ReadInv
  <2>3. CASE Recurse BY <1>1, <2>3, RecurseInv
  <2>4. CASE ReportCycle BY <1>1, <2>4, ReportCycleInv
  <2>5. CASE Return BY <1>1, <2>5, ReturnInv
  <2>6. CASE NewState BY <1>1, <2>6, NewStateInv
  <2> QED BY <2>1, <2>2, <2>3, <2>4, <2>5, <2>6 DEF Simulate, Resolve, Step
<1> QED BY <1>1, <1>2, <1>3 DEF IInv

\* A step that changes nothing keeps the invariant.
LEMMA StutterInv == ASSUME IInv, UNCHANGED vars PROVE IInv'
<1>1. UNCHANGED <<comb, dfsVars>> /\ UNCHANGED resolverVars BY DEF vars
<1>2. DfsInv'
  BY <1>1 DEF IInv, DfsInv, dfsVars, Searching, GreyOnStack, RootsMet, ReadsFirst, BlackOrdered, Edges
<1>3. MemoRight' BY <1>1, MemoSame DEF resolverVars, IInv, ResolverInv
<1> QED
  BY <1>1, <1>2, <1>3
     DEF resolverVars, dfsVars, IInv, ResolverInv, Evaluating, Accepted, Walked, Idle, Descends,
         Recorded, ReadNow, Busy, FramesRight, ReadRight, Value, CyclesAreFields, StartOf

\* The initial states satisfy the invariant.
LEMMA InitInv == ASSUME Init PROVE IInv
<1>1. comb \in Designs /\ DfsInv BY DfsInitInv DEF Init
<1>2. /\ leaf \in [Leaf -> Bit] /\ memo = NoMemo /\ frames = <<>> /\ DOMAIN frames = {} /\ error = None
  BY DEF Init, ResolverInit
<1>3. Evaluating BY <1>2 DEF Evaluating, NoMemo
<1>4. \A w \in Wire : memo[w] = None BY <1>2 DEF NoMemo
<1> QED BY <1>1, <1>2, <1>3, <1>4
        DEF IInv, ResolverInv, Idle, Descends, Busy, FramesRight, MemoRight, CyclesAreFields

\* The invariant that all the rest follows from.
THEOREM Invariant == Spec => []IInv
<1>1. Init => IInv BY InitInv
<1>2. IInv /\ [Next]_vars => IInv' BY CheckInv, SimulateInv, StutterInv DEF Next
<1> QED BY <1>1, <1>2, PTL DEF Spec

\* An accepted module has its wires in an order in which each comes after all
\* that the checker saw it read: the search of find_cycles misses no cycle of
\* recorded reads, for any number of wires and in whatever order it meets them.
THEOREM AcceptedOrdered == Spec => []Ordered
<1>1. IInv => Ordered BY DfsOrdered DEF IInv
<1> QED BY <1>1, Invariant, PTL

\* The lazy evaluation of CombEnv remembers a value for a wire only if it solves
\* the wire's driver for the leaves as they are now.
THEOREM MemoSolves == Spec => []MemoRight
<1>1. IInv => MemoRight BY DEF IInv, ResolverInv
<1> QED BY <1>1, Invariant, PTL

\* An accepted module meets S0238 in simulation only through a read that the
\* checker does not record: somewhere on the cycle a field of a bundle is read.
THEOREM CycleThroughField == Spec => []CyclesAreFields
<1>1. IInv => CyclesAreFields BY DEF IInv, ResolverInv
<1> QED BY <1>1, Invariant, PTL

\* What the checker reports is a cycle: each of its wires reads the next and the
\* last is the first, for any number of wires and any order of the search.
THEOREM ReportsAreCycles == Spec => []CyclesReal
<1>1. Init => PathInv
  BY EmptySeq DEF Init, DfsInit, PathInv, PathOnStack, Chained, EntriesRead, CyclesReal
<1>2. IInv /\ PathInv /\ [Next]_vars => PathInv'
  <2> SUFFICES ASSUME IInv, PathInv, [Next]_vars PROVE PathInv' OBVIOUS
  <2>1. CASE Check BY <2>1, SearchPath DEF Check, IInv
  <2>2. CASE Simulate \/ UNCHANGED vars
    <3>1. UNCHANGED <<comb, dfsVars>> BY <2>2 DEF Simulate, vars
    <3> QED
      BY <3>1 DEF dfsVars, PathInv, PathOnStack, Chained, EntriesRead, NearestBelow, CyclesReal,
           Edges
  <2> QED BY <2>1, <2>2 DEF Next
<1>3. PathInv => CyclesReal BY DEF PathInv
<1> QED BY <1>1, <1>2, <1>3, Invariant, PTL DEF Spec
=============================================================================
