---------------------------- MODULE FdTableProofs ----------------------------
(***************************************************************************)
(* The reference counts of FdTable and its types for any number of         *)
(* threads, descriptors, checkpoints and restarts; and that a restart      *)
(* brings every descriptor back as it was at the checkpoint.               *)
(***************************************************************************)
EXTENDS FdTable, FiniteSetTheorems, WellFoundedInduction, TLAPS

\* The slots of a table that point to an entry.
Slots(tab, a) == {fd \in Fds : tab[fd] = a}

\* Every entry a slot points to is in use and counts its slots.
Counted(tab, src) ==
  \A fd \in Fds : tab[fd] # Null =>
    /\ src[tab[fd]].type # "FD_NULL"
    /\ src[tab[fd]].ref >= Cardinality(Slots(tab, tab[fd]))

\* A struct fd_source with any contents and a count.
IsSource(e) ==
  /\ DOMAIN e = {"type", "state", "name", "offset", "ref", "root"}
  /\ e.ref \in Nat

TableType(tab, src) ==
  /\ tab \in [Fds -> Addrs \cup {Null}]
  /\ src = [a \in Addrs |-> src[a]]
  /\ \A a \in Addrs : IsSource(src[a])

IsHook(h) ==
  /\ DOMAIN h = {"op", "fd", "from", "name"}
  /\ h.fd \in Fds /\ h.from \in Fds

HookType == /\ hook = [u \in Users |-> hook[u]]
            /\ \A u \in Users : IsHook(hook[u])

\* The counts are right in the process and in the image it may come back from.
IInv ==
  /\ HookType
  /\ TableType(table, source) /\ Counted(table, source)
  /\ \A i \in image : TableType(i.table, i.source) /\ Counted(i.table, i.source)

-----------------------------------------------------------------------------

\* The descriptors are finitely many numbers.
LEMMA FdsFinite ==
  /\ IsFiniteSet(Fds) /\ Fds \subseteq Nat /\ 0 \in Fds
  /\ \A tab, a : IsFiniteSet(Slots(tab, a)) /\ Cardinality(Slots(tab, a)) \in Nat
<1>1. LastFd \in Nat
  BY ConstantsAssumption
<1>2. IsFiniteSet(Fds) /\ Fds \subseteq Nat /\ 0 \in Fds
  BY <1>1, FS_Interval DEF Fds
<1>3. ASSUME NEW tab, NEW a
      PROVE  IsFiniteSet(Slots(tab, a)) /\ Cardinality(Slots(tab, a)) \in Nat
  <2>1. Slots(tab, a) \in SUBSET Fds
    BY DEF Slots
  <2>2. IsFiniteSet(Slots(tab, a))
    BY <1>2, <2>1, FS_Subset
  <2> QED BY <2>2, FS_CardinalityType
<1> QED BY <1>2, <1>3

\* The kernel's lowest free descriptor exists if any is free.
LEMMA LowestFreeExists == FreeFds # {} => LowestFree \in Fds
<1> SUFFICES ASSUME FreeFds # {} PROVE LowestFree \in Fds
  OBVIOUS
<1>1. FreeFds \subseteq Nat /\ FreeFds \subseteq Fds
  BY FdsFinite DEF FreeFds
<1> DEFINE R == {ss \in Nat \X Nat : ss[1] < ss[2]}
<1>2. IsWellFoundedOn(R, Nat)
  BY NatLessThanWellFounded DEF OpToRel
<1> HIDE DEF R
<1>3. \E x \in FreeFds : \A y \in FreeFds : ~(<<y, x>> \in R)
  BY <1>1, <1>2, WFMin
<1>4. ASSUME NEW x \in Nat, NEW y \in Nat, ~(<<y, x>> \in R)
      PROVE  x <= y
  BY <1>4 DEF R
<1>5. \E x \in FreeFds : \A y \in FreeFds : x <= y
  BY <1>1, <1>3, <1>4
<1> QED BY <1>1, <1>5 DEF LowestFree

\* What a slot that changes does to the slots of an entry.
LEMMA SlotSet ==
  ASSUME NEW tab \in [Fds -> Addrs \cup {Null}], NEW fd \in Fds,
         NEW b \in Addrs \cup {Null}, NEW a
  PROVE  /\ a # b => Cardinality(Slots([tab EXCEPT ![fd] = b], a)) <=
                        Cardinality(Slots(tab, a))
         /\ a = b => Cardinality(Slots([tab EXCEPT ![fd] = b], a)) <=
                        Cardinality(Slots(tab, a)) + 1
         /\ a # b /\ tab[fd] = a =>
              Cardinality(Slots([tab EXCEPT ![fd] = b], a)) =
                Cardinality(Slots(tab, a)) - 1
<1> DEFINE new == [tab EXCEPT ![fd] = b]
<1>0. new \in [Fds -> Addrs \cup {Null}] /\ \A g \in Fds : new[g] = IF g = fd THEN b ELSE tab[g]
  OBVIOUS
<1> HIDE DEF new
<1>1. a # b => Slots(new, a) = Slots(tab, a) \ {fd}
  BY <1>0 DEF Slots
<1>2. a = b => Slots(new, a) = Slots(tab, a) \cup {fd}
  BY <1>0 DEF Slots
<1>3. IsFiniteSet(Slots(tab, a)) /\ Cardinality(Slots(tab, a)) \in Nat
  BY FdsFinite
<1>4. Cardinality(Slots(tab, a) \ {fd}) =
        IF fd \in Slots(tab, a) THEN Cardinality(Slots(tab, a)) - 1
        ELSE Cardinality(Slots(tab, a))
  BY <1>3, FS_RemoveElement
<1>5. Cardinality(Slots(tab, a) \cup {fd}) =
        IF fd \in Slots(tab, a) THEN Cardinality(Slots(tab, a))
        ELSE Cardinality(Slots(tab, a)) + 1
  BY <1>3, FS_AddElement
<1>6. tab[fd] = a <=> fd \in Slots(tab, a)
  BY DEF Slots
<1>7. /\ a # b => Cardinality(Slots(new, a)) <= Cardinality(Slots(tab, a))
      /\ a = b => Cardinality(Slots(new, a)) <= Cardinality(Slots(tab, a)) + 1
      /\ a # b /\ tab[fd] = a =>
           Cardinality(Slots(new, a)) = Cardinality(Slots(tab, a)) - 1
  BY <1>1, <1>2, <1>3, <1>4, <1>5, <1>6
<1> QED BY <1>7 DEF new

\* A slot that is cleared is one slot less of its entry.
LEMMA SlotGone ==
  ASSUME NEW tab \in [Fds -> Addrs \cup {Null}], NEW fd \in Fds, tab[fd] # Null
  PROVE  Cardinality(Slots([tab EXCEPT ![fd] = Null], tab[fd])) =
           Cardinality(Slots(tab, tab[fd])) - 1
<1> DEFINE a == tab[fd]
<1>1. a # Null /\ tab[fd] = a
  OBVIOUS
<1> HIDE DEF a
<1>2. Null \in Addrs \cup {Null}
  OBVIOUS
<1>3. Cardinality(Slots([tab EXCEPT ![fd] = Null], a)) = Cardinality(Slots(tab, a)) - 1
  BY <1>1, <1>2, SlotSet
<1> QED BY <1>3 DEF a

-----------------------------------------------------------------------------
(* The table operations                                                    *)

\* fd_table_open: a free entry, with one reference, for one slot.
LEMMA OpenCounted ==
  ASSUME NEW tab, NEW src, TableType(tab, src), Counted(tab, src),
         NEW fd \in Fds, NEW a \in Addrs, src[a].type = "FD_NULL",
         NEW e, IsSource(e), e.type # "FD_NULL", e.ref = 1
  PROVE  /\ TableType([tab EXCEPT ![fd] = a], [src EXCEPT ![a] = e])
         /\ Counted([tab EXCEPT ![fd] = a], [src EXCEPT ![a] = e])
<1> DEFINE t2 == [tab EXCEPT ![fd] = a]
           s2 == [src EXCEPT ![a] = e]
<1>1. Null \notin Addrs /\ tab \in [Fds -> Addrs \cup {Null}]
  BY ConstantsAssumption DEF TableType
<1>2. TableType(t2, s2)
  BY <1>1 DEF TableType
<1>3. Slots(tab, a) = {}
  BY <1>1 DEF Counted, Slots
<1>4. Cardinality(Slots(t2, a)) = 1
  <2>1. Slots(t2, a) = {fd}
    BY <1>1, <1>3 DEF Slots
  <2> QED BY <2>1, FS_Singleton
<1>5. ASSUME NEW g \in Fds, t2[g] # Null
      PROVE  s2[t2[g]].type # "FD_NULL" /\ s2[t2[g]].ref >= Cardinality(Slots(t2, t2[g]))
  <2>1. CASE t2[g] = a
    <3>1. s2[a] = e
      BY DEF TableType
    <3> QED BY <2>1, <3>1, <1>4
  <2>2. CASE t2[g] # a
    <3>1. g # fd /\ t2[g] = tab[g]
      BY <1>1, <2>2
    <3>2. s2[t2[g]] = src[tab[g]]
      BY <1>1, <1>5, <2>2, <3>1 DEF TableType
    <3>3. Cardinality(Slots(t2, t2[g])) <= Cardinality(Slots(tab, tab[g]))
      BY <1>1, <2>2, <3>1, SlotSet
    <3>4. src[tab[g]].type # "FD_NULL" /\ src[tab[g]].ref >= Cardinality(Slots(tab, tab[g]))
      BY <1>5, <3>1 DEF Counted
    <3>5. src[tab[g]].ref \in Nat
      BY <1>1, <1>5, <3>1 DEF TableType, IsSource
    <3> QED BY <3>2, <3>3, <3>4, <3>5, FdsFinite
  <2> QED BY <2>1, <2>2
<1> QED BY <1>2, <1>5 DEF Counted

\* fd_table_close: the entry loses its slot and a reference, or is freed with
\* the last slot.
LEMMA UnrefCounted ==
  ASSUME TableType(table, source), Counted(table, source),
         NEW fd \in Fds, Unref(fd)
  PROVE  TableType(table', source') /\ Counted(table', source')
<1> DEFINE a == table[fd]
<1>1. Null \notin Addrs /\ table \in [Fds -> Addrs \cup {Null}]
  BY ConstantsAssumption DEF TableType
<1>2. table' = [table EXCEPT ![fd] = Null]
  BY DEF Unref
<1>3. table' \in [Fds -> Addrs \cup {Null}]
  BY <1>1, <1>2
<1>4. \A b \in Addrs : Cardinality(Slots(table', b)) <= Cardinality(Slots(table, b))
  BY <1>1, <1>2, SlotSet
<1>5. CASE a = Null
  <2>1. source' = source
    BY <1>5 DEF Unref
  <2>2. table' = table
    BY <1>1, <1>2, <1>5
  <2> QED BY <2>1, <2>2
<1>6. CASE a # Null
  <2>1. a \in Addrs /\ IsSource(source[a])
    BY <1>1, <1>6 DEF TableType
  <2>2. source' = [source EXCEPT ![a] = Released(@)]
    BY <1>6 DEF Unref
  <2>3. /\ source' = [b \in Addrs |-> source'[b]]
        /\ \A b \in Addrs \ {a} : source'[b] = source[b]
        /\ source'[a] = Released(source[a])
    BY <2>1, <2>2 DEF TableType
  <2>4. /\ source[a].type # "FD_NULL"
        /\ source[a].ref >= Cardinality(Slots(table, a))
    BY <1>6 DEF Counted
  <2>5. Cardinality(Slots(table', a)) = Cardinality(Slots(table, a)) - 1
    BY <1>1, <1>2, <1>6, SlotGone
  <2>6. Cardinality(Slots(table, a)) \in Nat /\ Cardinality(Slots(table', a)) \in Nat
    BY FdsFinite
  <2>7. source[a].ref \in Nat /\ source[a].ref >= 1
    BY <2>1, <2>4, <2>5, <2>6 DEF IsSource
  <2>8. IsSource(source'[a])
    <3>1. CASE source[a].ref = 1
      BY <2>3, <3>1 DEF Released, IsSource, Unused
    <3>2. CASE source[a].ref # 1
      BY <2>1, <2>3, <2>7, <3>2 DEF Released, IsSource
    <3> QED BY <3>1, <3>2
  <2>9. TableType(table', source')
    BY <1>3, <2>3, <2>8 DEF TableType
  <2>10. ASSUME NEW g \in Fds, table'[g] # Null
         PROVE  /\ source'[table'[g]].type # "FD_NULL"
                /\ source'[table'[g]].ref >= Cardinality(Slots(table', table'[g]))
    <3>1. table'[g] = table[g] /\ table[g] \in Addrs
      BY <1>1, <1>2, <2>10
    <3>2. CASE table[g] = a
      <4>1. Slots(table', a) # {}
        BY <3>1, <3>2 DEF Slots
      <4>2. Cardinality(Slots(table', a)) # 0
        BY <4>1, FdsFinite, FS_EmptySet
      <4>3. source[a].ref # 1
        BY <2>4, <2>5, <2>6, <2>7, <4>2
      <4>4. source'[a].type = source[a].type /\ source'[a].ref = source[a].ref - 1
        BY <2>1, <2>3, <4>3 DEF Released, IsSource
      <4> QED BY <2>4, <2>5, <2>6, <2>7, <3>1, <3>2, <4>4
    <3>3. CASE table[g] # a
      <4>1. source'[table'[g]] = source[table[g]]
        BY <2>3, <3>1, <3>3
      <4>2. /\ source[table[g]].type # "FD_NULL"
            /\ source[table[g]].ref >= Cardinality(Slots(table, table[g]))
        BY <2>10, <3>1 DEF Counted
      <4>3. source[table[g]].ref \in Nat
        BY <3>1 DEF TableType, IsSource
      <4>4. Cardinality(Slots(table', table[g])) <= Cardinality(Slots(table, table[g]))
        BY <1>4, <3>1
      <4> QED BY <3>1, <4>1, <4>2, <4>3, <4>4, FdsFinite
    <3> QED BY <3>2, <3>3
  <2> QED BY <2>9, <2>10 DEF Counted
<1> QED BY <1>5, <1>6

\* fd_table_dup: one more slot, one more reference.
LEMMA DupCounted ==
  ASSUME NEW tab, NEW src, TableType(tab, src), Counted(tab, src),
         NEW fd \in Fds, NEW a \in Addrs, src[a].type # "FD_NULL",
         src[a].ref >= Cardinality(Slots(tab, a))
  PROVE  /\ TableType([tab EXCEPT ![fd] = a], [src EXCEPT ![a].ref = @ + 1])
         /\ Counted([tab EXCEPT ![fd] = a], [src EXCEPT ![a].ref = @ + 1])
<1> DEFINE t2 == [tab EXCEPT ![fd] = a]
           s2 == [src EXCEPT ![a].ref = @ + 1]
<1>1. Null \notin Addrs /\ tab \in [Fds -> Addrs \cup {Null}]
  BY ConstantsAssumption DEF TableType
<1>2. /\ s2 = [b \in Addrs |-> s2[b]]
      /\ \A b \in Addrs \ {a} : s2[b] = src[b]
      /\ s2[a].type = src[a].type /\ s2[a].ref = src[a].ref + 1
      /\ IsSource(s2[a])
  BY DEF TableType, IsSource
<1>3. t2 \in [Fds -> Addrs \cup {Null}] /\ \A g \in Fds \ {fd} : t2[g] = tab[g]
  BY <1>1
<1>4. TableType(t2, s2)
  BY <1>2, <1>3 DEF TableType
<1>5. ASSUME NEW g \in Fds, t2[g] # Null
      PROVE  s2[t2[g]].type # "FD_NULL" /\ s2[t2[g]].ref >= Cardinality(Slots(t2, t2[g]))
  <2>1. CASE t2[g] = a
    <3>1. Cardinality(Slots(t2, a)) <= Cardinality(Slots(tab, a)) + 1
      BY <1>1, SlotSet
    <3>2. src[a].ref \in Nat
      BY DEF TableType, IsSource
    <3>3. Cardinality(Slots(t2, a)) \in Nat /\ Cardinality(Slots(tab, a)) \in Nat
      BY FdsFinite
    <3> QED BY <1>2, <2>1, <3>1, <3>2, <3>3
  <2>2. CASE t2[g] # a
    <3>1. t2[g] = tab[g] /\ tab[g] \in Addrs /\ tab[g] # Null
      BY <1>1, <1>3, <1>5, <2>2
    <3>2. s2[t2[g]] = src[tab[g]]
      BY <1>2, <2>2, <3>1
    <3>3. Cardinality(Slots(t2, t2[g])) <= Cardinality(Slots(tab, tab[g]))
      BY <1>1, <2>2, <3>1, SlotSet
    <3>4. src[tab[g]].type # "FD_NULL" /\ src[tab[g]].ref >= Cardinality(Slots(tab, tab[g]))
      BY <3>1 DEF Counted
    <3>5. src[tab[g]].ref \in Nat
      BY <3>1 DEF TableType, IsSource
    <3>6. /\ Cardinality(Slots(t2, t2[g])) \in Nat
          /\ Cardinality(Slots(tab, tab[g])) \in Nat
      BY FdsFinite
    <3> HIDE DEF t2, s2
    <3> QED BY <3>2, <3>3, <3>4, <3>5, <3>6
  <2> QED BY <2>1, <2>2
<1> QED BY <1>4, <1>5 DEF Counted

\* What fd_table_save, file_restore and fd_table_open make of an entry.
LEMMA Marked ==
  ASSUME NEW e, IsSource(e), NEW x
  PROVE  /\ LET new == [e EXCEPT !.offset = x, !.state = "FD_STATE_SAVED"]
            IN IsSource(new) /\ new.type = e.type /\ new.ref = e.ref
         /\ LET new == [e EXCEPT !.offset = x]
            IN IsSource(new) /\ new.type = e.type /\ new.ref = e.ref
         /\ LET new == [e EXCEPT !.root = x, !.state = "FD_STATE_RESTORED"]
            IN IsSource(new) /\ new.type = e.type /\ new.ref = e.ref
         /\ LET new == [Unused EXCEPT !.type = "FD_FILE", !.name = x, !.ref = 1]
            IN IsSource(new) /\ new.type # "FD_NULL" /\ new.ref = 1
BY DEF IsSource, Unused

\* Saving and restoring change neither the type nor the count of an entry.
LEMMA SameCounts ==
  ASSUME NEW tab, NEW src, NEW src2, TableType(tab, src), Counted(tab, src),
         src2 = [a \in Addrs |-> src2[a]],
         \A a \in Addrs : /\ IsSource(src2[a])
                          /\ src2[a].type = src[a].type /\ src2[a].ref = src[a].ref
  PROVE  TableType(tab, src2) /\ Counted(tab, src2)
BY DEF TableType, Counted

-----------------------------------------------------------------------------
(* The inductive invariant                                                 *)

\* The first table: one entry and one reference for each inherited stream.
LEMMA InitCounted == Init => IInv
<1> SUFFICES ASSUME Init PROVE IInv
  OBVIOUS
<1>1. LastFd \in Nat /\ 0 \in Fds /\ Null \notin Addrs /\ Std \subseteq Fds
  BY ConstantsAssumption DEF Fds, Std
<1>2. HookType
  BY <1>1 DEF Init, HookType, IsHook, Idle
<1>3. PICK f \in [Std -> Addrs] :
        /\ \A i, j \in Std : i # j => f[i] # f[j]
        /\ table = [fd \in Fds |-> IF fd \in Std THEN f[fd] ELSE Null]
        /\ source = [a \in Addrs |->
                      IF \E i \in Std : f[i] = a
                        THEN [Unused EXCEPT !.type = "FD_INHERITED", !.ref = 1,
                                !.root = CHOOSE i \in Std : f[i] = a]
                        ELSE Unused]
  BY DEF Init
<1>4. TableType(table, source)
  <2>1. table \in [Fds -> Addrs \cup {Null}]
    BY <1>1, <1>3
  <2>2. \A a \in Addrs : IsSource(source[a])
    BY <1>3 DEF IsSource, Unused
  <2>3. source = [a \in Addrs |-> source[a]]
    BY <1>3
  <2> QED BY <2>1, <2>2, <2>3 DEF TableType
<1>5. ASSUME NEW fd \in Fds, table[fd] # Null
      PROVE  /\ source[table[fd]].type # "FD_NULL"
             /\ source[table[fd]].ref >= Cardinality(Slots(table, table[fd]))
  <2>1. fd \in Std /\ table[fd] = f[fd] /\ f[fd] \in Addrs
    BY <1>3, <1>5
  <2>2. source[f[fd]].type = "FD_INHERITED" /\ source[f[fd]].ref = 1
    BY <1>3, <2>1 DEF Unused
  <2>3. Slots(table, f[fd]) = {fd}
    BY <1>1, <1>3, <2>1 DEF Slots
  <2>4. Cardinality(Slots(table, f[fd])) = 1
    BY <2>3, FS_Singleton
  <2> QED BY <2>1, <2>2, <2>4
<1>6. image = {}
  BY DEF Init
<1> QED BY <1>2, <1>4, <1>5, <1>6 DEF IInv, Counted

\* Calls of the kernel start a hook and leave the table alone.
LEMMA HookStarts ==
  ASSUME IInv, NEW u \in Users,
         \/ \E name \in Files : OpenHook(u, name)
         \/ \E fd \in Fds : CloseHook(u, fd) \/ DupHook(u, fd)
         \/ \E fd, new \in Fds : Dup2Hook(u, fd, new)
         \/ \E fd \in Fds, name \in Files : FreopenHook(u, fd, name)
  PROVE  IInv'
<1>1. UNCHANGED <<table, source, image>>
  BY DEF OpenHook, CloseHook, DupHook, Dup2Hook, DupTo, FreopenHook, tableVars, ckptVars
<1>2. \E h : hook' = [hook EXCEPT ![u] = h] /\ IsHook(h)
  <2>1. 0 \in Fds
    BY FdsFinite
  <2>2. ASSUME NEW name \in Files, OpenHook(u, name)
        PROVE  \E h : hook' = [hook EXCEPT ![u] = h] /\ IsHook(h)
    <3> DEFINE h == [op |-> "open", fd |-> LowestFree, from |-> 0, name |-> name]
    <3>0. LowestFree \in Fds
      BY <2>2, LowestFreeExists DEF OpenHook
    <3>1. hook' = [hook EXCEPT ![u] = h]
      BY <2>2 DEF OpenHook, Entered
    <3>2. IsHook(h)
      BY <2>1, <2>2, <3>0 DEF IsHook, Idle
    <3> QED BY <3>1, <3>2
  <2>3. ASSUME NEW fd \in Fds, CloseHook(u, fd)
        PROVE  \E h : hook' = [hook EXCEPT ![u] = h] /\ IsHook(h)
    <3> DEFINE h == [Idle EXCEPT !.op = "close", !.fd = fd]
    <3>1. hook' = [hook EXCEPT ![u] = h]
      BY <2>3 DEF CloseHook, Entered
    <3>2. IsHook(h)
      BY <2>1, <2>3 DEF IsHook, Idle
    <3> QED BY <3>1, <3>2
  <2>4. ASSUME NEW fd \in Fds, DupHook(u, fd)
        PROVE  \E h : hook' = [hook EXCEPT ![u] = h] /\ IsHook(h)
    <3> DEFINE h == [Idle EXCEPT !.op = "dup", !.fd = LowestFree, !.from = fd]
    <3>0. LowestFree \in Fds
      BY <2>4, LowestFreeExists DEF DupHook
    <3>1. hook' = [hook EXCEPT ![u] = h]
      BY <2>4 DEF DupHook, DupTo, Entered
    <3>2. IsHook(h)
      BY <2>1, <2>4, <3>0 DEF IsHook, Idle
    <3> QED BY <3>1, <3>2
  <2>5. ASSUME NEW fd \in Fds, NEW new \in Fds, Dup2Hook(u, fd, new)
        PROVE  \E h : hook' = [hook EXCEPT ![u] = h] /\ IsHook(h)
    <3> DEFINE h == [Idle EXCEPT !.op = "dup", !.fd = new, !.from = fd]
    <3>1. hook' = [hook EXCEPT ![u] = h]
      BY <2>5 DEF Dup2Hook, DupTo, Entered
    <3>2. IsHook(h)
      BY <2>1, <2>5 DEF IsHook, Idle
    <3> QED BY <3>1, <3>2
  <2>6. ASSUME NEW fd \in Fds, NEW name \in Files, FreopenHook(u, fd, name)
        PROVE  \E h : hook' = [hook EXCEPT ![u] = h] /\ IsHook(h)
    <3> DEFINE h == [op |-> "freopen", fd |-> fd, from |-> 0, name |-> name]
    <3>1. hook' = [hook EXCEPT ![u] = h]
      BY <2>6 DEF FreopenHook, Entered
    <3>2. IsHook(h)
      BY <2>1, <2>6 DEF IsHook, Idle
    <3> QED BY <3>1, <3>2
  <2> QED BY <2>2, <2>3, <2>4, <2>5, <2>6
<1>3. HookType'
  BY <1>2 DEF IInv, HookType
<1> QED BY <1>1, <1>3 DEF IInv

\* The table's turn of a hook.
LEMMA HookEnds ==
  ASSUME IInv, NEW u \in Users,
         fd_table_open(u) \/ fd_table_close(u) \/ FreopenClose(u) \/ fd_table_dup(u)
  PROVE  IInv'
<1>1. image' = image
  BY DEF fd_table_open, fd_table_close, FreopenClose, fd_table_dup, ckptVars
<1>2. hook[u].fd \in Fds /\ hook[u].from \in Fds
  BY DEF IInv, HookType, IsHook
<1>3. HookType'
  <2>1. IsHook(Idle)
    BY FdsFinite DEF IsHook, Idle
  <2>2. CASE hook' = [hook EXCEPT ![u] = Idle]
    BY <2>1, <2>2 DEF IInv, HookType
  <2>3. CASE hook' = [hook EXCEPT ![u].op = "open"]
    BY <2>3 DEF IInv, HookType, IsHook
  <2> QED BY <2>2, <2>3 DEF fd_table_open, fd_table_close, FreopenClose, fd_table_dup
<1>4. TableType(table', source') /\ Counted(table', source')
  <2>1. CASE fd_table_open(u)
    <3> DEFINE e == [Unused EXCEPT !.type = "FD_FILE", !.name = hook[u].name, !.ref = 1]
    <3>1. PICK a \in Addrs : /\ source[a].type = "FD_NULL"
                             /\ source' = [source EXCEPT ![a] = e]
                             /\ table' = [table EXCEPT ![hook[u].fd] = a]
      BY <2>1 DEF fd_table_open
    <3>2. IsSource(e) /\ e.type # "FD_NULL" /\ e.ref = 1
      <4>1. IsSource(source[a])
        BY DEF IInv, TableType
      <4> QED BY <4>1, Marked
    <3> HIDE DEF e
    <3> QED BY <1>2, <3>1, <3>2, OpenCounted DEF IInv
  <2>2. CASE fd_table_close(u) \/ FreopenClose(u)
    BY <1>2, <2>2, UnrefCounted DEF IInv, fd_table_close, FreopenClose
  <2>3. CASE fd_table_dup(u)
    <3>1. CASE table[hook[u].from] = Null
      BY <2>3, <3>1 DEF IInv, fd_table_dup, tableVars
    <3>2. CASE table[hook[u].from] # Null
      <4> DEFINE a == table[hook[u].from]
      <4>1. /\ table' = [table EXCEPT ![hook[u].fd] = a]
            /\ source' = [source EXCEPT ![a].ref = @ + 1]
        BY <2>3, <3>2 DEF fd_table_dup
      <4>2. a \in Addrs
        BY <1>2, <3>2 DEF IInv, TableType
      <4>3. source[a].type # "FD_NULL" /\ source[a].ref >= Cardinality(Slots(table, a))
        BY <1>2, <3>2 DEF IInv, Counted
      <4> HIDE DEF a
      <4> QED BY <1>2, <4>1, <4>2, <4>3, DupCounted DEF IInv
    <3> QED BY <3>1, <3>2
  <2> QED BY <2>1, <2>2, <2>3
<1> QED BY <1>1, <1>3, <1>4 DEF IInv

\* fd_table_save keeps the counts, in the process and in the new image.
LEMMA SaveKeeps ==
  ASSUME IInv, fd_table_save
  PROVE  IInv'
<1>1. /\ Saved = [a \in Addrs |-> Saved[a]]
      /\ \A a \in Addrs : /\ IsSource(Saved[a])
                           /\ Saved[a].type = source[a].type
                           /\ Saved[a].ref = source[a].ref
  <2>1. Saved = [a \in Addrs |-> Saved[a]]
    BY DEF Saved
  <2>2. ASSUME NEW a \in Addrs
        PROVE  /\ IsSource(Saved[a])
               /\ Saved[a].type = source[a].type /\ Saved[a].ref = source[a].ref
    <3> DEFINE x == desc[kfd[First(Seekable(a))]].off
    <3>1. \/ Saved[a] = source[a]
          \/ Saved[a] = [source[a] EXCEPT !.offset = 0]
          \/ Saved[a] = [source[a] EXCEPT !.offset = x, !.state = "FD_STATE_SAVED"]
      BY DEF Saved
    <3> HIDE DEF x
    <3>2. IsSource(source[a])
      BY DEF IInv, TableType
    <3>3. CASE Saved[a] = source[a]
      BY <3>2, <3>3
    <3>4. CASE Saved[a] = [source[a] EXCEPT !.offset = 0]
      BY <3>2, <3>4 DEF IsSource
    <3>5. CASE Saved[a] = [source[a] EXCEPT !.offset = x, !.state = "FD_STATE_SAVED"]
      BY <3>2, <3>5 DEF IsSource
    <3> QED BY <3>1, <3>3, <3>4, <3>5
  <2> QED BY <2>1, <2>2
<1> DEFINE new == [table |-> table, source |-> Saved, kfd |-> kfd, desc |-> desc,
                   apart |-> apart \/ Swapped,
                   again |-> IF saves = 0 THEN {}
                             ELSE {a \in Addrs : source[a].state = "FD_STATE_SAVED"}]
<1>2. /\ source' = Saved /\ table' = table /\ hook' = hook
      /\ image' = {new} /\ new.table = table /\ new.source = Saved
  BY DEF fd_table_save
<1> HIDE DEF new
<1>3. TableType(table, Saved) /\ Counted(table, Saved)
  BY <1>1, SameCounts DEF IInv
<1>4. HookType'
  BY <1>2 DEF IInv, HookType
<1> QED BY <1>2, <1>3, <1>4 DEF IInv

\* The table comes out of the image.
LEMMA RestartKeeps ==
  ASSUME IInv, Restart
  PROVE  IInv'
<1>1. HookType'
  BY FdsFinite DEF Restart, HookType, IsHook, Idle
<1> QED BY <1>1 DEF IInv, Restart

\* fd_table_restore marks entries and changes no slot and no count.
LEMMA RestoreKeeps ==
  ASSUME IInv, RestoreStep
  PROVE  IInv'
<1>1. UNCHANGED <<table, hook, image>>
  BY DEF RestoreStep, RestoreInherited, file_restore, RestoreCopy, RestoreSkip,
         RestoreStd, Resume, Advance, tableVars
<1>2. HookType'
  BY <1>1 DEF IInv, HookType
<1>3. CASE source' = source
  BY <1>1, <1>2, <1>3 DEF IInv
<1>4. CASE file_restore
  <2>1. table[cur] \in Addrs \/ source' = source
    BY <1>4 DEF file_restore, Type, IInv, TableType
  <2>2. CASE table[cur] \in Addrs
    <3> DEFINE b == table[cur]
               e == [source[b] EXCEPT !.root = cur, !.state = "FD_STATE_RESTORED"]
    <3>1. source' = [source EXCEPT ![b] = e]
      BY <1>4 DEF file_restore
    <3>4. IsSource(e) /\ e.type = source[b].type /\ e.ref = source[b].ref
      BY <2>2, Marked DEF IInv, TableType
    <3> HIDE DEF b, e
    <3>2. /\ source' = [a \in Addrs |-> source'[a]]
          /\ \A a \in Addrs : /\ IsSource(source'[a])
                               /\ source'[a].type = source[a].type
                               /\ source'[a].ref = source[a].ref
      BY <2>2, <3>1, <3>4 DEF b, IInv, TableType
    <3>3. TableType(table, source') /\ Counted(table, source')
      BY <3>2, SameCounts DEF IInv
    <3> QED BY <1>1, <1>2, <3>3 DEF IInv
  <2> QED BY <1>3, <2>1, <2>2
<1> QED BY <1>3, <1>4 DEF RestoreStep, RestoreInherited, RestoreCopy, RestoreSkip,
                           RestoreStd, Resume, tableVars

\* The inductive invariant holds in every reachable state of any process with
\* any threads, over any number of checkpoints and restarts.
THEOREM CountsInductive == Spec => []IInv
<1>1. Init => IInv
  BY InitCounted
<1>2. IInv /\ [Next]_vars => IInv'
  <2> SUFFICES ASSUME IInv, [Next]_vars PROVE IInv'
    OBVIOUS
  <2>1. CASE fd_table_save
    BY <2>1, SaveKeeps
  <2>2. CASE Restart
    BY <2>2, RestartKeeps
  <2>3. CASE RestoreStep
    BY <2>3, RestoreKeeps
  <2>4. ASSUME NEW fd \in Fds, Seek(fd) PROVE IInv'
    BY <2>4 DEF Seek, IInv, HookType, tableVars, ckptVars
  <2>5. ASSUME NEW u \in Users, HookStep(u) PROVE IInv'
    BY <2>5, HookStarts, HookEnds DEF HookStep
  <2>6. CASE UNCHANGED vars
    BY <2>6 DEF vars, tableVars, ckptVars, IInv, HookType
  <2> QED BY <2>1, <2>2, <2>3, <2>4, <2>5, <2>6 DEF Next
<1> QED BY <1>1, <1>2, PTL DEF Spec

\* No slot of the table points to an entry that fd_table_close has freed,
\* however the hooks of any number of threads interleave and however often the
\* process is checkpointed and restarted.
THEOREM NoEntryDangles == Spec => []NoDanglingEntry
<1>1. IInv => NoDanglingEntry
  BY DEF IInv, Counted, Slots, NoDanglingEntry
<1> QED BY <1>1, CountsInductive, PTL

-----------------------------------------------------------------------------
(* Types *)

Kfds  == [Fds -> Descs \cup {NoDesc}]
DescT == [Descs -> Description]
Tables == [Fds -> Addrs \cup {Null}]

\* The hooks that have yet to count a reference.
Dups == {u \in Users : hook[u].op = "dup"}

\* There is room for the references that will be counted.
RefInv == \A a \in Addrs : source[a].ref + Cardinality(Dups) <= MaxRef

TInv == TypeOK /\ RefInv

\* The constants, as the proofs use them.
LEMMA Consts ==
  /\ LastFd \in Nat /\ 0 \in Std /\ 0 \in Fds /\ LastFd \in Fds /\ Std \subseteq Fds /\ Fds = 0 .. LastFd
  /\ NoDesc \notin Descs /\ Null \notin Addrs /\ Files \cap Std = {} /\ 0 \in Name /\ 0 \notin Files
  /\ Files \subseteq Name /\ Std \subseteq Name
  /\ MaxOffset \in Nat /\ MaxRef \in Nat /\ MaxRef >= 1 /\ Cardinality(Users) <= MaxRef
  /\ IsFiniteSet(Users) /\ Cardinality(Users) \in Nat
  /\ MaxCalls \in Nat /\ MaxSaves \in Nat /\ MaxRestarts \in Nat
<1>1. NumStd \in Nat /\ NumStd >= 1 /\ NumStd <= LastFd + 1 /\ LastFd \in Nat
  BY ConstantsAssumption
<1>2. 0 \in Std /\ 0 \in Fds /\ LastFd \in Fds /\ Std \subseteq Fds
  BY <1>1 DEF Std, Fds
<1>3. Cardinality(Users) \in Nat
  BY ConstantsAssumption, FS_CardinalityType
<1> QED
  BY <1>1, <1>2, <1>3, ConstantsAssumption DEF Name, Fds

\* The records of the initial state.
LEMMA Records ==
  /\ NoFile \in Description /\ NoFile.name = 0 /\ NoFile.off = 0
  /\ Idle \in Hook /\ Idle.op = "none"
  /\ Unused \in FdSource /\ Unused.type = "FD_NULL" /\ Unused.state = "FD_STATE_NULL"
  /\ Unused.ref = 0 /\ Unused.root = 0
  /\ \A n \in Name, o \in 0 .. MaxOffset : [name |-> n, off |-> o] \in Description
<1>1. 0 \in 0 .. MaxOffset /\ 0 \in 0 .. MaxRef
  BY Consts
<1>2. NoFile \in Description /\ NoFile.name = 0 /\ NoFile.off = 0
  BY <1>1, Consts DEF NoFile, Description
<1>3. Idle \in Hook /\ Idle.op = "none"
  BY Consts DEF Idle, Hook
<1>4. /\ Unused \in FdSource /\ Unused.type = "FD_NULL" /\ Unused.state = "FD_STATE_NULL"
      /\ Unused.ref = 0 /\ Unused.root = 0
  BY <1>1, Consts DEF Unused, FdSource
<1> QED
  BY <1>2, <1>3, <1>4 DEF Description

\* The streams of the launcher, and of xnd_restart.
LEMMA StdIs ==
  /\ StdDesc \in [Std -> Descs] /\ \A i, j \in Std : i # j => StdDesc[i] # StdDesc[j]
  /\ StdFds(StdDesc) \in Kfds /\ StdStreams(StdDesc) \in DescT
<1>1. StdDesc \in [Std -> Descs] /\ \A i, j \in Std : i # j => StdDesc[i] # StdDesc[j]
  BY ConstantsAssumption DEF StdDesc
<1>2. StdFds(StdDesc) \in Kfds
  BY <1>1 DEF StdFds, Kfds
<1>3. ASSUME NEW d \in Descs
      PROVE  (IF \E i \in Std : StdDesc[i] = d
                THEN [name |-> CHOOSE i \in Std : StdDesc[i] = d, off |-> 0]
                ELSE NoFile) \in Description
  <2>1. CASE \E i \in Std : StdDesc[i] = d
    <3>1. (CHOOSE i \in Std : StdDesc[i] = d) \in Std
      BY <2>1
    <3>2. 0 \in 0 .. MaxOffset
      BY Consts
    <3> QED
      BY <2>1, <3>1, <3>2, Records, Consts
  <2> QED
    BY <2>1, Records
<1>4. StdStreams(StdDesc) \in DescT
  BY <1>3 DEF StdStreams, DescT
<1> QED
  BY <1>1, <1>2, <1>4

\* An entry, and what the operations make of it.
LEMMA Entry ==
  ASSUME NEW e \in FdSource
  PROVE  /\ e.type \in {"FD_NULL", "FD_INHERITED", "FD_FILE"}
         /\ e.state \in {"FD_STATE_NULL", "FD_STATE_SAVED", "FD_STATE_RESTORED"}
         /\ e.name \in Name /\ e.offset \in 0 .. MaxOffset /\ e.ref \in Nat /\ e.ref <= MaxRef
         /\ e.root \in Fds
BY Consts DEF FdSource

SavedAt(e, x) == [e EXCEPT !.offset = x, !.state = "FD_STATE_SAVED"]
AtStart(e)    == [e EXCEPT !.offset = 0]
BackAt(e, fd) == [e EXCEPT !.root = fd, !.state = "FD_STATE_RESTORED"]
Counting(e)   == [e EXCEPT !.ref = @ + 1]
NewFile(n)    == [Unused EXCEPT !.type = "FD_FILE", !.name = n, !.ref = 1]

\* An entry that fd_table_save saves.
LEMMA SavedAtIs ==
  ASSUME NEW e \in FdSource, NEW x \in 0 .. MaxOffset
  PROVE  LET w == SavedAt(e, x)
         IN /\ w \in FdSource /\ w.type = e.type /\ w.name = e.name /\ w.root = e.root /\ w.ref = e.ref
            /\ w.offset = x /\ w.state = "FD_STATE_SAVED"
BY DEF FdSource, SavedAt

\* An entry whose descriptors are all closed.
LEMMA AtStartIs ==
  ASSUME NEW e \in FdSource
  PROVE  LET w == AtStart(e)
         IN /\ w \in FdSource /\ w.type = e.type /\ w.name = e.name /\ w.root = e.root /\ w.ref = e.ref
            /\ w.state = e.state
<1>1. 0 \in 0 .. MaxOffset
  BY Consts
<1> QED
  BY <1>1 DEF FdSource, AtStart

\* An entry that file_restore opens again.
LEMMA BackAtIs ==
  ASSUME NEW e \in FdSource, NEW fd \in Fds
  PROVE  LET w == BackAt(e, fd)
         IN /\ w \in FdSource /\ w.type = e.type /\ w.name = e.name /\ w.ref = e.ref
            /\ w.offset = e.offset /\ w.root = fd /\ w.state = "FD_STATE_RESTORED"
BY DEF FdSource, BackAt

\* An entry with one more reference.
LEMMA CountingIs ==
  ASSUME NEW e \in FdSource, e.ref + 1 <= MaxRef
  PROVE  LET w == Counting(e)
         IN /\ w \in FdSource /\ w.type = e.type /\ w.name = e.name /\ w.root = e.root
            /\ w.offset = e.offset /\ w.state = e.state /\ w.ref = e.ref + 1
<1>1. e.ref \in Nat /\ MaxRef \in Nat
  BY Entry, Consts
<1>2. e.ref + 1 \in 0 .. MaxRef
  BY <1>1
<1> QED
  BY <1>2 DEF FdSource, Counting

\* The entry of a file that was opened.
LEMMA NewFileIs ==
  ASSUME NEW n \in Name
  PROVE  LET w == NewFile(n)
         IN /\ w \in FdSource /\ w.type = "FD_FILE" /\ w.name = n /\ w.ref = 1
            /\ w.state = "FD_STATE_NULL"
<1>1. 1 \in 0 .. MaxRef /\ Unused \in FdSource
  BY Consts, Records
<1> QED
  BY <1>1 DEF FdSource, NewFile, Unused

\* An entry with one reference less.
LEMMA ReleasedIs ==
  ASSUME NEW e \in FdSource, e.ref >= 1
  PROVE  LET w == Released(e)
         IN /\ w \in FdSource /\ w.ref = e.ref - 1
            /\ e.ref = 1 => w = Unused
            /\ e.ref # 1 => /\ w.type = e.type /\ w.name = e.name /\ w.root = e.root
                            /\ w.offset = e.offset /\ w.state = e.state
<1>1. e.ref \in Nat /\ MaxRef \in Nat /\ e.ref <= MaxRef
  BY Entry, Consts
<1>2. CASE e.ref = 1
  BY <1>2, Records DEF Released
<1>3. CASE e.ref # 1
  <2>1. e.ref - 1 \in 0 .. MaxRef
    BY <1>1
  <2> QED
    BY <1>3, <2>1 DEF FdSource, Released
<1> QED
  BY <1>2, <1>3

-----------------------------------------------------------------------------
(* The kernel *)

\* The descriptors become k; what is still referred to is as in d.
LEMMA KernelIs ==
  ASSUME NEW k \in Kfds, NEW d \in DescT, Kernel(k, d)
  PROVE  /\ kfd' = k /\ kfd' \in Kfds /\ desc' \in DescT
         /\ \A fd \in Fds : k[fd] \in Descs => desc'[k[fd]] = d[k[fd]]
         /\ \A x \in Descs : d[x] = NoFile => desc'[x] = NoFile
<1>1. desc' = [x \in Descs |-> IF \E fd \in Fds : k[fd] = x THEN d[x] ELSE NoFile] /\ kfd' = k
  BY DEF Kernel
<1> QED
  BY <1>1, Records DEF DescT

\* A free description is taken for fd.
LEMMA OpenIs ==
  ASSUME kfd \in Kfds, desc \in DescT, NEW fd \in Fds, NEW n \in Name, NEW o \in 0 .. MaxOffset,
         Open(fd, n, o)
  PROVE  /\ kfd' \in Kfds /\ desc' \in DescT
         /\ \E x \in Descs : /\ kfd' = [kfd EXCEPT ![fd] = x] /\ desc'[x] = [name |-> n, off |-> o]
                             /\ \A g \in Fds : kfd[g] # x
         /\ \A g \in Fds : g # fd /\ kfd[g] \in Descs => desc'[kfd[g]] = desc[kfd[g]]
<1> DEFINE x == CHOOSE y \in FreeDescs : TRUE
           k == [kfd EXCEPT ![fd] = x]
           d == [desc EXCEPT ![x] = [name |-> n, off |-> o]]
<1>1. x \in FreeDescs /\ Kernel(k, d)
  BY DEF Open
<1> HIDE DEF x
<1>2. x \in Descs /\ \A g \in Fds : kfd[g] # x
  BY <1>1 DEF FreeDescs
<1>3. k \in Kfds /\ k[fd] = x /\ \A g \in Fds : g # fd => k[g] = kfd[g]
  BY <1>2 DEF Kfds
<1>4. d \in DescT /\ d[x] = [name |-> n, off |-> o] /\ \A y \in Descs : y # x => d[y] = desc[y]
  BY <1>2, Records DEF DescT
<1> HIDE DEF d
<1>5. /\ kfd' = k /\ kfd' \in Kfds /\ desc' \in DescT
      /\ \A g \in Fds : k[g] \in Descs => desc'[k[g]] = d[k[g]]
  BY <1>1, <1>3, <1>4, KernelIs
<1>6. desc'[x] = [name |-> n, off |-> o]
  BY <1>2, <1>3, <1>4, <1>5
<1>7. \A g \in Fds : g # fd /\ kfd[g] \in Descs => desc'[kfd[g]] = desc[kfd[g]]
  BY <1>2, <1>3, <1>4, <1>5
<1> QED
  BY <1>2, <1>5, <1>6, <1>7

-----------------------------------------------------------------------------
(* Type correctness                                                        *)

ImageT == [table : Tables, source : [Addrs -> FdSource], kfd : Kfds, desc : DescT,
           apart : BOOLEAN, again : SUBSET Addrs]

\* TypeOK, in the names that the proofs use.
LEMMA TypeParts ==
  TypeOK <=>
    /\ kfd \in Kfds /\ desc \in DescT /\ table \in Tables /\ source \in [Addrs -> FdSource]
    /\ hook \in [Users -> Hook] /\ calls \in 0 .. MaxCalls
    /\ phase \in {"run", "inherited", "files", "std", "restored"} /\ cur \in Fds
    /\ image \subseteq ImageT /\ saves \in 0 .. MaxSaves /\ restarts \in 0 .. MaxRestarts
    /\ apart \in BOOLEAN
BY DEF TypeOK, Kfds, DescT, Tables, ImageT

\* One thread's hook changes.
LEMMA DupsChange ==
  ASSUME hook \in [Users -> Hook], hook' \in [Users -> Hook], NEW u \in Users,
         \A w \in Users : w # u => hook'[w] = hook[w]
  PROVE  /\ Cardinality(Dups) \in Nat /\ Cardinality(Dups') \in Nat
         /\ Cardinality(Dups) <= Cardinality(Users) /\ Cardinality(Dups') <= Cardinality(Users)
         /\ (hook[u].op = "dup" <=> hook'[u].op = "dup") => Dups' = Dups
         /\ hook[u].op = "dup" /\ hook'[u].op # "dup" =>
              Cardinality(Dups') = Cardinality(Dups) - 1
         /\ hook[u].op # "dup" => Cardinality(Dups) + 1 <= Cardinality(Users)
<1>1. Dups \subseteq Users /\ Dups' \subseteq Users
  BY DEF Dups
<1>2. /\ IsFiniteSet(Dups) /\ Cardinality(Dups) \in Nat /\ Cardinality(Dups) <= Cardinality(Users)
      /\ IsFiniteSet(Dups') /\ Cardinality(Dups') \in Nat /\ Cardinality(Dups') <= Cardinality(Users)
  BY <1>1, Consts, FS_Subset, FS_CardinalityType
<1>3. ASSUME hook[u].op = "dup" <=> hook'[u].op = "dup" PROVE Dups' = Dups
  BY <1>3 DEF Dups
<1>4. ASSUME hook[u].op = "dup", hook'[u].op # "dup"
      PROVE  Cardinality(Dups') = Cardinality(Dups) - 1
  <2>1. u \in Dups /\ Dups' = Dups \ {u}
    BY <1>4 DEF Dups
  <2> QED
    BY <1>2, <2>1, FS_RemoveElement
<1>5. ASSUME hook[u].op # "dup" PROVE Cardinality(Dups) + 1 <= Cardinality(Users)
  <2>1. u \notin Dups /\ Dups \cup {u} \subseteq Users
    BY <1>1, <1>5 DEF Dups
  <2>2. Cardinality(Dups \cup {u}) = Cardinality(Dups) + 1
    BY <1>2, <2>1, FS_AddElement
  <2>3. Cardinality(Dups \cup {u}) <= Cardinality(Users)
    BY <2>1, Consts, FS_Subset
  <2> QED
    BY <2>2, <2>3
<1> QED
  BY <1>2, <1>3, <1>4, <1>5

\* Every slot of the table is counted, so what it points to has a reference.
LEMMA Referenced ==
  ASSUME IInv, NEW fd \in Fds, table[fd] # Null
  PROVE  /\ source[table[fd]].type # "FD_NULL" /\ source[table[fd]].ref >= 1
<1>1. /\ source[table[fd]].type # "FD_NULL"
      /\ source[table[fd]].ref >= Cardinality(Slots(table, table[fd]))
  BY DEF IInv, Counted
<1>2. table[fd] \in Addrs
  BY DEF IInv, TableType
<1>3. source[table[fd]].ref \in Nat
  BY <1>2 DEF IInv, TableType, IsSource
<1> DEFINE S == Slots(table, table[fd])
<1>4. fd \in S /\ IsFiniteSet(S) /\ Cardinality(S) \in Nat
  BY FdsFinite DEF Slots
<1>5. Cardinality(S) # 0
  BY <1>4, FS_EmptySet
<1> HIDE DEF S
<1>6. source[table[fd]].ref >= Cardinality(S)
  BY <1>1 DEF S
<1> QED
  BY <1>1, <1>3, <1>4, <1>5, <1>6

\* The first state is of its type.
LEMMA TypeInit == Init => TInv
<1> SUFFICES ASSUME Init PROVE TInv
  OBVIOUS
<1>1. kfd \in Kfds /\ desc \in DescT
  BY StdIs DEF Init
<1>2. PICK f \in [Std -> Addrs] :
        /\ table = [fd \in Fds |-> IF fd \in Std THEN f[fd] ELSE Null]
        /\ source = [a \in Addrs |->
                      IF \E i \in Std : f[i] = a
                        THEN [Unused EXCEPT !.type = "FD_INHERITED", !.ref = 1,
                                !.root = CHOOSE i \in Std : f[i] = a]
                        ELSE Unused]
  BY DEF Init
<1>3. table \in Tables
  BY <1>2 DEF Tables
<1>4. source \in [Addrs -> FdSource] /\ \A a \in Addrs : source[a].ref <= 1
  <2>1. ASSUME NEW a \in Addrs PROVE source[a] \in FdSource /\ source[a].ref <= 1
    <3>1. CASE \E i \in Std : f[i] = a
      <4> DEFINE r == CHOOSE i \in Std : f[i] = a
      <4>1. r \in Fds
        BY <3>1, Consts
      <4>2. source[a] = [Unused EXCEPT !.type = "FD_INHERITED", !.ref = 1, !.root = r]
        BY <1>2, <3>1
      <4> HIDE DEF r
      <4>3. 0 \in 0 .. MaxOffset /\ 1 \in 0 .. MaxRef /\ 0 \in Name
        BY Consts
      <4>4. source[a] = [type |-> "FD_INHERITED", state |-> "FD_STATE_NULL", name |-> 0,
                         offset |-> 0, ref |-> 1, root |-> r]
        BY <4>2 DEF Unused
      <4> QED
        BY <4>1, <4>3, <4>4 DEF FdSource
    <3>2. CASE ~\E i \in Std : f[i] = a
      <4>1. source[a] = Unused
        BY <1>2, <3>2
      <4> QED
        BY <4>1, Records
    <3> QED
      BY <3>1, <3>2
  <2> QED
    BY <1>2, <2>1
<1>5. hook \in [Users -> Hook] /\ Dups = {}
  BY Records DEF Init, Dups
<1>6. /\ calls \in 0 .. MaxCalls /\ phase \in {"run", "inherited", "files", "std", "restored"}
      /\ cur \in Fds /\ image \subseteq ImageT /\ saves \in 0 .. MaxSaves
      /\ restarts \in 0 .. MaxRestarts /\ apart \in BOOLEAN
  <2>1. calls = 0 /\ phase = "run" /\ cur = 0 /\ image = {} /\ saves = 0 /\ restarts = 0
    BY DEF Init
  <2>2. apart = FALSE
    BY DEF Init
  <2>3. /\ calls \in 0 .. MaxCalls /\ cur \in Fds /\ saves \in 0 .. MaxSaves
        /\ restarts \in 0 .. MaxRestarts
    BY <2>1, Consts
  <2> QED
    BY <2>1, <2>2, <2>3
<1>7. TypeOK
  BY <1>1, <1>3, <1>4, <1>5, <1>6, TypeParts
<1>8. RefInv
  <2>1. Cardinality(Dups) = 0
    BY <1>5, FS_EmptySet
  <2>2. \A a \in Addrs : source[a].ref \in Nat
    BY <1>4, Entry
  <2> QED
    BY <1>4, <2>1, <2>2, Consts DEF RefInv
<1> QED
  BY <1>7, <1>8 DEF TInv

\* A call counts, and leaves everything of the checkpoint alone.
LEMMA CallTypes ==
  ASSUME TInv, NEW u \in Users,
         \/ \E name \in Files : OpenHook(u, name)
         \/ \E fd \in Fds : CloseHook(u, fd) \/ DupHook(u, fd)
         \/ \E fd, new \in Fds : Dup2Hook(u, fd, new)
         \/ \E fd \in Fds, name \in Files : FreopenHook(u, fd, name)
  PROVE  TInv'
<1>1. /\ kfd \in Kfds /\ desc \in DescT /\ table \in Tables /\ source \in [Addrs -> FdSource]
      /\ hook \in [Users -> Hook] /\ calls \in 0 .. MaxCalls
      /\ phase \in {"run", "inherited", "files", "std", "restored"} /\ cur \in Fds
      /\ image \subseteq ImageT /\ saves \in 0 .. MaxSaves /\ restarts \in 0 .. MaxRestarts
      /\ apart \in BOOLEAN
  BY TypeParts DEF TInv
<1>2. UNCHANGED <<table, source, phase, cur, image, saves, restarts>>
  BY DEF OpenHook, CloseHook, DupHook, Dup2Hook, DupTo, FreopenHook, tableVars, ckptVars
<1>3. Called /\ hook[u] = Idle
  BY DEF OpenHook, CloseHook, DupHook, Dup2Hook, FreopenHook, Starts
<1>4. calls' \in 0 .. MaxCalls /\ apart' \in BOOLEAN
  <2>1. calls' \in 0 .. MaxCalls
    BY <1>1, <1>3, Consts DEF Called
  <2>2. \E h : Entered(u, h)
    BY DEF OpenHook, CloseHook, DupHook, Dup2Hook, DupTo, FreopenHook
  <2>3. apart' \in BOOLEAN
    BY <2>2 DEF Entered
  <2> QED
    BY <2>1, <2>3
<1> DEFINE Made ==
  /\ kfd' \in Kfds /\ desc' \in DescT
  /\ \E h : /\ hook' = [hook EXCEPT ![u] = h] /\ h \in Hook
            /\ h.op = "dup" => \A a \in Addrs : source[a].ref + Cardinality(Users) <= MaxRef
<1>5. Made
  <2>1. 0 \in Fds /\ 0 \in Name /\ 0 \in 0 .. MaxOffset /\ Files \subseteq Name
    BY Consts
  <2>2. ASSUME NEW name \in Files, OpenHook(u, name) PROVE Made
    <3> DEFINE h == [op |-> "open", fd |-> LowestFree, from |-> 0, name |-> name]
    <3>1. LowestFree \in Fds
      BY <2>2, LowestFreeExists DEF OpenHook
    <3>2. h \in Hook /\ h.op = "open"
      BY <2>1, <3>1 DEF Hook
    <3>3. hook' = [hook EXCEPT ![u] = h] /\ Open(LowestFree, name, 0)
      BY <2>2 DEF OpenHook, Entered
    <3> HIDE DEF h
    <3>4. kfd' \in Kfds /\ desc' \in DescT
      BY <1>1, <2>1, <3>1, <3>3, OpenIs
    <3> QED
      BY <3>2, <3>3, <3>4
  <2>3. ASSUME NEW fd \in Fds, CloseHook(u, fd) PROVE Made
    <3> DEFINE h == [Idle EXCEPT !.op = "close", !.fd = fd]
               k == [kfd EXCEPT ![fd] = NoDesc]
    <3>1. h \in Hook /\ h.op = "close"
      BY <2>1, <2>3 DEF Hook, Idle
    <3>2. hook' = [hook EXCEPT ![u] = h] /\ Kernel(k, desc)
      BY <2>3 DEF CloseHook, Entered
    <3>3. k \in Kfds
      BY <1>1 DEF Kfds
    <3> HIDE DEF h, k
    <3>4. kfd' \in Kfds /\ desc' \in DescT
      BY <1>1, <3>2, <3>3, KernelIs
    <3> QED
      BY <3>1, <3>2, <3>4
  <2>4. ASSUME NEW fd \in Fds, NEW new \in Fds, DupTo(u, fd, new) PROVE Made
    <3> DEFINE h == [Idle EXCEPT !.op = "dup", !.fd = new, !.from = fd]
               k == [kfd EXCEPT ![new] = kfd[fd]]
    <3>1. h \in Hook
      BY <2>1, <2>4 DEF Hook, Idle
    <3>2. /\ hook' = [hook EXCEPT ![u] = h] /\ Kernel(k, desc)
          /\ \A a \in Addrs : source[a].ref + Cardinality(Users) <= MaxRef
      BY <2>4 DEF DupTo, Entered
    <3>3. k \in Kfds
      BY <1>1 DEF Kfds
    <3> HIDE DEF h, k
    <3>4. kfd' \in Kfds /\ desc' \in DescT
      BY <1>1, <3>2, <3>3, KernelIs
    <3> QED
      BY <3>1, <3>2, <3>4
  <2>5. ASSUME NEW fd \in Fds, DupHook(u, fd) PROVE Made
    BY <2>4, <2>5, LowestFreeExists DEF DupHook
  <2>6. ASSUME NEW fd \in Fds, NEW new \in Fds, Dup2Hook(u, fd, new) PROVE Made
    BY <2>4, <2>6 DEF Dup2Hook
  <2>7. ASSUME NEW fd \in Fds, NEW name \in Files, FreopenHook(u, fd, name) PROVE Made
    <3> DEFINE h == [op |-> "freopen", fd |-> fd, from |-> 0, name |-> name]
    <3>1. h \in Hook /\ h.op = "freopen"
      BY <2>1, <2>7 DEF Hook
    <3>2. hook' = [hook EXCEPT ![u] = h] /\ Open(fd, name, 0)
      BY <2>7 DEF FreopenHook, Entered
    <3> HIDE DEF h
    <3>3. kfd' \in Kfds /\ desc' \in DescT
      BY <1>1, <2>1, <3>2, OpenIs
    <3> QED
      BY <3>1, <3>2, <3>3
  <2> QED
    BY <2>2, <2>3, <2>5, <2>6, <2>7
<1>6. PICK h : /\ hook' = [hook EXCEPT ![u] = h] /\ h \in Hook
               /\ h.op = "dup" => \A a \in Addrs : source[a].ref + Cardinality(Users) <= MaxRef
  BY <1>5
<1>7. hook' \in [Users -> Hook] /\ hook'[u] = h /\ \A w \in Users : w # u => hook'[w] = hook[w]
  BY <1>1, <1>6
<1>8. TypeOK'
  BY <1>1, <1>2, <1>4, <1>5, <1>7 DEF TypeOK, Kfds, DescT, Tables, ImageT
<1>9. RefInv'
  <2>1. /\ Cardinality(Dups) \in Nat /\ Cardinality(Dups') \in Nat
        /\ Cardinality(Dups') <= Cardinality(Users)
        /\ (hook[u].op = "dup" <=> hook'[u].op = "dup") => Dups' = Dups
    BY <1>1, <1>7, DupsChange
  <2>2. CASE h.op = "dup"
    <3>1. \A a \in Addrs : source'[a].ref \in Nat /\ source'[a].ref + Cardinality(Users) <= MaxRef
      BY <1>1, <1>2, <1>6, <2>2, Entry
    <3> QED
      BY <2>1, <3>1, Consts DEF RefInv
  <2>3. CASE h.op # "dup"
    BY <1>2, <1>3, <1>7, <2>1, <2>3, Records DEF TInv, RefInv
  <2> QED
    BY <2>2, <2>3
<1> QED
  BY <1>8, <1>9 DEF TInv

\* The table's turn of a hook.
LEMMA TurnTypes ==
  ASSUME IInv, TInv, NEW u \in Users,
         fd_table_open(u) \/ fd_table_close(u) \/ FreopenClose(u) \/ fd_table_dup(u)
  PROVE  TInv'
<1>1. /\ kfd \in Kfds /\ desc \in DescT /\ table \in Tables /\ source \in [Addrs -> FdSource]
      /\ hook \in [Users -> Hook] /\ calls \in 0 .. MaxCalls
      /\ phase \in {"run", "inherited", "files", "std", "restored"} /\ cur \in Fds
      /\ image \subseteq ImageT /\ saves \in 0 .. MaxSaves /\ restarts \in 0 .. MaxRestarts
      /\ apart \in BOOLEAN
  BY TypeParts DEF TInv
<1>2. UNCHANGED <<kfd, desc, calls, apart, phase, cur, image, saves, restarts>>
  BY DEF fd_table_open, fd_table_close, FreopenClose, fd_table_dup, kernelVars, ckptVars
<1>3. /\ hook[u] \in Hook /\ hook[u].fd \in Fds /\ hook[u].from \in Fds /\ hook[u].name \in Name
  BY <1>1 DEF Hook
<1>4. /\ hook' \in [Users -> Hook] /\ hook'[u].op # "dup"
      /\ \A w \in Users : w # u => hook'[w] = hook[w]
  <2>1. CASE hook' = [hook EXCEPT ![u] = Idle]
    BY <1>1, <2>1, Records
  <2>2. CASE hook' = [hook EXCEPT ![u].op = "open"]
    <3> DEFINE h == [hook[u] EXCEPT !.op = "open"]
    <3>1. h \in Hook /\ h.op = "open"
      BY <1>3 DEF Hook
    <3>2. hook' = [hook EXCEPT ![u] = h]
      BY <2>2
    <3> HIDE DEF h
    <3> QED
      BY <1>1, <3>1, <3>2
  <2> QED
    BY <2>1, <2>2 DEF fd_table_open, fd_table_close, FreopenClose, fd_table_dup
<1>5. /\ Cardinality(Dups) \in Nat /\ Cardinality(Dups') \in Nat
      /\ (hook[u].op = "dup" <=> hook'[u].op = "dup") => Dups' = Dups
      /\ hook[u].op = "dup" /\ hook'[u].op # "dup" =>
           Cardinality(Dups') = Cardinality(Dups) - 1
      /\ hook[u].op # "dup" => Cardinality(Dups) + 1 <= Cardinality(Users)
  BY <1>1, <1>4, DupsChange
<1>6. \A a \in Addrs : /\ source[a].ref \in Nat /\ source[a].ref <= MaxRef
                       /\ source[a].ref + Cardinality(Dups) <= MaxRef
  BY <1>1, Entry DEF TInv, RefInv
<1>7. Null \in Addrs \cup {Null} /\ MaxRef \in Nat /\ Cardinality(Users) \in Nat
      /\ Cardinality(Users) <= MaxRef
  BY Consts
<1>8. table' \in Tables /\ source' \in [Addrs -> FdSource] /\ RefInv'
  <2>1. CASE fd_table_open(u)
    <3>1. PICK a \in Addrs : /\ source' = [source EXCEPT ![a] = NewFile(hook[u].name)]
                             /\ table' = [table EXCEPT ![hook[u].fd] = a]
      BY <2>1 DEF fd_table_open, NewFile
    <3>2. NewFile(hook[u].name) \in FdSource /\ NewFile(hook[u].name).ref = 1
      BY <1>3, NewFileIs
    <3>3. table' \in Tables
      BY <1>1, <1>3, <3>1 DEF Tables
    <3>4. /\ source' \in [Addrs -> FdSource] /\ source'[a].ref = 1
          /\ \A b \in Addrs : b # a => source'[b] = source[b]
      BY <1>1, <3>1, <3>2
    <3>5. hook[u].op # "dup" /\ Dups' = Dups
      BY <2>1, <1>4, <1>5 DEF fd_table_open
    <3>6. RefInv'
      BY <1>5, <1>6, <1>7, <3>4, <3>5 DEF RefInv
    <3> QED
      BY <3>3, <3>4, <3>6
  <2>2. CASE fd_table_close(u) \/ FreopenClose(u)
    <3>1. Unref(hook[u].fd) /\ hook[u].op # "dup"
      BY <2>2 DEF fd_table_close, FreopenClose
    <3>2. Dups' = Dups
      BY <1>4, <1>5, <3>1
    <3>3. table' \in Tables
      BY <1>1, <1>3, <3>1 DEF Unref, Tables
    <3>4. CASE table[hook[u].fd] = Null
      BY <1>1, <3>1, <3>2, <3>3, <3>4 DEF Unref, TInv, RefInv
    <3>5. CASE table[hook[u].fd] # Null
      <4> DEFINE a == table[hook[u].fd]
                 e == Released(source[a])
      <4>1. source[a].ref >= 1
        BY <1>3, <3>5, Referenced
      <4>2. a \in Addrs /\ source[a] \in FdSource
        BY <1>1, <1>3, <3>5 DEF Tables
      <4>3. source' = [source EXCEPT ![a] = e]
        BY <3>1, <3>5 DEF Unref
      <4> HIDE DEF a
      <4>4. e \in FdSource /\ e.ref = source[a].ref - 1
        BY <4>1, <4>2, ReleasedIs
      <4> HIDE DEF e
      <4>5. /\ source' \in [Addrs -> FdSource]
            /\ \A b \in Addrs : source'[b].ref <= source[b].ref /\ source'[b].ref \in Nat
        BY <1>1, <1>6, <4>2, <4>3, <4>4, Entry
      <4>6. RefInv'
        BY <1>5, <1>6, <1>7, <3>2, <4>5 DEF RefInv
      <4> QED
        BY <3>3, <4>5, <4>6
    <3> QED
      BY <3>4, <3>5
  <2>3. CASE fd_table_dup(u)
    <3>1. Cardinality(Dups') = Cardinality(Dups) - 1
      BY <2>3, <1>4, <1>5 DEF fd_table_dup
    <3>2. CASE table[hook[u].from] = Null
      <4>1. table' = table /\ source' = source
        BY <2>3, <3>2 DEF fd_table_dup, tableVars
      <4> QED
        BY <1>1, <1>5, <1>6, <1>7, <3>1, <4>1 DEF RefInv
    <3>3. CASE table[hook[u].from] # Null
      <4> DEFINE a == table[hook[u].from]
                 e == Counting(source[a])
      <4>1. /\ table' = [table EXCEPT ![hook[u].fd] = a]
            /\ source' = [source EXCEPT ![a].ref = @ + 1]
        BY <2>3, <3>3 DEF fd_table_dup
      <4>2. a \in Addrs /\ source[a] \in FdSource
        BY <1>1, <1>3, <3>3 DEF Tables
      <4>3. source' = [source EXCEPT ![a] = e]
        BY <4>1, <4>2, <1>1 DEF Counting
      <4> HIDE DEF a
      <4>4. source[a].ref + 1 <= MaxRef
        BY <1>5, <1>6, <1>7, <3>1, <4>2
      <4>5. e \in FdSource /\ e.ref = source[a].ref + 1
        BY <4>2, <4>4, CountingIs
      <4> HIDE DEF e
      <4>6. /\ source' \in [Addrs -> FdSource]
            /\ \A b \in Addrs : source'[b].ref <= source[b].ref + 1 /\ source'[b].ref \in Nat
        BY <1>1, <1>6, <4>2, <4>3, <4>5, Entry
      <4>7. RefInv'
        BY <1>5, <1>6, <1>7, <3>1, <4>6 DEF RefInv
      <4>8. table' \in Tables
        BY <1>1, <1>3, <4>1, <4>2 DEF Tables
      <4> QED
        BY <4>6, <4>7, <4>8
    <3> QED
      BY <3>2, <3>3
  <2> QED
    BY <2>1, <2>2, <2>3
<1>9. TypeOK'
  BY <1>1, <1>2, <1>4, <1>8 DEF TypeOK, Kfds, DescT, Tables, ImageT
<1> QED
  BY <1>8, <1>9 DEF TInv

\* The least descriptor of a set is one of them.
LEMMA FirstIs ==
  ASSUME NEW S \in SUBSET Fds, S # {}
  PROVE  First(S) \in S
<1>1. S \subseteq Nat
  BY FdsFinite
<1> DEFINE R == {ss \in Nat \X Nat : ss[1] < ss[2]}
<1>2. IsWellFoundedOn(R, Nat)
  BY NatLessThanWellFounded DEF OpToRel
<1> HIDE DEF R
<1>3. \E x \in S : \A y \in S : ~(<<y, x>> \in R)
  BY <1>1, <1>2, WFMin
<1>4. ASSUME NEW x \in Nat, NEW y \in Nat, ~(<<y, x>> \in R)
      PROVE  x <= y
  BY <1>4 DEF R
<1>5. \E x \in S : \A y \in S : x <= y
  BY <1>1, <1>3, <1>4
<1> QED BY <1>5 DEF First

\* fd_table_save: the offsets it stores are those of the kernel.
LEMMA SavedTypes ==
  ASSUME TypeOK
  PROVE  /\ Saved \in [Addrs -> FdSource]
         /\ \A a \in Addrs : /\ Saved[a].ref = source[a].ref /\ Saved[a].type = source[a].type
                             /\ Saved[a].name = source[a].name /\ Saved[a].root = source[a].root
<1>1. kfd \in Kfds /\ desc \in DescT /\ source \in [Addrs -> FdSource]
  BY TypeParts
<1>2. ASSUME NEW a \in Addrs
      PROVE  /\ Saved[a] \in FdSource
             /\ Saved[a].ref = source[a].ref /\ Saved[a].type = source[a].type
             /\ Saved[a].name = source[a].name /\ Saved[a].root = source[a].root
  <2> DEFINE x == desc[kfd[First(Seekable(a))]].off
  <2>1. \/ Saved[a] = source[a]
        \/ Seekable(a) = {} /\ Saved[a] = AtStart(source[a])
        \/ Seekable(a) # {} /\ Saved[a] = SavedAt(source[a], x)
    BY DEF Saved, AtStart, SavedAt
  <2>2. source[a] \in FdSource
    BY <1>1
  <2>3. ASSUME Seekable(a) # {} PROVE x \in 0 .. MaxOffset
    <3>1. First(Seekable(a)) \in Seekable(a)
      BY <2>3, FirstIs DEF Seekable
    <3>2. kfd[First(Seekable(a))] \in Descs
      BY <1>1, <3>1 DEF Seekable, Kfds
    <3> QED
      BY <1>1, <3>2 DEF DescT, Description
  <2> HIDE DEF x
  <2>4. CASE Saved[a] = source[a]
    BY <2>2, <2>4
  <2>5. CASE Saved[a] = AtStart(source[a])
    BY <2>2, <2>5, AtStartIs
  <2>6. CASE Seekable(a) # {} /\ Saved[a] = SavedAt(source[a], x)
    BY <2>2, <2>3, <2>6, SavedAtIs
  <2> QED
    BY <2>1, <2>4, <2>5, <2>6
<1>3. Saved = [a \in Addrs |-> Saved[a]]
  BY DEF Saved
<1> QED
  BY <1>2, <1>3

\* A checkpoint keeps the types, of its image too.
LEMMA SaveTypes ==
  ASSUME TInv, fd_table_save
  PROVE  TInv'
<1>1. /\ kfd \in Kfds /\ desc \in DescT /\ table \in Tables /\ source \in [Addrs -> FdSource]
      /\ hook \in [Users -> Hook] /\ calls \in 0 .. MaxCalls
      /\ phase \in {"run", "inherited", "files", "std", "restored"} /\ cur \in Fds
      /\ image \subseteq ImageT /\ saves \in 0 .. MaxSaves /\ restarts \in 0 .. MaxRestarts
      /\ apart \in BOOLEAN
  BY TypeParts DEF TInv
<1>2. /\ UNCHANGED <<kfd, desc, table, hook, calls, phase, cur, restarts>>
      /\ saves < MaxSaves /\ saves' = saves + 1 /\ source' = Saved
      /\ image' = {[table |-> table, source |-> Saved, kfd |-> kfd, desc |-> desc,
                    apart |-> apart \/ Swapped,
                    again |-> IF saves = 0 THEN {}
                              ELSE {a \in Addrs : source[a].state = "FD_STATE_SAVED"}]}
      /\ apart' = apart
  BY DEF fd_table_save, kernelVars
<1>3. Saved \in [Addrs -> FdSource] /\ \A a \in Addrs : Saved[a].ref = source[a].ref
  BY SavedTypes DEF TInv
<1> HIDE DEF Saved
<1>8. (apart \/ Swapped) \in BOOLEAN
  BY <1>1 DEF Swapped
<1>4. saves' \in 0 .. MaxSaves
  BY <1>1, <1>2, Consts
<1>5. image' \subseteq ImageT
  BY <1>1, <1>2, <1>3, <1>8 DEF ImageT
<1>6. TypeOK'
  BY <1>1, <1>2, <1>3, <1>4, <1>5 DEF TypeOK, Kfds, DescT, Tables, ImageT
<1>7. RefInv'
  BY <1>2, <1>3 DEF TInv, RefInv, Dups
<1> QED
  BY <1>6, <1>7 DEF TInv

\* A restart comes back to the types of the image.
LEMMA RestartTypes ==
  ASSUME TInv, Restart
  PROVE  TInv'
<1>1. image \subseteq ImageT /\ restarts \in 0 .. MaxRestarts
  BY TypeParts DEF TInv
<1>2. PICK i \in image : table' = i.table /\ source' = i.source /\ apart' = i.apart
  BY DEF Restart
<1>3. table' \in Tables /\ source' \in [Addrs -> FdSource] /\ apart' \in BOOLEAN
  BY <1>1, <1>2 DEF ImageT
<1>4. kfd' \in Kfds /\ desc' \in DescT
  BY StdIs DEF Restart
<1>5. /\ hook' = [u \in Users |-> Idle] /\ calls' = 0 /\ phase' = "inherited" /\ cur' = 0
      /\ image' = image /\ saves' = 0 /\ restarts' = restarts + 1 /\ restarts < MaxRestarts
  BY DEF Restart
<1>6. /\ calls' \in 0 .. MaxCalls /\ cur' \in Fds /\ saves' \in 0 .. MaxSaves
      /\ restarts' \in 0 .. MaxRestarts
  BY <1>1, <1>5, Consts
<1>7. hook' \in [Users -> Hook] /\ Dups' = {}
  BY <1>5, Records DEF Dups
<1>8. TypeOK'
  BY <1>1, <1>3, <1>4, <1>5, <1>6, <1>7 DEF TypeOK, Kfds, DescT, Tables, ImageT
<1>9. RefInv'
  <2>1. Cardinality(Dups') = 0
    BY <1>7, FS_EmptySet
  <2>2. \A a \in Addrs : source'[a].ref \in Nat /\ source'[a].ref <= MaxRef
    BY <1>3, Entry
  <2> QED
    BY <2>1, <2>2, Consts DEF RefInv
<1> QED
  BY <1>8, <1>9 DEF TInv

\* The loops stay within the table.
LEMMA AdvanceTypes ==
  ASSUME cur \in Fds, phase \in {"run", "inherited", "files", "std", "restored"},
         NEW next \in {"files", "std"}, Advance(next)
  PROVE  cur' \in Fds /\ phase' \in {"run", "inherited", "files", "std", "restored"}
<1>1. cur' = IF cur = LastFd THEN 0 ELSE cur + 1
  BY DEF Advance
<1>2. phase' = IF cur = LastFd THEN next ELSE phase
  BY DEF Advance
<1> QED
  BY <1>1, <1>2, Consts

\* What a step of the restore takes from the table.
LEMMA TypeIs ==
  ASSUME table \in Tables, source \in [Addrs -> FdSource], NEW fd \in Fds
  PROVE  /\ table[fd] = Null => Type(fd) = "FD_NULL"
         /\ table[fd] # Null => /\ table[fd] \in Addrs /\ source[table[fd]] \in FdSource
                                /\ Type(fd) = source[table[fd]].type
BY DEF Tables, Type

\* The steps of fd_table_restore keep the types.
LEMMA RestoreTypes ==
  ASSUME TInv, RestoreStep
  PROVE  TInv'
<1>1. /\ kfd \in Kfds /\ desc \in DescT /\ table \in Tables /\ source \in [Addrs -> FdSource]
      /\ hook \in [Users -> Hook] /\ calls \in 0 .. MaxCalls
      /\ phase \in {"run", "inherited", "files", "std", "restored"} /\ cur \in Fds
      /\ image \subseteq ImageT /\ saves \in 0 .. MaxSaves /\ restarts \in 0 .. MaxRestarts
      /\ apart \in BOOLEAN
  BY TypeParts DEF TInv
<1>2. UNCHANGED <<table, hook, calls, apart, image, saves, restarts>>
  BY DEF RestoreStep, RestoreInherited, file_restore, RestoreCopy, RestoreSkip,
         RestoreStd, Resume, Advance, tableVars
<1>3. /\ kfd' \in Kfds /\ desc' \in DescT /\ cur' \in Fds
      /\ phase' \in {"run", "inherited", "files", "std", "restored"}
      /\ source' \in [Addrs -> FdSource] /\ \A a \in Addrs : source'[a].ref = source[a].ref
  <2>1. CASE RestoreInherited
    <3>1. Advance("files") /\ source' = source
      BY <2>1 DEF RestoreInherited
    <3>2. CASE Type(cur) = "FD_INHERITED"
      <4> DEFINE k == [kfd EXCEPT ![cur] = kfd[source[table[cur]].root]]
      <4>1. Kernel(k, desc)
        BY <2>1, <3>2 DEF RestoreInherited
      <4>2. source[table[cur]] \in FdSource
        BY <1>1, <3>2, TypeIs
      <4>3. source[table[cur]].root \in Fds
        BY <4>2, Entry
      <4>4. k \in Kfds
        BY <1>1, <4>3 DEF Kfds
      <4> HIDE DEF k
      <4> QED
        BY <1>1, <3>1, <4>1, <4>4, KernelIs, AdvanceTypes
    <3>3. CASE Type(cur) # "FD_INHERITED"
      BY <1>1, <2>1, <3>1, <3>3, AdvanceTypes DEF RestoreInherited, kernelVars
    <3> QED
      BY <3>2, <3>3
  <2>2. CASE file_restore
    <3> DEFINE e == source[table[cur]]
               w == BackAt(e, cur)
    <3>1. /\ Type(cur) = "FD_FILE" /\ Open(cur, e.name, e.offset) /\ Advance("std")
          /\ source' = [source EXCEPT ![table[cur]] = w]
      BY <2>2 DEF file_restore, BackAt
    <3>2. table[cur] \in Addrs /\ e \in FdSource
      BY <1>1, <3>1, TypeIs
    <3> HIDE DEF e
    <3>3. w \in FdSource /\ w.ref = e.ref /\ e.name \in Name /\ e.offset \in 0 .. MaxOffset
      BY <1>1, <3>2, Entry, BackAtIs
    <3> HIDE DEF w
    <3>4. kfd' \in Kfds /\ desc' \in DescT
      BY <1>1, <3>1, <3>3, OpenIs
    <3>5. source' \in [Addrs -> FdSource] /\ \A a \in Addrs : source'[a].ref = source[a].ref
      BY <1>1, <3>1, <3>2, <3>3 DEF e
    <3> QED
      BY <1>1, <3>1, <3>4, <3>5, AdvanceTypes
  <2>3. CASE RestoreCopy
    <3> DEFINE k == [kfd EXCEPT ![cur] = kfd[source[table[cur]].root]]
    <3>1. Type(cur) = "FD_FILE" /\ Kernel(k, desc) /\ Advance("std") /\ source' = source
      BY <2>3 DEF RestoreCopy
    <3>2. source[table[cur]] \in FdSource
      BY <1>1, <3>1, TypeIs
    <3>3. source[table[cur]].root \in Fds
      BY <3>2, Entry
    <3>4. k \in Kfds
      BY <1>1, <3>3 DEF Kfds
    <3> HIDE DEF k
    <3> QED
      BY <1>1, <3>1, <3>4, KernelIs, AdvanceTypes
  <2>4. CASE RestoreSkip
    BY <1>1, <2>4, AdvanceTypes DEF RestoreSkip, kernelVars
  <2>5. CASE RestoreStd
    <3> DEFINE k == [fd \in Fds |-> IF fd \in Std /\ table[fd] = Null THEN NoDesc ELSE kfd[fd]]
    <3>1. Kernel(k, desc) /\ phase' = "restored" /\ cur' = cur /\ source' = source
      BY <2>5 DEF RestoreStd, tableVars
    <3>2. k \in Kfds
      BY <1>1 DEF Kfds
    <3> HIDE DEF k
    <3> QED
      BY <1>1, <3>1, <3>2, KernelIs
  <2>6. CASE Resume
    BY <1>1, <2>6 DEF Resume, kernelVars, tableVars
  <2> QED
    BY <2>1, <2>2, <2>3, <2>4, <2>5, <2>6 DEF RestoreStep
<1>4. TypeOK'
  BY <1>1, <1>2, <1>3 DEF TypeOK, Kfds, DescT, Tables, ImageT
<1>5. RefInv'
  BY <1>2, <1>3 DEF TInv, RefInv, Dups
<1> QED
  BY <1>4, <1>5 DEF TInv

\* Seek keeps the types.
LEMMA SeekTypes ==
  ASSUME TInv, NEW fd \in Fds, Seek(fd)
  PROVE  TInv'
<1>1. /\ kfd \in Kfds /\ desc \in DescT /\ table \in Tables /\ source \in [Addrs -> FdSource]
      /\ hook \in [Users -> Hook] /\ calls \in 0 .. MaxCalls
      /\ phase \in {"run", "inherited", "files", "std", "restored"} /\ cur \in Fds
      /\ image \subseteq ImageT /\ saves \in 0 .. MaxSaves /\ restarts \in 0 .. MaxRestarts
      /\ apart \in BOOLEAN
  BY TypeParts DEF TInv
<1>2. /\ UNCHANGED <<kfd, table, source, hook, apart, phase, cur, image, saves, restarts>>
      /\ calls < MaxCalls /\ calls' = calls + 1 /\ kfd[fd] # NoDesc
  BY DEF Seek, Called, tableVars, ckptVars
<1>3. PICK o \in 0 .. MaxOffset : desc' = [desc EXCEPT ![kfd[fd]].off = o]
  BY DEF Seek
<1>4. calls' \in 0 .. MaxCalls
  BY <1>1, <1>2, Consts
<1>5. desc' \in DescT
  <2> DEFINE e == [desc[kfd[fd]] EXCEPT !.off = o]
  <2>1. kfd[fd] \in Descs
    BY <1>1, <1>2 DEF Kfds
  <2>2. e \in Description
    BY <1>1, <2>1 DEF DescT, Description
  <2>3. desc' = [desc EXCEPT ![kfd[fd]] = e]
    BY <1>3
  <2> HIDE DEF e
  <2> QED
    BY <1>1, <2>2, <2>3 DEF DescT
<1>6. TypeOK'
  BY <1>1, <1>2, <1>4, <1>5 DEF TypeOK, Kfds, DescT, Tables, ImageT
<1>7. RefInv'
  BY <1>2 DEF TInv, RefInv, Dups
<1> QED
  BY <1>6, <1>7 DEF TInv

\* The bounds on entries leave room for every reference.
THEOREM TypesInductive == Spec => [](IInv /\ TInv)
<1>1. Init => TInv
  BY TypeInit
<1>2. IInv /\ TInv /\ [Next]_vars => TInv'
  <2> SUFFICES ASSUME IInv, TInv, [Next]_vars PROVE TInv'
    OBVIOUS
  <2>1. CASE fd_table_save
    BY <2>1, SaveTypes
  <2>2. CASE Restart
    BY <2>2, RestartTypes
  <2>3. CASE RestoreStep
    BY <2>3, RestoreTypes
  <2>4. ASSUME NEW fd \in Fds, Seek(fd) PROVE TInv'
    BY <2>4, SeekTypes
  <2>5. ASSUME NEW u \in Users, HookStep(u) PROVE TInv'
    BY <2>5, CallTypes, TurnTypes DEF HookStep
  <2>6. CASE UNCHANGED vars
    BY <2>6 DEF vars, kernelVars, tableVars, ckptVars, TInv, TypeOK, RefInv, Dups
  <2> QED
    BY <2>1, <2>2, <2>3, <2>4, <2>5, <2>6 DEF Next
<1> QED
  BY <1>1, <1>2, CountsInductive, PTL DEF Spec

\* Every variable keeps its type, for any number of threads, descriptors,
\* checkpoints and restarts.
THEOREM TypeCorrect == Spec => []TypeOK
<1>1. TInv => TypeOK
  BY DEF TInv
<1> QED
  BY <1>1, TypesInductive, PTL

-----------------------------------------------------------------------------
(* The kernel and the table                                                *)

\* The description is what the entry says it is.
EntryFor(e, x) ==
  \/ e.type = "FD_FILE" /\ x.name = e.name /\ e.name \in Files
  \/ e.type = "FD_INHERITED" /\ x = [name |-> e.root, off |-> 0]

\* On the descriptors in S, table and kernel have the same ones open, the same
\* ones shared, and the same files.
Agree(tab, src, k, d, S) ==
  /\ \A fd \in S : tab[fd] = Null <=> k[fd] = NoDesc
  /\ \A fd, g \in S : tab[fd] = tab[g] <=> k[fd] = k[g]
  /\ \A fd \in S : tab[fd] # Null => EntryFor(src[tab[fd]], d[k[fd]])

\* Every inherited stream has one entry.
InheritedRoots(src) ==
  /\ \A a \in Addrs : src[a].type = "FD_INHERITED" => src[a].root \in Std
  /\ \A a, b \in Addrs :
       src[a].type = "FD_INHERITED" /\ src[b].type = "FD_INHERITED" /\ src[a].root = src[b].root
         => a = b

\* The slots of a table that hold a file.
FileFds(tab, src) == {fd \in Fds : tab[fd] # Null /\ src[tab[fd]].type = "FD_FILE"}
InheritedFds(tab, src) == {fd \in Fds : tab[fd] # Null /\ src[tab[fd]].type = "FD_INHERITED"}

\* The descriptor for which the kernel is ahead of the table.
Ahead(h) ==
  IF h.op = "none" \/ (h.op = "dup" /\ h.from = h.fd) THEN {} ELSE {h.fd}

InStep == {fd \in Fds : \A u \in Users : fd \notin Ahead(hook[u])}

\* What the kernel has done for a call that the table has yet to record.
HookAt(h, k, d, tab) ==
  /\ h.op \in {"open", "freopen"} =>
       /\ k[h.fd] # NoDesc /\ d[k[h.fd]].name = h.name /\ h.name \in Files
       /\ \A g \in Fds : g # h.fd => k[g] # k[h.fd]
  /\ h.op = "open" => tab[h.fd] = Null
  /\ h.op = "close" => k[h.fd] = NoDesc
  /\ h.op = "dup" => k[h.from] # NoDesc /\ k[h.fd] = k[h.from]

\* No entry is left from an earlier checkpoint.
NoneSaved(tab, src) == \A fd \in FileFds(tab, src) : src[tab[fd]].state # "FD_STATE_SAVED"

RunInv ==
  /\ Agree(table, source, kfd, desc, InStep)
  /\ \A u \in Users : HookAt(hook[u], kfd, desc, table)
  /\ \A u, w \in Users : u # w => ~Clash(hook[u], hook[w])
  /\ saves = 0 => NoneSaved(table, source)

\* Where the first loop of fd_table_restore finds the stream that a descriptor
\* is a copy of.
InPlace(tab, src) ==
  \A fd \in InheritedFds(tab, src) :
    src[tab[fd]].root < fd /\ src[tab[fd]].root \in InheritedFds(tab, src) =>
      src[tab[src[tab[fd]].root]].root = src[tab[fd]].root

\* An image agrees with the kernel it was taken of, offsets included but for the
\* entries that it found already saved.
GoodImage(i) ==
  /\ Agree(i.table, i.source, i.kfd, i.desc, Fds)
  /\ InheritedRoots(i.source)
  /\ InPlace(i.table, i.source)
  /\ \A fd \in FileFds(i.table, i.source) :
       /\ i.source[i.table[fd]].state = "FD_STATE_SAVED"
       /\ i.table[fd] \notin i.again =>
            i.source[i.table[fd]].offset = i.desc[i.kfd[fd]].off

\* What the image says a descriptor has open.
Meant(i, fd) ==
  LET e == i.source[i.table[fd]]
  IN IF e.type = "FD_FILE" THEN [name |-> e.name, off |-> e.offset]
     ELSE [name |-> e.root, off |-> 0]

\* What fd_table_restore leaves alone of the image's table.
SameEntries(i) ==
  /\ table = i.table
  /\ \A a \in Addrs :
       /\ source[a].type = i.source[a].type /\ source[a].name = i.source[a].name
       /\ source[a].offset = i.source[a].offset
       /\ source[a].type = "FD_INHERITED" => source[a].root = i.source[a].root

\* The descriptors in S are open as the image says.
Reopened(i, k, d, S) ==
  /\ \A fd \in S : k[fd] # NoDesc /\ d[k[fd]] = Meant(i, fd)
  /\ \A fd, g \in S : i.table[fd] = i.table[g] <=> k[fd] = k[g]

\* The first loop of fd_table_restore, at descriptor c.
InheritedAt(tab, src, k, d, c) ==
  /\ \A fd \in Fds :
       k[fd] = IF fd \in InheritedFds(tab, src) /\ fd < c THEN StdDesc[src[tab[fd]].root]
               ELSE IF fd \in Std THEN StdDesc[fd]
               ELSE NoDesc
  /\ \A fd \in Fds : \A s \in Std :
       k[fd] = StdDesc[s] => d[StdDesc[s]] = [name |-> s, off |-> 0]
  /\ \A fd \in FileFds(tab, src) : src[tab[fd]].state = "FD_STATE_SAVED"

\* The descriptors that the second loop has passed, or that the first one left.
Passed(tab, src, c) == InheritedFds(tab, src) \cup {fd \in FileFds(tab, src) : fd < c}

\* The second loop, at descriptor c.
FilesAt(i, tab, src, k, d, c) ==
  /\ Reopened(i, k, d, Passed(tab, src, c))
  /\ \A fd \in Fds \ Passed(tab, src, c) : fd \notin Std => k[fd] = NoDesc
  /\ \A fd \in FileFds(tab, src) : fd < c => src[tab[fd]].state = "FD_STATE_RESTORED"
  /\ \A fd \in FileFds(tab, src) : src[tab[fd]].state = "FD_STATE_RESTORED" =>
       src[tab[fd]].root < c /\ tab[src[tab[fd]].root] = tab[fd]

FilesInv(c) == \A i \in image : FilesAt(i, table, source, kfd, desc, c)

RestoreInv ==
  /\ \A i \in image : SameEntries(i)
  /\ phase = "inherited" => InheritedAt(table, source, kfd, desc, cur)
  /\ phase = "files" => FilesInv(cur)
  /\ phase \in {"std", "restored"} => FilesInv(LastFd + 1)
  /\ phase = "restored" => \A fd \in Fds : table[fd] = Null => kfd[fd] = NoDesc

KInv ==
  /\ \A i, j \in image : i = j
  /\ \A i \in image : ~i.apart => GoodImage(i)
  /\ phase # "run" =>
       /\ image # {} /\ \A i \in image : apart = i.apart
       /\ \A u \in Users : hook[u] = Idle
       /\ saves = 0
  /\ ~apart => /\ InheritedRoots(source)
               /\ phase = "run" => RunInv
               /\ phase # "run" => RestoreInv

-----------------------------------------------------------------------------
(* Calls and the table's turns, between checkpoints                        *)

\* An entry that means the same to a description.
SameFile(e, f) ==
  f.type = e.type /\ f.name = e.name /\ (e.type = "FD_INHERITED" => f.root = e.root)

\* Agreement carries over to what is the same on fewer descriptors.
LEMMA AgreeChange ==
  ASSUME NEW tab, NEW src, NEW k, NEW d, NEW S, Agree(tab, src, k, d, S),
         NEW tab2, NEW src2, NEW k2, NEW d2, NEW T, T \subseteq S,
         \A fd \in T : tab2[fd] = tab[fd] /\ k2[fd] = k[fd],
         \A fd \in T : tab[fd] # Null => SameFile(src[tab[fd]], src2[tab[fd]]),
         \A fd \in T : k[fd] # NoDesc => d2[k[fd]] = d[k[fd]]
  PROVE  Agree(tab2, src2, k2, d2, T)
<1>1. /\ \A fd \in T : tab2[fd] = Null <=> k2[fd] = NoDesc
      /\ \A fd, g \in T : tab2[fd] = tab2[g] <=> k2[fd] = k2[g]
  BY DEF Agree
<1>2. ASSUME NEW fd \in T, tab2[fd] # Null
      PROVE  EntryFor(src2[tab2[fd]], d2[k2[fd]])
  <2>1. tab2[fd] = tab[fd] /\ k2[fd] = k[fd] /\ k[fd] # NoDesc /\ tab[fd] # Null
    BY <1>2 DEF Agree
  <2>2. EntryFor(src[tab[fd]], d[k[fd]]) /\ d2[k[fd]] = d[k[fd]]
    BY <2>1 DEF Agree
  <2>3. SameFile(src[tab[fd]], src2[tab[fd]])
    BY <2>1
  <2> QED
    BY <2>1, <2>2, <2>3 DEF EntryFor, SameFile
<1> QED
  BY <1>1, <1>2 DEF Agree

\* A descriptor that comes to agree as well.
LEMMA AgreeAdd ==
  ASSUME NEW tab, NEW src, NEW k, NEW d, NEW S, NEW fd \in S, Agree(tab, src, k, d, S \ {fd}),
         tab[fd] = Null <=> k[fd] = NoDesc,
         \A g \in S : g # fd => (tab[fd] = tab[g] <=> k[fd] = k[g]),
         tab[fd] # Null => EntryFor(src[tab[fd]], d[k[fd]])
  PROVE  Agree(tab, src, k, d, S)
BY DEF Agree

\* The descriptors for which the kernel is not ahead because of another thread.
Others(u) == {fd \in Fds : \A w \in Users \ {u} : fd \notin Ahead(hook[w])}

\* The hook of one thread changes.
LEMMA OneHook ==
  ASSUME hook \in [Users -> Hook], NEW u \in Users, NEW h, hook' = [hook EXCEPT ![u] = h]
  PROVE  /\ hook'[u] = h /\ \A w \in Users : w # u => hook'[w] = hook[w]
         /\ InStep = Others(u) \ Ahead(hook[u]) /\ InStep' = Others(u) \ Ahead(h)
<1>1. hook'[u] = h /\ \A w \in Users : w # u => hook'[w] = hook[w]
  OBVIOUS
<1> QED
  BY <1>1 DEF InStep, Others

\* Calls that do not clash are about other descriptors.
LEMMA Apart ==
  ASSUME NEW h, NEW g, ~Clash(h, g), h.op # "none", g.op # "none"
  PROVE  /\ h.fd # g.fd
         /\ g.op = "dup" => h.fd # g.from
         /\ h.op = "dup" => g.fd # h.from
BY DEF Clash, Changes, Concerns

\* What a call is about is not what another is ahead of.
LEMMA ConcernsOthers ==
  ASSUME NEW u \in Users, NEW h, h.op # "none", h.fd \in Fds, h.from \in Fds,
         \A w \in Users : w # u => ~Clash(h, hook[w])
  PROVE  h.fd \in Others(u) /\ (h.op = "dup" => h.from \in Others(u))
<1>1. ASSUME NEW w \in Users, w # u
      PROVE  h.fd \notin Ahead(hook[w]) /\ (h.op = "dup" => h.from \notin Ahead(hook[w]))
  BY <1>1, Apart DEF Ahead
<1> QED
  BY <1>1 DEF Others

\* What the kernel has done for a call stays done when it makes another.
LEMMA HookAtKept ==
  ASSUME NEW g, NEW h, NEW k, NEW d, NEW tab, NEW k2, NEW d2, HookAt(g, k, d, tab),
         ~Clash(h, g), h.op # "none", g.fd \in Fds, g.from \in Fds,
         \A x \in Fds : x # h.fd => k2[x] = k[x],
         \A x \in Fds : x # h.fd /\ k[x] # NoDesc => d2[k[x]] = d[k[x]],
         \/ k2[h.fd] = NoDesc
         \/ \A x \in Fds : k[x] # k2[h.fd]
         \/ h.op = "dup" /\ h.from \in Fds /\ k2[h.fd] = k[h.from]
  PROVE  HookAt(g, k2, d2, tab)
<1>1. CASE g.op = "none"
  BY <1>1 DEF HookAt
<1>2. CASE g.op # "none"
  <2>1. /\ h.fd # g.fd
        /\ g.op = "dup" => h.fd # g.from
        /\ h.op = "dup" => g.fd # h.from
    BY <1>2, Apart
  <2>2. ASSUME g.op \in {"open", "freopen"}
        PROVE  /\ k2[g.fd] # NoDesc /\ d2[k2[g.fd]].name = g.name /\ g.name \in Files
               /\ \A x \in Fds : x # g.fd => k2[x] # k2[g.fd]
    <3>1. /\ k[g.fd] # NoDesc /\ d[k[g.fd]].name = g.name /\ g.name \in Files
          /\ \A x \in Fds : x # g.fd => k[x] # k[g.fd]
      BY <2>2 DEF HookAt
    <3>2. k2[g.fd] = k[g.fd] /\ d2[k[g.fd]] = d[k[g.fd]]
      BY <2>1, <3>1
    <3>3. k2[h.fd] # k[g.fd]
      BY <2>1, <3>1
    <3> QED
      BY <3>1, <3>2, <3>3
  <2>3. /\ g.op = "open" => tab[g.fd] = Null
        /\ g.op = "close" => k2[g.fd] = NoDesc
        /\ g.op = "dup" => k2[g.from] # NoDesc /\ k2[g.fd] = k2[g.from]
    BY <2>1 DEF HookAt
  <2> QED
    BY <2>2, <2>3 DEF HookAt
<1> QED
  BY <1>1, <1>2

\* Outside of the hooks every descriptor agrees.
LEMMA IdleInStep ==
  ASSUME \A u \in Users : hook[u] = Idle
  PROVE  InStep = Fds
BY DEF InStep, Ahead, Idle

\* The lowest free descriptor is free.
LEMMA LowestFreeIs == FreeFds # {} => LowestFree \in FreeFds
<1> SUFFICES ASSUME FreeFds # {} PROVE LowestFree \in FreeFds
  OBVIOUS
<1>1. LowestFree = First(FreeFds) /\ FreeFds \in SUBSET Fds
  BY DEF LowestFree, First, FreeFds
<1> QED
  BY <1>1, FirstIs

\* A call of the program: the kernel is ahead by at most one descriptor.
LEMMA CallKeeps ==
  ASSUME TInv, KInv, NEW u \in Users,
         \/ \E name \in Files : OpenHook(u, name)
         \/ \E fd \in Fds : CloseHook(u, fd) \/ DupHook(u, fd)
         \/ \E fd, new \in Fds : Dup2Hook(u, fd, new)
         \/ \E fd \in Fds, name \in Files : FreopenHook(u, fd, name)
  PROVE  KInv'
<1>1. /\ kfd \in Kfds /\ desc \in DescT /\ table \in Tables /\ source \in [Addrs -> FdSource]
      /\ hook \in [Users -> Hook]
  BY TypeParts DEF TInv
<1>2. UNCHANGED <<table, source, phase, cur, image, saves, restarts>>
  BY DEF OpenHook, CloseHook, DupHook, Dup2Hook, DupTo, FreopenHook, tableVars, ckptVars
<1>3. phase = "run" /\ hook[u] = Idle
  BY DEF OpenHook, CloseHook, DupHook, Dup2Hook, FreopenHook, Starts
<1> SUFFICES ASSUME ~apart' PROVE RunInv' /\ InheritedRoots(source)
  <2>1. ~apart' => ~apart
    BY DEF OpenHook, CloseHook, DupHook, Dup2Hook, DupTo, FreopenHook, Entered
  <2> QED
    BY <1>2, <1>3, <2>1 DEF KInv
<1>4. RunInv /\ InheritedRoots(source)
  <2>1. ~apart
    BY DEF OpenHook, CloseHook, DupHook, Dup2Hook, DupTo, FreopenHook, Entered
  <2> QED
    BY <1>3, <2>1 DEF KInv
<1> DEFINE S == Others(u)
<1>5. Agree(table, source, kfd, desc, S) /\ S \subseteq Fds
  <2>1. Ahead(hook[u]) = {}
    BY <1>3 DEF Ahead, Idle
  <2>2. InStep = S
    BY <2>1 DEF InStep, Others
  <2> QED
    BY <1>4, <2>2 DEF RunInv, Others
<1>11. ASSUME NEW h, Entered(u, h)
       PROVE  hook' = [hook EXCEPT ![u] = h] /\ \A w \in Users : w # u => ~Clash(h, hook[w])
  BY <1>11 DEF Entered
<1> DEFINE Made ==
  \E h : /\ Entered(u, h) /\ h.op # "none"
         /\ Agree(table, source, kfd', desc', S \ Ahead(h))
         /\ HookAt(h, kfd', desc', table)
         /\ \A x \in Fds : x # h.fd => kfd'[x] = kfd[x]
         /\ \A x \in Fds : x # h.fd /\ kfd[x] # NoDesc => desc'[kfd[x]] = desc[kfd[x]]
         /\ \/ kfd'[h.fd] = NoDesc
            \/ \A x \in Fds : kfd[x] # kfd'[h.fd]
            \/ h.op = "dup" /\ h.from \in Fds /\ kfd'[h.fd] = kfd[h.from]
<1>6. ASSUME NEW fd \in Fds, NEW name \in Files, Open(fd, name, 0),
             NEW op \in {"open", "freopen"}, op = "open" => table[fd] = Null,
             Entered(u, [op |-> op, fd |-> fd, from |-> 0, name |-> name])
      PROVE  Made
  <2> DEFINE h == [op |-> op, fd |-> fd, from |-> 0, name |-> name]
             e == [name |-> name, off |-> 0]
  <2>1. name \in Name /\ 0 \in 0 .. MaxOffset /\ NoDesc \notin Descs
    BY Consts
  <2>2. /\ kfd' \in Kfds /\ desc' \in DescT
        /\ \E x \in Descs : /\ kfd' = [kfd EXCEPT ![fd] = x] /\ desc'[x] = e
                            /\ \A g \in Fds : kfd[g] # x
        /\ \A g \in Fds : g # fd /\ kfd[g] \in Descs => desc'[kfd[g]] = desc[kfd[g]]
    BY <1>1, <1>6, <2>1, OpenIs
  <2>3. e.name = name
    OBVIOUS
  <2>4. h.op = op /\ h.fd = fd /\ h.name = name
    OBVIOUS
  <2> HIDE DEF e
  <2>5. PICK x \in Descs : kfd' = [kfd EXCEPT ![fd] = x] /\ desc'[x] = e /\ \A g \in Fds : kfd[g] # x
    BY <2>2
  <2>6. kfd'[fd] = x /\ \A g \in Fds : g # fd => kfd'[g] = kfd[g]
    BY <1>1, <2>5 DEF Kfds
  <2>7. Entered(u, h) /\ h.op # "none"
    BY <1>6
  <2> HIDE DEF h
  <2>8. Ahead(h) = {fd}
    BY <1>6, <2>4 DEF Ahead
  <2>9. \A g \in Fds : kfd[g] # NoDesc => kfd[g] \in Descs
    BY <1>1 DEF Kfds
  <2>12. \A g \in Fds : g # fd /\ kfd[g] # NoDesc => desc'[kfd[g]] = desc[kfd[g]]
    BY <2>2, <2>9
  <2>10. Agree(table, source, kfd', desc', S \ {fd})
    <3>1. \A g \in S \ {fd} : table[g] # Null => SameFile(source[table[g]], source[table[g]])
      BY DEF SameFile
    <3> HIDE DEF S
    <3> QED
      BY <1>5, <2>6, <2>12, <3>1, AgreeChange
  <2>11. HookAt(h, kfd', desc', table)
    BY <1>6, <2>1, <2>3, <2>4, <2>5, <2>6 DEF HookAt
  <2> HIDE DEF S
  <2> QED
    BY <2>4, <2>5, <2>6, <2>7, <2>8, <2>10, <2>11, <2>12
<1>7. ASSUME NEW fd \in Fds, CloseHook(u, fd) PROVE Made
  <2> DEFINE h == [Idle EXCEPT !.op = "close", !.fd = fd]
             k == [kfd EXCEPT ![fd] = NoDesc]
  <2>1. h.op = "close" /\ h.fd = fd
    BY DEF Idle
  <2>2. Entered(u, h) /\ Kernel(k, desc)
    BY <1>7 DEF CloseHook
  <2>3. k \in Kfds /\ k[fd] = NoDesc /\ \A g \in Fds : g # fd => k[g] = kfd[g]
    BY <1>1 DEF Kfds
  <2> HIDE DEF h, k
  <2>4. kfd' = k /\ \A g \in Fds : k[g] \in Descs => desc'[k[g]] = desc[k[g]]
    BY <1>1, <2>2, <2>3, KernelIs
  <2>5. Ahead(h) = {fd}
    BY <2>1 DEF Ahead
  <2>8. \A g \in Fds : g # fd /\ kfd[g] # NoDesc => desc'[kfd[g]] = desc[kfd[g]]
    BY <1>1, <2>3, <2>4 DEF Kfds
  <2>6. Agree(table, source, k, desc', S \ {fd})
    <3>1. \A g \in S \ {fd} : table[g] # Null => SameFile(source[table[g]], source[table[g]])
      BY DEF SameFile
    <3> HIDE DEF S
    <3> QED
      BY <1>5, <2>3, <2>8, <3>1, AgreeChange
  <2>7. HookAt(h, k, desc', table)
    BY <2>1, <2>3 DEF HookAt
  <2> HIDE DEF S
  <2> QED
    BY <2>1, <2>2, <2>3, <2>4, <2>5, <2>6, <2>7, <2>8
<1>8. ASSUME NEW fd \in Fds, NEW new \in Fds, DupTo(u, fd, new) PROVE Made
  <2> DEFINE h == [Idle EXCEPT !.op = "dup", !.fd = new, !.from = fd]
             k == [kfd EXCEPT ![new] = kfd[fd]]
  <2>1. h.op = "dup" /\ h.fd = new /\ h.from = fd
    BY DEF Idle
  <2>2. Entered(u, h) /\ Kernel(k, desc) /\ kfd[fd] # NoDesc
    BY <1>8 DEF DupTo
  <2>3. k \in Kfds /\ k[new] = kfd[fd] /\ \A g \in Fds : g # new => k[g] = kfd[g]
    BY <1>1 DEF Kfds
  <2> HIDE DEF h, k
  <2>4. kfd' = k /\ \A g \in Fds : k[g] \in Descs => desc'[k[g]] = desc[k[g]]
    BY <1>1, <2>2, <2>3, KernelIs
  <2>5. Ahead(h) = IF fd = new THEN {} ELSE {new}
    BY <2>1 DEF Ahead
  <2>6. \A g \in Fds \ Ahead(h) : k[g] = kfd[g]
    BY <2>3, <2>5
  <2>9. \A g \in Fds \ Ahead(h) : kfd[g] # NoDesc => desc'[kfd[g]] = desc[kfd[g]]
    BY <1>1, <2>4, <2>6 DEF Kfds
  <2>7. Agree(table, source, k, desc', S \ Ahead(h))
    <3>1. \A g \in S \ Ahead(h) : table[g] # Null => SameFile(source[table[g]], source[table[g]])
      BY DEF SameFile
    <3> HIDE DEF S
    <3> QED
      BY <1>5, <2>6, <2>9, <3>1, AgreeChange
  <2>10. \A g \in Fds : g # new /\ kfd[g] # NoDesc => desc'[kfd[g]] = desc[kfd[g]]
    BY <2>5, <2>9
  <2>8. HookAt(h, k, desc', table)
    BY <2>1, <2>2, <2>3 DEF HookAt
  <2> HIDE DEF S
  <2> QED
    BY <2>1, <2>2, <2>3, <2>4, <2>7, <2>8, <2>10
<1>9. Made
  <2>1. ASSUME NEW name \in Files, OpenHook(u, name) PROVE Made
    <3>1. FreeFds # {} /\ Open(LowestFree, name, 0)
      BY <2>1 DEF OpenHook
    <3>2. LowestFree \in FreeFds
      BY <3>1, LowestFreeIs
    <3> DEFINE h == [op |-> "open", fd |-> LowestFree, from |-> 0, name |-> name]
    <3>3. LowestFree \in Fds /\ kfd[LowestFree] = NoDesc
      BY <3>2 DEF FreeFds
    <3>4. Entered(u, h)
      BY <2>1 DEF OpenHook
    <3>5. h.op = "open" /\ h.fd = LowestFree /\ h.from \in Fds
      BY Consts
    <3> HIDE DEF h
    <3>6. LowestFree \in S
      BY <1>11, <3>3, <3>4, <3>5, ConcernsOthers
    <3>7. table[LowestFree] = Null
      BY <1>5, <3>3, <3>6 DEF Agree
    <3> QED
      BY <1>6, <3>1, <3>3, <3>4, <3>7 DEF h
  <2>2. ASSUME NEW fd \in Fds, DupHook(u, fd) PROVE Made
    BY <1>8, <2>2, LowestFreeExists DEF DupHook
  <2>3. ASSUME NEW fd \in Fds, NEW new \in Fds, Dup2Hook(u, fd, new) PROVE Made
    BY <1>8, <2>3 DEF Dup2Hook
  <2>4. ASSUME NEW fd \in Fds, NEW name \in Files, FreopenHook(u, fd, name) PROVE Made
    <3>1. /\ Open(fd, name, 0)
          /\ Entered(u, [op |-> "freopen", fd |-> fd, from |-> 0, name |-> name])
      BY <2>4 DEF FreopenHook
    <3> QED
      BY <1>6, <3>1
  <2> QED
    BY <1>7, <2>1, <2>2, <2>3, <2>4
<1> HIDE DEF S
<1>10. PICK h : /\ Entered(u, h) /\ h.op # "none"
                /\ Agree(table, source, kfd', desc', S \ Ahead(h))
                /\ HookAt(h, kfd', desc', table)
                /\ \A x \in Fds : x # h.fd => kfd'[x] = kfd[x]
                /\ \A x \in Fds : x # h.fd /\ kfd[x] # NoDesc => desc'[kfd[x]] = desc[kfd[x]]
                /\ \/ kfd'[h.fd] = NoDesc
                   \/ \A x \in Fds : kfd[x] # kfd'[h.fd]
                   \/ h.op = "dup" /\ h.from \in Fds /\ kfd'[h.fd] = kfd[h.from]
  BY <1>9
<1>12. /\ hook' = [hook EXCEPT ![u] = h] /\ \A w \in Users : w # u => ~Clash(h, hook[w])
  BY <1>10, <1>11
<1>13. /\ hook'[u] = h /\ \A w \in Users : w # u => hook'[w] = hook[w]
       /\ InStep' = S \ Ahead(h)
  BY <1>1, <1>12, OneHook DEF S
<1>14. \A w \in Users : w # u => HookAt(hook[w], kfd', desc', table)
  <2> SUFFICES ASSUME NEW w \in Users, w # u PROVE HookAt(hook[w], kfd', desc', table)
    OBVIOUS
  <2>1. /\ HookAt(hook[w], kfd, desc, table) /\ hook[w].fd \in Fds /\ hook[w].from \in Fds
        /\ ~Clash(h, hook[w])
    BY <1>1, <1>4, <1>12 DEF RunInv, Hook
  <2> QED
    BY <1>10, <2>1, HookAtKept
<1>15. \A v, w \in Users : v # w => ~Clash(hook'[v], hook'[w])
  <2>1. \A g : Clash(h, g) <=> Clash(g, h)
    BY DEF Clash
  <2> QED
    BY <1>4, <1>12, <1>13, <2>1 DEF RunInv
<1> QED
  BY <1>2, <1>4, <1>10, <1>13, <1>14, <1>15 DEF RunInv

\* Entries whose roots and types stay, or that become files or free ones.
LEMMA RootsKeep ==
  ASSUME NEW src, NEW src2, InheritedRoots(src),
         \A a \in Addrs : src2[a].type = "FD_INHERITED" =>
           src[a].type = "FD_INHERITED" /\ src2[a].root = src[a].root
  PROVE  InheritedRoots(src2)
BY DEF InheritedRoots

\* The slot at fd is cleared, and agrees with a closed descriptor.
LEMMA UnrefAgrees ==
  ASSUME IInv, IInv', TInv, NEW fd \in Fds, Unref(fd), InheritedRoots(source),
         NEW S \in SUBSET Fds, Agree(table, source, kfd, desc, S \ {fd})
  PROVE  /\ table' \in Tables /\ table'[fd] = Null
         /\ \A g \in Fds : g # fd => table'[g] = table[g]
         /\ Agree(table', source', kfd, desc, S \ {fd}) /\ InheritedRoots(source')
         /\ NoneSaved(table, source) => NoneSaved(table', source')
<1>1. table \in Tables /\ source \in [Addrs -> FdSource]
  BY TypeParts DEF TInv
<1>2. table' \in Tables /\ table'[fd] = Null /\ \A g \in Fds : g # fd => table'[g] = table[g]
  BY <1>1 DEF Unref, Tables
<1>3. ASSUME NEW g \in Fds, table'[g] # Null
      PROVE  source'[table'[g]].type # "FD_NULL"
  BY <1>3 DEF IInv, Counted
<1>4. /\ \A a \in Addrs : source'[a].type = "FD_INHERITED" =>
           source[a].type = "FD_INHERITED" /\ source'[a].root = source[a].root
      /\ \A a \in Addrs : source'[a].type # "FD_NULL" =>
           SameFile(source[a], source'[a]) /\ source'[a].state = source[a].state
  <2>1. CASE table[fd] = Null
    <3>1. source' = source
      BY <2>1 DEF Unref
    <3> QED
      BY <3>1 DEF SameFile
  <2>2. CASE table[fd] # Null
    <3> DEFINE b == table[fd]
               e == Released(source[b])
    <3>1. b \in Addrs /\ source[b] \in FdSource
      BY <1>1, <2>2 DEF Tables
    <3>2. source[b].ref >= 1
      BY <2>2, Referenced
    <3>3. source' = [source EXCEPT ![b] = e]
      BY <2>2 DEF Unref
    <3> HIDE DEF b
    <3>4. /\ source[b].ref = 1 => e = Unused
          /\ source[b].ref # 1 => /\ e.type = source[b].type /\ e.name = source[b].name
                                  /\ e.root = source[b].root /\ e.state = source[b].state
      BY <3>1, <3>2, ReleasedIs
    <3> HIDE DEF e
    <3>5. e.type = "FD_NULL" \/ (SameFile(source[b], e) /\ e.root = source[b].root
                                 /\ e.state = source[b].state)
      BY <3>4, Records DEF SameFile
    <3>6. source'[b] = e /\ \A a \in Addrs : a # b => source'[a] = source[a]
      BY <1>1, <3>1, <3>3
    <3> QED
      BY <3>1, <3>5, <3>6 DEF SameFile
  <2> QED
    BY <2>1, <2>2
<1>5. InheritedRoots(source')
  BY <1>4, RootsKeep
<1>6. Agree(table', source', kfd, desc, S \ {fd})
  <2>1. \A g \in S \ {fd} : table[g] # Null => SameFile(source[table[g]], source'[table[g]])
    <3>1. \A g \in Fds \ {fd} : table[g] # Null => table[g] \in Addrs
      BY <1>1 DEF Tables
    <3> QED
      BY <1>2, <1>3, <1>4, <3>1
  <2> QED
    BY <1>2, <2>1, AgreeChange
<1>7. ASSUME NoneSaved(table, source) PROVE NoneSaved(table', source')
  <2> SUFFICES ASSUME NEW g \in FileFds(table', source')
               PROVE  source'[table'[g]].state # "FD_STATE_SAVED"
    BY DEF NoneSaved
  <2>1. g \in Fds /\ table'[g] # Null /\ source'[table'[g]].type = "FD_FILE"
    BY DEF FileFds
  <2>2. table'[g] = table[g] /\ table[g] \in Addrs /\ table[g] # Null
    BY <1>1, <1>2, <2>1 DEF Tables
  <2>3. SameFile(source[table[g]], source'[table[g]]) /\ source'[table[g]].state = source[table[g]].state
    BY <1>4, <2>1, <2>2
  <2>4. g \in FileFds(table, source)
    BY <2>1, <2>2, <2>3 DEF SameFile, FileFds
  <2> QED
    BY <1>7, <2>2, <2>3, <2>4 DEF NoneSaved
<1> QED
  BY <1>2, <1>5, <1>6, <1>7

\* The table catches up with the kernel.
LEMMA TurnKeeps ==
  ASSUME IInv, IInv', TInv, TInv', KInv, NEW u \in Users,
         fd_table_open(u) \/ fd_table_close(u) \/ FreopenClose(u) \/ fd_table_dup(u)
  PROVE  KInv'
<1>1. /\ kfd \in Kfds /\ desc \in DescT /\ table \in Tables /\ source \in [Addrs -> FdSource]
      /\ hook \in [Users -> Hook]
  BY TypeParts DEF TInv
<1>2. UNCHANGED <<kfd, desc, calls, apart, phase, cur, image, saves, restarts>>
  BY DEF fd_table_open, fd_table_close, FreopenClose, fd_table_dup, kernelVars, ckptVars
<1>3. phase = "run"
  <2>1. hook[u].op # "none"
    BY DEF fd_table_open, fd_table_close, FreopenClose, fd_table_dup
  <2>2. hook[u] # Idle
    BY <2>1, Records
  <2> QED
    BY <2>2 DEF KInv
<1> SUFFICES ASSUME ~apart PROVE RunInv' /\ InheritedRoots(source')
  BY <1>2, <1>3 DEF KInv
<1>4. RunInv /\ InheritedRoots(source)
  BY <1>3 DEF KInv
<1> DEFINE h == hook[u]
           fd == h.fd
           S == Others(u)
<1>5. fd \in Fds /\ h.from \in Fds /\ h.name \in Name
  BY <1>1 DEF Hook
<1>6. HookAt(h, kfd, desc, table) /\ Agree(table, source, kfd, desc, S \ Ahead(h))
  <2>1. InStep = S \ Ahead(h)
    BY DEF InStep, Others
  <2> QED
    BY <1>4, <2>1 DEF RunInv
<1>13. S \in SUBSET Fds /\ fd \in S /\ (h.op = "dup" => h.from \in S)
  <2>1. h.op # "none" /\ \A w \in Users : w # u => ~Clash(h, hook[w])
    BY <1>4 DEF RunInv, fd_table_open, fd_table_close, FreopenClose, fd_table_dup
  <2> HIDE DEF h
  <2>2. fd \in S /\ (h.op = "dup" => h.from \in S)
    BY <1>5, <2>1, ConcernsOthers
  <2> QED
    BY <2>2 DEF Others
<1>7. \A g \in Fds : table[g] # Null => table[g] \in Addrs /\ source[table[g]].type # "FD_NULL"
  BY <1>1, Referenced DEF Tables
<1>8. NoDesc \notin Descs /\ Null \notin Addrs
  BY Consts
<1> DEFINE Done(w) == /\ hook' = [hook EXCEPT ![u] = w]
                      /\ w.op = "none" \/ (w.op # "dup" /\ w.fd = fd)
                      /\ Agree(table', source', kfd, desc, S \ Ahead(w))
                      /\ HookAt(w, kfd, desc, table')
                      /\ \A g \in Fds : g # fd => table'[g] = table[g]
                      /\ InheritedRoots(source')
                      /\ NoneSaved(table, source) => NoneSaved(table', source')
<1>9. \E w : Done(w)
  <2>1. CASE fd_table_open(u)
    <3> DEFINE e == NewFile(h.name)
    <3>1. PICK a \in Addrs : /\ source[a].type = "FD_NULL"
                             /\ source' = [source EXCEPT ![a] = e]
                             /\ table' = [table EXCEPT ![fd] = a]
      BY <2>1 DEF fd_table_open, NewFile
    <3>2. h.op = "open" /\ hook' = [hook EXCEPT ![u] = Idle]
      BY <2>1 DEF fd_table_open
    <3>3. e.type = "FD_FILE" /\ e.name = h.name /\ e.state = "FD_STATE_NULL"
      BY <1>5, NewFileIs
    <3> HIDE DEF e
    <3>4. Ahead(h) = {fd} /\ Ahead(Idle) = {} /\ HookAt(Idle, kfd, desc, table')
      BY <3>2, Records DEF Ahead, HookAt
    <3>5. /\ kfd[fd] # NoDesc /\ desc[kfd[fd]].name = h.name /\ h.name \in Files
          /\ \A g \in Fds : g # fd => kfd[g] # kfd[fd]
      BY <1>6, <3>2 DEF HookAt
    <3> HIDE DEF h, fd, S
    <3>6. table'[fd] = a /\ \A g \in Fds : g # fd => table'[g] = table[g]
      BY <1>1, <1>5, <3>1 DEF Tables
    <3>7. source'[a] = e /\ \A b \in Addrs : b # a => source'[b] = source[b]
      BY <1>1, <3>1
    <3>8. \A g \in Fds : table[g] # a
      BY <1>7, <1>8, <3>1
    <3>9. Agree(table', source', kfd, desc, S \ {fd})
      <4>1. \A g \in S \ {fd} : table[g] # Null => SameFile(source[table[g]], source'[table[g]])
        BY <1>7, <1>13, <3>7, <3>8 DEF SameFile
      <4>2. Agree(table, source, kfd, desc, S \ {fd})
        BY <1>6, <3>4
      <4> QED
        BY <1>13, <3>6, <4>1, <4>2, AgreeChange
    <3>10. Agree(table', source', kfd, desc, S)
      <4>1. EntryFor(source'[table'[fd]], desc[kfd[fd]])
        BY <3>3, <3>5, <3>6, <3>7 DEF EntryFor
      <4>2. table'[fd] # Null /\ \A g \in Fds : g # fd => table'[g] # table'[fd]
        BY <1>8, <3>6, <3>8
      <4> QED
        BY <1>13, <3>5, <3>9, <4>1, <4>2, AgreeAdd
    <3>11. InheritedRoots(source')
      BY <1>4, <3>3, <3>7, RootsKeep
    <3>12. ASSUME NoneSaved(table, source) PROVE NoneSaved(table', source')
      <4> SUFFICES ASSUME NEW g \in FileFds(table', source')
                   PROVE  source'[table'[g]].state # "FD_STATE_SAVED"
        BY DEF NoneSaved
      <4>1. g \in Fds /\ table'[g] # Null /\ source'[table'[g]].type = "FD_FILE"
        BY DEF FileFds
      <4>2. CASE g = fd
        BY <3>3, <3>6, <3>7, <4>2
      <4>3. CASE g # fd
        <5>1. table'[g] = table[g] /\ source'[table[g]] = source[table[g]] /\ table[g] # Null
          BY <1>7, <3>6, <3>7, <3>8, <4>1, <4>3
        <5>2. g \in FileFds(table, source)
          BY <4>1, <5>1 DEF FileFds
        <5> QED
          BY <3>12, <5>1, <5>2 DEF NoneSaved
      <4> QED
        BY <4>2, <4>3
    <3>13. Done(Idle)
      BY Records, <3>2, <3>4, <3>6, <3>10, <3>11, <3>12
    <3> QED
      BY <3>13
  <2>2. CASE fd_table_close(u)
    <3>1. Unref(fd) /\ h.op = "close" /\ hook' = [hook EXCEPT ![u] = Idle]
      BY <2>2 DEF fd_table_close
    <3>2. Ahead(h) = {fd} /\ Ahead(Idle) = {} /\ HookAt(Idle, kfd, desc, table')
      BY <3>1, Records DEF Ahead, HookAt
    <3>3. kfd[fd] = NoDesc
      BY <1>6, <3>1 DEF HookAt
    <3> HIDE DEF h, fd, S
    <3>4. /\ table'[fd] = Null /\ \A g \in Fds : g # fd => table'[g] = table[g]
          /\ Agree(table', source', kfd, desc, S \ {fd}) /\ InheritedRoots(source')
          /\ NoneSaved(table, source) => NoneSaved(table', source')
      BY <1>4, <1>5, <1>6, <1>13, <3>1, <3>2, UnrefAgrees
    <3>5. Agree(table', source', kfd, desc, S)
      <4>1. \A g \in S \ {fd} : table'[g] = Null <=> kfd[g] = NoDesc
        BY <3>4 DEF Agree
      <4> QED
        BY <1>13, <3>3, <3>4, <4>1, AgreeAdd
    <3>6. Done(Idle)
      BY Records, <3>1, <3>2, <3>4, <3>5
    <3> QED
      BY <3>6
  <2>3. CASE FreopenClose(u)
    <3> DEFINE w == [h EXCEPT !.op = "open"]
    <3>1. Unref(fd) /\ h.op = "freopen" /\ hook' = [hook EXCEPT ![u].op = "open"]
      BY <2>3 DEF FreopenClose
    <3>2. hook' = [hook EXCEPT ![u] = w]
      BY <3>1
    <3>3. w.op = "open" /\ w.fd = fd /\ w.name = h.name
      BY <1>1 DEF Hook
    <3>4. Ahead(h) = {fd} /\ Ahead(w) = {fd}
      BY <3>1, <3>3 DEF Ahead
    <3>5. /\ kfd[fd] # NoDesc /\ desc[kfd[fd]].name = h.name /\ h.name \in Files
          /\ \A g \in Fds : g # fd => kfd[g] # kfd[fd]
      BY <1>6, <3>1 DEF HookAt
    <3> HIDE DEF w, h, fd, S
    <3>6. /\ table'[fd] = Null /\ \A g \in Fds : g # fd => table'[g] = table[g]
          /\ Agree(table', source', kfd, desc, S \ {fd}) /\ InheritedRoots(source')
          /\ NoneSaved(table, source) => NoneSaved(table', source')
      BY <1>4, <1>5, <1>6, <1>13, <3>1, <3>4, UnrefAgrees
    <3>7. HookAt(w, kfd, desc, table')
      BY <3>3, <3>5, <3>6 DEF HookAt
    <3>8. Done(w)
      BY <3>2, <3>3, <3>4, <3>6, <3>7
    <3> QED
      BY <3>8
  <2>4. CASE fd_table_dup(u)
    <3> DEFINE from == h.from
               a == table[from]
               e == Counting(source[a])
    <3>1. h.op = "dup" /\ hook' = [hook EXCEPT ![u] = Idle]
      BY <2>4 DEF fd_table_dup
    <3>2. Ahead(h) = (IF from = fd THEN {} ELSE {fd}) /\ Ahead(Idle) = {}
          /\ HookAt(Idle, kfd, desc, table')
      BY <3>1, Records DEF Ahead, HookAt
    <3>3. kfd[from] # NoDesc /\ kfd[fd] = kfd[from]
      BY <1>6, <3>1 DEF HookAt
    <3>4. a # Null
      BY <1>5, <1>6, <1>13, <3>1, <3>2, <3>3 DEF Agree
    <3>5. /\ table' = [table EXCEPT ![fd] = a]
          /\ source' = [source EXCEPT ![a].ref = @ + 1]
      BY <2>4, <3>4 DEF fd_table_dup
    <3>6. a \in Addrs /\ source[a] \in FdSource
      BY <1>1, <1>5, <3>4 DEF Tables
    <3>7. source' = [source EXCEPT ![a] = e]
      BY <3>5, <3>6, <1>1 DEF Counting
    <3> DEFINE r == from
    <3>8. r \in Fds /\ r \in S /\ table[r] = a
      BY <1>5, <1>13, <3>1
    <3> HIDE DEF a
    <3>9. SameFile(source[a], e) /\ e.root = source[a].root /\ e.state = source[a].state
      BY <3>6 DEF FdSource, Counting, SameFile
    <3> HIDE DEF e, h, fd, S
    <3>10. table'[fd] = a /\ \A g \in Fds : g # fd => table'[g] = table[g]
      BY <1>1, <1>5, <3>5 DEF Tables
    <3>11. source'[a] = e /\ \A b \in Addrs : b # a => source'[b] = source[b]
      BY <1>1, <3>6, <3>7
    <3>12. \A b \in Addrs : /\ SameFile(source[b], source'[b]) /\ source'[b].root = source[b].root
                            /\ source'[b].state = source[b].state
      BY <3>9, <3>11 DEF SameFile
    <3>13. Agree(table', source', kfd, desc, S \ {fd})
      <4>1. \A g \in S \ {fd} : table[g] # Null => SameFile(source[table[g]], source'[table[g]])
        BY <1>7, <1>13, <3>12
      <4>2. Agree(table, source, kfd, desc, S \ {fd})
        BY <1>6, <3>2 DEF Agree
      <4> QED
        BY <1>13, <3>10, <4>1, <4>2, AgreeChange
    <3>14. Agree(table', source', kfd, desc, S)
      <4>1. /\ table'[fd] = table'[r] /\ kfd[fd] = kfd[r]
        BY <3>3, <3>8, <3>10
      <4>2. CASE r = fd
        <5>1. Agree(table, source, kfd, desc, S)
          BY <1>6, <3>2, <4>2
        <5>2. \A g \in Fds : table'[g] = table[g]
          BY <3>8, <3>10, <4>2
        <5>3. \A g \in Fds : table[g] # Null => SameFile(source[table[g]], source'[table[g]])
          BY <1>7, <3>12
        <5> QED
          BY <1>13, <5>1, <5>2, <5>3, AgreeChange
      <4>3. CASE r # fd
        <5>1. /\ r \in S \ {fd} /\ table'[r] # Null /\ kfd[r] # NoDesc
          BY <3>3, <3>4, <3>8, <3>10, <4>1, <4>3 DEF a
        <5>2. \A g \in S : g # fd => (table'[r] = table'[g] <=> kfd[r] = kfd[g])
          BY <1>13, <3>13, <5>1 DEF Agree
        <5>3. EntryFor(source'[table'[r]], desc[kfd[r]])
          BY <3>13, <5>1 DEF Agree
        <5> QED
          BY <1>13, <3>13, <4>1, <5>1, <5>2, <5>3, AgreeAdd
      <4> QED
        BY <4>2, <4>3
    <3>15. InheritedRoots(source')
      BY <1>4, <3>12, RootsKeep DEF SameFile
    <3>16. ASSUME NoneSaved(table, source) PROVE NoneSaved(table', source')
      <4> SUFFICES ASSUME NEW g \in FileFds(table', source')
                   PROVE  source'[table'[g]].state # "FD_STATE_SAVED"
        BY DEF NoneSaved
      <4>1. g \in Fds /\ table'[g] # Null /\ source'[table'[g]].type = "FD_FILE"
        BY DEF FileFds
      <4>2. PICK x \in Fds : table'[g] = table[x]
        BY <3>8, <3>10, <4>1
      <4>3. table[x] \in Addrs
        BY <1>7, <4>1, <4>2
      <4>4. x \in FileFds(table, source)
        BY <3>12, <4>1, <4>2, <4>3 DEF FileFds, SameFile
      <4> QED
        BY <3>12, <3>16, <4>2, <4>3, <4>4 DEF NoneSaved
    <3>17. Done(Idle)
      BY Records, <3>1, <3>2, <3>10, <3>14, <3>15, <3>16
    <3> QED
      BY <3>17
  <2> QED
    BY <2>1, <2>2, <2>3, <2>4
<1>10. PICK w : Done(w)
  BY <1>9
<1>11. /\ hook'[u] = w /\ \A v \in Users : v # u => hook'[v] = hook[v]
       /\ InStep' = S \ Ahead(w)
  BY <1>1, <1>10, OneHook
<1>12. \A v \in Users : v # u => HookAt(hook[v], kfd, desc, table')
  <2> SUFFICES ASSUME NEW v \in Users, v # u, hook[v].op = "open"
               PROVE  table'[hook[v].fd] = Null
    BY <1>4 DEF RunInv, HookAt
  <2>1. h.op # "none"
    BY DEF fd_table_open, fd_table_close, FreopenClose, fd_table_dup
  <2>2. ~Clash(h, hook[v]) /\ HookAt(hook[v], kfd, desc, table) /\ hook[v].fd \in Fds
    BY <1>1, <1>4 DEF RunInv, Hook
  <2> HIDE DEF h
  <2>3. hook[v].fd # fd
    BY <2>1, <2>2, Apart
  <2> QED
    BY <1>10, <2>2, <2>3 DEF HookAt
<1>14. \A v \in Users : v # u => ~Clash(w, hook[v]) /\ ~Clash(hook[v], w)
  <2> SUFFICES ASSUME NEW v \in Users, v # u PROVE ~Clash(w, hook[v]) /\ ~Clash(hook[v], w)
    OBVIOUS
  <2>1. ~Clash(h, hook[v]) /\ h.op # "none"
    BY <1>4 DEF RunInv, fd_table_open, fd_table_close, FreopenClose, fd_table_dup
  <2>2. w.op = "none" \/ (w.op # "none" /\ w.op # "dup" /\ w.fd = h.fd)
    BY <1>10
  <2> HIDE DEF h
  <2> QED
    BY <2>1, <2>2 DEF Clash, Changes, Concerns
<1>15. \A v, x \in Users : v # x => ~Clash(hook'[v], hook'[x])
  BY <1>4, <1>11, <1>14 DEF RunInv
<1> QED
  BY <1>2, <1>4, <1>10, <1>11, <1>12, <1>15 DEF RunInv

\* The program moves the offset of a file: names and streams stay.
LEMMA SeekKeeps ==
  ASSUME TInv, KInv, NEW fd \in Fds, Seek(fd)
  PROVE  KInv'
<1>1. kfd \in Kfds /\ desc \in DescT /\ table \in Tables /\ source \in [Addrs -> FdSource]
  BY TypeParts DEF TInv
<1>2. /\ UNCHANGED <<kfd, table, source, hook, apart, phase, cur, image, saves, restarts>>
      /\ phase = "run" /\ kfd[fd] # NoDesc /\ desc[kfd[fd]].name \in Files
  BY DEF Seek, tableVars, ckptVars
<1>3. PICK o \in 0 .. MaxOffset : desc' = [desc EXCEPT ![kfd[fd]].off = o]
  BY DEF Seek
<1> SUFFICES ASSUME ~apart PROVE RunInv'
  BY <1>2 DEF KInv
<1>4. RunInv /\ InheritedRoots(source)
  BY <1>2 DEF KInv
<1>5. kfd[fd] \in Descs /\ \A g \in Fds : kfd[g] # NoDesc => kfd[g] \in Descs
  BY <1>1, <1>2 DEF Kfds
<1>6. /\ \A d \in Descs : d # kfd[fd] => desc'[d] = desc[d]
      /\ \A d \in Descs : desc'[d].name = desc[d].name
  BY <1>1, <1>3, <1>5 DEF DescT, Description
<1>7. InStep' = InStep
  BY <1>2 DEF InStep
<1>8. Agree(table, source, kfd, desc', InStep)
  <2> SUFFICES ASSUME NEW g \in InStep, table[g] # Null
               PROVE  EntryFor(source[table[g]], desc'[kfd[g]])
    BY <1>4 DEF RunInv, Agree
  <2>1. g \in Fds /\ kfd[g] # NoDesc /\ EntryFor(source[table[g]], desc[kfd[g]])
    BY <1>4 DEF RunInv, Agree, InStep
  <2>2. kfd[g] \in Descs
    BY <1>5, <2>1
  <2>3. CASE source[table[g]].type = "FD_FILE"
    BY <1>6, <2>1, <2>2, <2>3 DEF EntryFor
  <2>4. CASE source[table[g]].type = "FD_INHERITED"
    <3> DEFINE s == source[table[g]].root
    <3>1. table[g] \in Addrs
      BY <1>1, <2>1 DEF Tables
    <3>2. s \in Std
      BY <1>4, <2>4, <3>1 DEF InheritedRoots
    <3>3. desc[kfd[g]] = [name |-> s, off |-> 0]
      BY <2>1, <2>4 DEF EntryFor
    <3>4. desc[kfd[g]].name = s
      BY <3>3
    <3> HIDE DEF s
    <3>5. kfd[g] # kfd[fd]
      BY <1>2, <3>2, <3>4, Consts
    <3>6. desc'[kfd[g]] = desc[kfd[g]]
      BY <1>6, <2>2, <3>5
    <3> QED
      BY <2>1, <3>6
  <2> QED
    BY <2>1, <2>3, <2>4 DEF EntryFor
<1>9. \A w \in Users : HookAt(hook[w], kfd, desc', table)
  <2> SUFFICES ASSUME NEW w \in Users PROVE HookAt(hook[w], kfd, desc', table)
    OBVIOUS
  <2>1. HookAt(hook[w], kfd, desc, table) /\ hook[w].fd \in Fds
    BY <1>4, TypeParts DEF RunInv, TInv, Hook
  <2>2. kfd[hook[w].fd] # NoDesc => desc'[kfd[hook[w].fd]].name = desc[kfd[hook[w].fd]].name
    BY <1>5, <1>6, <2>1
  <2> QED
    BY <2>1, <2>2 DEF HookAt
<1> QED
  BY <1>2, <1>4, <1>7, <1>8, <1>9 DEF RunInv

\* What the checkpoint saves is what the kernel has.
LEMMA SaveIsGood ==
  ASSUME TInv, KInv, fd_table_save
  PROVE  KInv'
<1>1. /\ kfd \in Kfds /\ desc \in DescT /\ table \in Tables /\ source \in [Addrs -> FdSource]
      /\ saves \in 0 .. MaxSaves
  BY TypeParts DEF TInv
<1> DEFINE i == [table |-> table, source |-> Saved, kfd |-> kfd, desc |-> desc,
                 apart |-> apart \/ Swapped,
                 again |-> IF saves = 0 THEN {}
                           ELSE {a \in Addrs : source[a].state = "FD_STATE_SAVED"}]
<1>2. /\ UNCHANGED <<kfd, desc, table, hook, calls, apart, phase, cur, restarts>>
      /\ saves' = saves + 1 /\ source' = Saved /\ image' = {i}
      /\ phase = "run" /\ \A u \in Users : hook[u] = Idle
  BY DEF fd_table_save, kernelVars
<1>8. /\ i.table = table /\ i.source = Saved /\ i.kfd = kfd /\ i.desc = desc
      /\ i.apart <=> apart \/ Swapped
      /\ i.again = IF saves = 0 THEN {} ELSE {a \in Addrs : source[a].state = "FD_STATE_SAVED"}
  OBVIOUS
<1> HIDE DEF i
<1> SUFFICES ASSUME ~apart
             PROVE  /\ ~Swapped => GoodImage(i)
                    /\ InheritedRoots(Saved) /\ RunInv'
  BY <1>2, <1>8 DEF KInv
<1>4. RunInv /\ InheritedRoots(source)
  BY <1>2 DEF KInv
<1>5. Agree(table, source, kfd, desc, Fds)
  BY <1>2, <1>4, IdleInStep DEF RunInv
<1>6. \A a \in Addrs : SameFile(source[a], Saved[a]) /\ Saved[a].root = source[a].root
  BY SavedTypes DEF TInv, SameFile
<1>7. ASSUME NEW fd \in FileFds(table, source)
      PROVE  /\ Saved[table[fd]].state = "FD_STATE_SAVED"
             /\ table[fd] \notin i.again => Saved[table[fd]].offset = desc[kfd[fd]].off
  <2> DEFINE a == table[fd]
             g == First(Seekable(a))
             x == desc[kfd[g]].off
  <2>1. fd \in Fds /\ a # Null /\ source[a].type = "FD_FILE" /\ a \in Addrs /\ source[a] \in FdSource
    BY <1>1 DEF FileFds, Tables
  <2>2. CASE source[a].state = "FD_STATE_SAVED"
    <3>1. Saved[a] = source[a]
      BY <2>1, <2>2 DEF Saved
    <3>2. saves # 0
      BY <1>4, <2>2 DEF RunInv, NoneSaved
    <3>3. a \in i.again
      BY <1>8, <2>1, <2>2, <3>2
    <3> QED
      BY <2>2, <3>1, <3>3
  <2>3. CASE source[a].state # "FD_STATE_SAVED"
    <3>3. fd \in Seekable(a)
      BY <1>5, <2>1 DEF Seekable, Agree
    <3>4. g \in Fds /\ table[g] = a /\ kfd[g] # NoDesc
      <4>1. Seekable(a) \in SUBSET Fds
        BY DEF Seekable
      <4>2. g \in Seekable(a)
        BY <3>3, <4>1, FirstIs
      <4> QED
        BY <4>2 DEF Seekable
    <3>5. kfd[g] = kfd[fd]
      BY <1>5, <2>1, <3>4 DEF Agree
    <3>6. Saved[a] = SavedAt(source[a], x)
      BY <2>1, <2>3, <3>3 DEF Saved, SavedAt
    <3>7. x \in 0 .. MaxOffset
      BY <1>1, <3>4 DEF Kfds, DescT, Description
    <3> HIDE DEF a, x, g
    <3>8. Saved[a].state = "FD_STATE_SAVED" /\ Saved[a].offset = x
      BY <2>1, <3>6, <3>7, SavedAtIs
    <3> QED
      BY <3>5, <3>8 DEF a, x
  <2> QED
    BY <2>2, <2>3
<1>9. InheritedRoots(Saved)
  BY <1>4, <1>6, RootsKeep DEF SameFile
<1>10. Agree(table, Saved, kfd, desc, Fds)
  <2>1. \A fd \in Fds : table[fd] # Null => SameFile(source[table[fd]], Saved[table[fd]])
    BY <1>1, <1>6 DEF Tables
  <2> QED
    BY <1>5, <2>1, AgreeChange
<1>11. FileFds(table, Saved) = FileFds(table, source)
       /\ InheritedFds(table, Saved) = InheritedFds(table, source)
  <2>1. \A fd \in Fds : table[fd] # Null => Saved[table[fd]].type = source[table[fd]].type
    BY <1>1, <1>6 DEF Tables, SameFile
  <2> QED
    BY <2>1 DEF FileFds, InheritedFds
<1>14. ASSUME ~Swapped PROVE InPlace(table, Saved)
  <2>1. \A fd \in InheritedFds(table, source) :
          fd \in Fds /\ Inherited(fd) /\ table[fd] \in Addrs
    BY <1>1 DEF InheritedFds, Inherited, Tables
  <2>2. InPlace(table, source)
    BY <1>14, <2>1 DEF Swapped, InPlace
  <2>3. \A fd \in InheritedFds(table, source) : Saved[table[fd]].root = source[table[fd]].root
    BY <1>6, <2>1
  <2> QED
    BY <1>11, <2>2, <2>3 DEF InPlace
<1>12. ~Swapped => GoodImage(i)
  BY <1>7, <1>8, <1>9, <1>10, <1>11, <1>14 DEF GoodImage
<1>13. RunInv'
  <2>1. InStep' = Fds
    BY <1>2, IdleInStep DEF InStep
  <2>2. saves' # 0
    BY <1>1, <1>2, Consts
  <2>3. /\ \A u \in Users : HookAt(hook[u], kfd, desc, table)
        /\ \A u, w \in Users : u # w => ~Clash(hook[u], hook[w])
    BY <1>4 DEF RunInv
  <2> QED
    BY <1>2, <1>10, <2>1, <2>2, <2>3 DEF RunInv
<1> QED
  BY <1>9, <1>12, <1>13

-----------------------------------------------------------------------------
(* The restart                                                             *)

\* The table of the image, and the inherited streams.
LEMMA RestartIsGood ==
  ASSUME TInv, KInv, Restart
  PROVE  KInv'
<1>1. image \subseteq ImageT
  BY TypeParts DEF TInv
<1>2. PICK i \in image : table' = i.table /\ source' = i.source /\ apart' = i.apart
  BY DEF Restart
<1>3. \A j \in image : j = i
  BY DEF KInv
<1>4. /\ image' = image /\ phase' = "inherited" /\ cur' = 0 /\ saves' = 0
      /\ kfd' = StdFds(StdDesc) /\ desc' = StdStreams(StdDesc)
      /\ \A u \in Users : hook'[u] = Idle
  BY DEF Restart
<1> SUFFICES ASSUME ~apart' PROVE InheritedRoots(source') /\ RestoreInv'
  BY <1>2, <1>3, <1>4 DEF KInv
<1>13. GoodImage(i)
  BY <1>2 DEF KInv
<1>5. /\ StdDesc \in [Std -> Descs] /\ \A s, t \in Std : s # t => StdDesc[s] # StdDesc[t]
  BY StdIs
<1>6. ASSUME NEW fd \in Std
      PROVE  kfd'[fd] = StdDesc[fd] /\ desc'[StdDesc[fd]] = [name |-> fd, off |-> 0]
  <2>1. kfd'[fd] = StdDesc[fd]
    BY <1>4, Consts DEF StdFds
  <2> DEFINE d == StdDesc[fd]
             s == CHOOSE t \in Std : StdDesc[t] = d
  <2>2. d \in Descs /\ \E t \in Std : StdDesc[t] = d
    BY <1>5
  <2>3. s \in Std /\ StdDesc[s] = d
    BY <2>2
  <2>4. s = fd
    BY <1>5, <2>3
  <2>5. desc'[d] = [name |-> s, off |-> 0]
    BY <1>4, <2>2 DEF StdStreams
  <2> HIDE DEF s
  <2> QED
    BY <2>1, <2>4, <2>5
<1>7. ASSUME NEW fd \in Fds \ Std PROVE kfd'[fd] = NoDesc
  BY <1>4, <1>7 DEF StdFds
<1>8. ASSUME NEW fd \in Fds PROVE ~(fd < 0)
  BY FdsFinite
<1>9. \A fd \in FileFds(table', source') : source'[table'[fd]].state = "FD_STATE_SAVED"
  BY <1>2, <1>13 DEF GoodImage
<1>10. InheritedAt(table', source', kfd', desc', 0)
  <2>1. \A fd \in Fds : kfd'[fd] = IF fd \in Std THEN StdDesc[fd] ELSE NoDesc
    BY <1>6, <1>7
  <2>2. ASSUME NEW fd \in Fds, NEW s \in Std, kfd'[fd] = StdDesc[s]
        PROVE  desc'[StdDesc[s]] = [name |-> s, off |-> 0]
    BY <1>6
  <2> QED
    BY <1>8, <1>9, <2>1, <2>2 DEF InheritedAt
<1>11. SameEntries(i)'
  BY <1>2 DEF SameEntries
<1>12. RestoreInv'
  BY <1>3, <1>4, <1>10, <1>11 DEF RestoreInv
<1> QED
  BY <1>2, <1>12, <1>13 DEF GoodImage

\* What the image says of the descriptors that its table has open.
Matches(i, tab, src) ==
  /\ tab = i.table
  /\ \A fd \in InheritedFds(tab, src) :
       /\ src[tab[fd]].root \in Std
       /\ Meant(i, fd) = [name |-> src[tab[fd]].root, off |-> 0]
  /\ \A fd, g \in InheritedFds(tab, src) :
       tab[fd] = tab[g] <=> src[tab[fd]].root = src[tab[g]].root
  /\ InPlace(tab, src)
  /\ \A fd \in FileFds(tab, src) :
       Meant(i, fd) = [name |-> src[tab[fd]].name, off |-> src[tab[fd]].offset]

\* A good image says that of its own table.
LEMMA ImageMatches ==
  ASSUME TInv, NEW i \in image, GoodImage(i), SameEntries(i)
  PROVE  /\ Matches(i, table, source)
         /\ \A fd \in Fds : table[fd] = Null <=> i.kfd[fd] = NoDesc
         /\ \A fd, g \in Fds : i.table[fd] = i.table[g] <=> i.kfd[fd] = i.kfd[g]
<1>1. /\ table \in Tables /\ source \in [Addrs -> FdSource]
  BY TypeParts DEF TInv
<1>2. i.table = table
  BY DEF SameEntries
<1>3. \A fd \in Fds : table[fd] # Null => table[fd] \in Addrs
  BY <1>1 DEF Tables
<1>4. /\ InheritedFds(table, source) = InheritedFds(i.table, i.source)
      /\ FileFds(table, source) = FileFds(i.table, i.source)
  BY <1>2, <1>3 DEF SameEntries, InheritedFds, FileFds
<1>5. /\ \A fd \in Fds : table[fd] = Null <=> i.kfd[fd] = NoDesc
      /\ \A fd, g \in Fds : i.table[fd] = i.table[g] <=> i.kfd[fd] = i.kfd[g]
  BY <1>2 DEF GoodImage, Agree
<1>6. ASSUME NEW fd \in InheritedFds(table, source)
      PROVE  /\ table[fd] \in Addrs /\ i.source[table[fd]].type = "FD_INHERITED"
             /\ source[table[fd]].type = "FD_INHERITED"
             /\ source[table[fd]].root = i.source[table[fd]].root
             /\ source[table[fd]].root \in Std
             /\ Meant(i, fd) = [name |-> source[table[fd]].root, off |-> 0]
  <2>1. fd \in Fds /\ table[fd] \in Addrs /\ source[table[fd]].type = "FD_INHERITED"
        /\ table[fd] # Null
    BY <1>3 DEF InheritedFds
  <2>2. /\ i.source[table[fd]].type = "FD_INHERITED"
        /\ source[table[fd]].root = i.source[table[fd]].root
    BY <2>1 DEF SameEntries
  <2>3. i.source[table[fd]].root \in Std
    BY <2>1, <2>2 DEF GoodImage, InheritedRoots
  <2> QED
    BY <1>2, <2>1, <2>2, <2>3 DEF Meant
<1>7. ASSUME NEW fd \in InheritedFds(table, source), NEW g \in InheritedFds(table, source)
      PROVE  table[fd] = table[g] <=> source[table[fd]].root = source[table[g]].root
  BY <1>6 DEF GoodImage, InheritedRoots
<1>8. ASSUME NEW fd \in FileFds(table, source)
      PROVE  Meant(i, fd) = [name |-> source[table[fd]].name, off |-> source[table[fd]].offset]
  <2>1. fd \in Fds /\ table[fd] \in Addrs /\ source[table[fd]].type = "FD_FILE" /\ table[fd] # Null
    BY <1>3 DEF FileFds
  <2>2. /\ i.source[table[fd]].type = "FD_FILE"
        /\ source[table[fd]].name = i.source[table[fd]].name
        /\ source[table[fd]].offset = i.source[table[fd]].offset
    BY <2>1 DEF SameEntries
  <2> QED
    BY <1>2, <2>2 DEF Meant
<1>10. InPlace(table, source)
  <2>1. InPlace(table, i.source)
    BY <1>2 DEF GoodImage
  <2> QED
    BY <1>2, <1>4, <1>6, <2>1 DEF InPlace
<1>9. Matches(i, table, source)
  BY <1>2, <1>6, <1>7, <1>8, <1>10 DEF Matches
<1> QED
  BY <1>5, <1>9

\* The first loop at descriptor c.
LEMMA InheritedStep ==
  ASSUME NEW tab, NEW src, NEW k, NEW d, NEW c \in Fds, InheritedAt(tab, src, k, d, c),
         InPlace(tab, src), \A fd \in InheritedFds(tab, src) : src[tab[fd]].root \in Std,
         NEW k2, NEW d2,
         \A fd \in Fds : fd # c => k2[fd] = k[fd],
         c \in InheritedFds(tab, src) => k2[c] = k[src[tab[c]].root],
         c \notin InheritedFds(tab, src) => k2[c] = k[c],
         \A fd \in Fds : k2[fd] \in Descs => d2[k2[fd]] = d[k2[fd]]
  PROVE  InheritedAt(tab, src, k2, d2, c + 1)
<1>1. Std \subseteq Fds /\ Fds \subseteq Nat /\ StdDesc \in [Std -> Descs]
  BY Consts, FdsFinite, StdIs
<1>2. ASSUME c \in InheritedFds(tab, src)
      PROVE  k2[c] = StdDesc[src[tab[c]].root]
  <2> DEFINE r == src[tab[c]].root
  <2>1. r \in Std /\ r \in Fds /\ k2[c] = k[r]
    BY <1>1, <1>2
  <2>2. k[r] = IF r \in InheritedFds(tab, src) /\ r < c THEN StdDesc[src[tab[r]].root]
               ELSE StdDesc[r]
    BY <2>1 DEF InheritedAt
  <2>3. r \in InheritedFds(tab, src) /\ r < c => src[tab[r]].root = r
    BY <1>2 DEF InPlace
  <2> HIDE DEF r
  <2>4. k2[c] = StdDesc[r]
    BY <2>1, <2>2, <2>3
  <2> QED
    BY <2>4 DEF r
<1>3. ASSUME NEW fd \in Fds
      PROVE  k2[fd] = IF fd \in InheritedFds(tab, src) /\ fd < c + 1
                        THEN StdDesc[src[tab[fd]].root]
                      ELSE IF fd \in Std THEN StdDesc[fd] ELSE NoDesc
  <2>1. k[fd] = IF fd \in InheritedFds(tab, src) /\ fd < c THEN StdDesc[src[tab[fd]].root]
                ELSE IF fd \in Std THEN StdDesc[fd] ELSE NoDesc
    BY DEF InheritedAt
  <2>2. fd < c + 1 <=> fd < c \/ fd = c
    BY <1>1
  <2>3. CASE fd # c
    BY <2>1, <2>2, <2>3
  <2>4. CASE fd = c /\ c \in InheritedFds(tab, src)
    BY <1>2, <2>2, <2>4
  <2>5. CASE fd = c /\ c \notin InheritedFds(tab, src)
    BY <2>1, <2>5
  <2> QED
    BY <2>3, <2>4, <2>5
<1>4. ASSUME NEW fd \in Fds, NEW s \in Std, k2[fd] = StdDesc[s]
      PROVE  d2[StdDesc[s]] = [name |-> s, off |-> 0]
  <2>1. \E g \in Fds : k[g] = k2[fd]
    BY <1>1
  <2>2. d[StdDesc[s]] = [name |-> s, off |-> 0]
    BY <1>4, <2>1 DEF InheritedAt
  <2> QED
    BY <1>1, <1>4, <2>2
<1> QED
  BY <1>3, <1>4 DEF InheritedAt

\* After the first loop every inherited descriptor is open as it was.
LEMMA InheritedDone ==
  ASSUME NEW i, NEW tab, NEW src, NEW k, NEW d, InheritedAt(tab, src, k, d, LastFd + 1),
         Matches(i, tab, src)
  PROVE  FilesAt(i, tab, src, k, d, 0)
<1>1. Fds \subseteq Nat /\ \A fd \in Fds : fd < LastFd + 1 /\ ~(fd < 0)
  BY Consts, FdsFinite
<1>2. Passed(tab, src, 0) = InheritedFds(tab, src) /\ InheritedFds(tab, src) \subseteq Fds
  BY <1>1 DEF Passed, InheritedFds, FileFds
<1>3. StdDesc \in [Std -> Descs] /\ \A s, t \in Std : s # t => StdDesc[s] # StdDesc[t]
  BY StdIs
<1>4. ASSUME NEW fd \in InheritedFds(tab, src)
      PROVE  /\ k[fd] = StdDesc[src[tab[fd]].root] /\ src[tab[fd]].root \in Std
             /\ k[fd] # NoDesc /\ d[k[fd]] = Meant(i, fd)
  <2>1. /\ src[tab[fd]].root \in Std
        /\ Meant(i, fd) = [name |-> src[tab[fd]].root, off |-> 0]
    BY DEF Matches
  <2>2. k[fd] = StdDesc[src[tab[fd]].root]
    BY <1>1, <1>2 DEF InheritedAt
  <2>3. d[StdDesc[src[tab[fd]].root]] = [name |-> src[tab[fd]].root, off |-> 0]
    BY <1>2, <2>1, <2>2 DEF InheritedAt
  <2>4. \A s \in Std : StdDesc[s] # NoDesc
    BY <1>3, Consts
  <2> QED
    BY <2>1, <2>2, <2>3, <2>4
<1>5. ASSUME NEW fd \in InheritedFds(tab, src), NEW g \in InheritedFds(tab, src)
      PROVE  i.table[fd] = i.table[g] <=> k[fd] = k[g]
  <2>1. i.table[fd] = i.table[g] <=> src[tab[fd]].root = src[tab[g]].root
    BY DEF Matches
  <2> QED
    BY <1>3, <1>4, <2>1
<1>6. Reopened(i, k, d, Passed(tab, src, 0))
  BY <1>2, <1>4, <1>5 DEF Reopened
<1>7. \A fd \in Fds \ Passed(tab, src, 0) : fd \notin Std => k[fd] = NoDesc
  BY <1>2 DEF InheritedAt
<1>8. \A fd \in FileFds(tab, src) :
        ~(fd < 0) /\ src[tab[fd]].state # "FD_STATE_RESTORED"
  BY <1>1 DEF InheritedAt, FileFds
<1> QED
  BY <1>6, <1>7, <1>8 DEF FilesAt

\* The second loop passes descriptor c: what it opens there is as it was.
LEMMA FilesPass ==
  ASSUME NEW i, NEW tab, NEW src, NEW k, NEW d, NEW c \in Fds, FilesAt(i, tab, src, k, d, c),
         NEW k2, NEW d2,
         \A fd \in Fds : fd # c => k2[fd] = k[fd],
         \A fd \in Fds : fd # c /\ k[fd] # NoDesc => d2[k[fd]] = d[k[fd]],
         c \in FileFds(tab, src),
         k2[c] # NoDesc, d2[k2[c]] = Meant(i, c),
         \A fd \in Passed(tab, src, c) : i.table[fd] = i.table[c] <=> k[fd] = k2[c]
  PROVE  /\ Passed(tab, src, c + 1) = Passed(tab, src, c) \cup {c}
         /\ Reopened(i, k2, d2, Passed(tab, src, c + 1))
         /\ \A fd \in Fds \ Passed(tab, src, c + 1) : fd \notin Std => k2[fd] = NoDesc
<1>1. \A fd \in Fds : fd < c + 1 <=> fd < c \/ fd = c
  BY FdsFinite
<1>2. Passed(tab, src, c + 1) = Passed(tab, src, c) \cup {c} /\ Passed(tab, src, c) \subseteq Fds
  BY <1>1 DEF Passed, FileFds, InheritedFds
<1>3. c \notin Passed(tab, src, c)
  BY FdsFinite DEF Passed, FileFds, InheritedFds
<1>4. Reopened(i, k, d, Passed(tab, src, c))
  BY DEF FilesAt
<1>5. ASSUME NEW fd \in Passed(tab, src, c)
      PROVE  k2[fd] = k[fd] /\ k2[fd] # NoDesc /\ d2[k2[fd]] = Meant(i, fd)
  BY <1>2, <1>3, <1>4 DEF Reopened
<1>6. Reopened(i, k2, d2, Passed(tab, src, c + 1))
  <2> DEFINE S == Passed(tab, src, c)
  <2>1. \A fd \in S \cup {c} : k2[fd] # NoDesc /\ d2[k2[fd]] = Meant(i, fd)
    BY <1>5
  <2>2. \A fd, g \in S : i.table[fd] = i.table[g] <=> k2[fd] = k2[g]
    BY <1>4, <1>5 DEF Reopened
  <2>3. \A fd \in S : i.table[fd] = i.table[c] <=> k2[fd] = k2[c]
    BY <1>5
  <2> HIDE DEF S
  <2>4. \A fd, g \in S \cup {c} : i.table[fd] = i.table[g] <=> k2[fd] = k2[g]
    BY <2>2, <2>3
  <2> QED
    BY <1>2, <2>1, <2>4 DEF Reopened, S
<1>7. \A fd \in Fds \ Passed(tab, src, c + 1) : fd \notin Std => k2[fd] = NoDesc
  BY <1>2 DEF FilesAt
<1> QED
  BY <1>2, <1>6, <1>7

\* file_restore: a description of its own, at the saved offset.
LEMMA FilesOpen ==
  ASSUME NEW i, NEW tab, NEW src \in [Addrs -> FdSource], NEW k, NEW d, NEW c \in Fds,
         FilesAt(i, tab, src, k, d, c), Matches(i, tab, src),
         NEW k2, NEW d2, NEW src2, tab \in Tables,
         \A fd \in Fds : fd # c => k2[fd] = k[fd],
         \A fd \in Fds : fd # c /\ k[fd] # NoDesc => d2[k[fd]] = d[k[fd]],
         c \in FileFds(tab, src), src[tab[c]].state # "FD_STATE_RESTORED",
         k2[c] # NoDesc, d2[k2[c]] = Meant(i, c),
         \A fd \in Fds : k[fd] # k2[c],
         src2[tab[c]] = BackAt(src[tab[c]], c), \A a \in Addrs : a # tab[c] => src2[a] = src[a]
  PROVE  FilesAt(i, tab, src2, k2, d2, c + 1)
<1>1. \A fd \in Fds : fd < c + 1 <=> fd < c \/ fd = c
  BY FdsFinite
<1>2. i.table = tab
  BY DEF Matches
<1>3. ASSUME NEW fd \in Passed(tab, src, c)
      PROVE  i.table[fd] # i.table[c] /\ k[fd] # k2[c]
  <2>1. fd \in Fds
    BY DEF Passed, InheritedFds, FileFds
  <2>2. tab[fd] # tab[c]
    <3>1. CASE fd \in InheritedFds(tab, src)
      BY <3>1 DEF InheritedFds, FileFds
    <3>2. CASE fd \in FileFds(tab, src) /\ fd < c
      BY <3>2 DEF FilesAt
    <3> QED
      BY <3>1, <3>2 DEF Passed
  <2> QED
    BY <1>2, <2>1, <2>2
<1>4. /\ Reopened(i, k2, d2, Passed(tab, src, c + 1))
      /\ \A fd \in Fds \ Passed(tab, src, c + 1) : fd \notin Std => k2[fd] = NoDesc
  BY <1>2, <1>3, FilesPass
<1>5. tab[c] \in Addrs /\ src[tab[c]] \in FdSource /\ src[tab[c]].type = "FD_FILE"
  BY DEF FileFds, Tables
<1> DEFINE w == BackAt(src[tab[c]], c)
<1>6. w.type = "FD_FILE" /\ w.root = c /\ w.state = "FD_STATE_RESTORED"
  BY <1>5, BackAtIs
<1>7. src2[tab[c]] = w /\ \A a \in Addrs : a # tab[c] => src2[a] = src[a]
  OBVIOUS
<1> HIDE DEF w
<1>8. \A fd \in Fds : tab[fd] # Null => tab[fd] \in Addrs /\ src2[tab[fd]].type = src[tab[fd]].type
  BY <1>5, <1>6, <1>7 DEF Tables
<1>9. FileFds(tab, src2) = FileFds(tab, src) /\ InheritedFds(tab, src2) = InheritedFds(tab, src)
  BY <1>8 DEF FileFds, InheritedFds
<1>10. Passed(tab, src2, c + 1) = Passed(tab, src, c + 1)
  BY <1>9 DEF Passed
<1>11. ASSUME NEW fd \in FileFds(tab, src2), fd < c + 1
       PROVE  src2[tab[fd]].state = "FD_STATE_RESTORED"
  <2>1. fd \in FileFds(tab, src) /\ fd \in Fds /\ tab[fd] \in Addrs
    BY <1>8, <1>9 DEF FileFds
  <2>2. CASE tab[fd] = tab[c]
    BY <1>6, <1>7, <2>2
  <2>3. CASE tab[fd] # tab[c]
    <3>1. fd < c
      BY <1>1, <1>11, <2>1, <2>3
    <3> QED
      BY <1>7, <2>1, <2>3, <3>1 DEF FilesAt
  <2> QED
    BY <2>2, <2>3
<1>12. ASSUME NEW fd \in FileFds(tab, src2), src2[tab[fd]].state = "FD_STATE_RESTORED"
       PROVE  src2[tab[fd]].root < c + 1 /\ tab[src2[tab[fd]].root] = tab[fd]
  <2>1. fd \in FileFds(tab, src) /\ fd \in Fds /\ tab[fd] \in Addrs
    BY <1>8, <1>9 DEF FileFds
  <2>2. CASE tab[fd] = tab[c]
    BY <1>1, <1>6, <1>7, <2>2
  <2>3. CASE tab[fd] # tab[c]
    <3>1. src2[tab[fd]] = src[tab[fd]]
      BY <1>7, <2>1, <2>3
    <3>2. src[tab[fd]].root < c /\ tab[src[tab[fd]].root] = tab[fd]
      BY <1>12, <2>1, <3>1 DEF FilesAt
    <3>3. src[tab[fd]].root \in Fds
      BY <2>1, Entry
    <3> QED
      BY <1>1, <3>1, <3>2, <3>3
  <2> QED
    BY <2>2, <2>3
<1> QED
  BY <1>4, <1>9, <1>10, <1>11, <1>12 DEF FilesAt

\* A second descriptor of an entry: a copy of the first.
LEMMA FilesCopy ==
  ASSUME NEW i, NEW tab, NEW src \in [Addrs -> FdSource], NEW k, NEW d, NEW c \in Fds,
         FilesAt(i, tab, src, k, d, c), Matches(i, tab, src), tab \in Tables,
         NEW k2, NEW d2,
         \A fd \in Fds : fd # c => k2[fd] = k[fd],
         \A fd \in Fds : fd # c /\ k[fd] # NoDesc => d2[k[fd]] = d[k[fd]],
         c \in FileFds(tab, src), src[tab[c]].state = "FD_STATE_RESTORED",
         k2[c] = k[src[tab[c]].root]
  PROVE  FilesAt(i, tab, src, k2, d2, c + 1)
<1>1. \A fd \in Fds : fd < c + 1 <=> fd < c \/ fd = c
  BY FdsFinite
<1> DEFINE r == src[tab[c]].root
<1>2. tab[c] \in Addrs /\ tab[c] # Null /\ src[tab[c]].type = "FD_FILE"
  BY DEF FileFds, Tables
<1>3. r \in Fds
  BY <1>2, Entry
<1>4. r < c /\ tab[r] = tab[c]
  BY DEF FilesAt
<1>5. r # c /\ k2[c] = k[r]
  BY <1>3, <1>4, FdsFinite
<1> HIDE DEF r
<1>6. r \in FileFds(tab, src) /\ r \in Passed(tab, src, c)
  BY <1>2, <1>3, <1>4 DEF FileFds, Passed
<1>7. /\ k[r] # NoDesc /\ d[k[r]] = Meant(i, r)
      /\ \A fd \in Passed(tab, src, c) : i.table[fd] = i.table[r] <=> k[fd] = k[r]
  BY <1>6 DEF FilesAt, Reopened
<1>8. i.table = tab /\ Meant(i, r) = Meant(i, c)
  <2> DEFINE F(a) == [name |-> src[a].name, off |-> src[a].offset]
  <2>1. Meant(i, r) = F(tab[r]) /\ Meant(i, c) = F(tab[c])
    BY <1>6 DEF Matches
  <2> HIDE DEF F
  <2>2. i.table = tab
    BY DEF Matches
  <2> QED
    BY <1>4, <2>1, <2>2
<1>9. d2[k[r]] = d[k[r]]
  BY <1>3, <1>5, <1>7
<1>10. /\ Passed(tab, src, c + 1) = Passed(tab, src, c) \cup {c}
       /\ Reopened(i, k2, d2, Passed(tab, src, c + 1))
       /\ \A fd \in Fds \ Passed(tab, src, c + 1) : fd \notin Std => k2[fd] = NoDesc
  <2>1. \A fd \in Passed(tab, src, c) : i.table[fd] = i.table[c] <=> k[fd] = k2[c]
    BY <1>4, <1>5, <1>7, <1>8
  <2>2. k2[c] # NoDesc /\ d2[k2[c]] = Meant(i, c)
    BY <1>5, <1>7, <1>8, <1>9
  <2> QED
    BY <2>1, <2>2, FilesPass
<1>11. ASSUME NEW fd \in FileFds(tab, src), fd < c + 1
       PROVE  src[tab[fd]].state = "FD_STATE_RESTORED"
  <2>1. fd \in Fds
    BY DEF FileFds
  <2> QED
    BY <1>1, <1>11, <2>1 DEF FilesAt
<1>12. ASSUME NEW fd \in FileFds(tab, src), src[tab[fd]].state = "FD_STATE_RESTORED"
       PROVE  src[tab[fd]].root < c + 1 /\ tab[src[tab[fd]].root] = tab[fd]
  <2>1. fd \in Fds /\ tab[fd] \in Addrs
    BY DEF FileFds, Tables
  <2>2. src[tab[fd]].root \in Fds
    BY <2>1, Entry
  <2>3. src[tab[fd]].root < c /\ tab[src[tab[fd]].root] = tab[fd]
    BY <1>12 DEF FilesAt
  <2> QED
    BY <1>1, <2>2, <2>3
<1> QED
  BY <1>10, <1>11, <1>12 DEF FilesAt

\* Descriptors of no file are passed over.
LEMMA FilesSkip ==
  ASSUME NEW i, NEW tab \in Tables, NEW src \in [Addrs -> FdSource], NEW k, NEW d, NEW c \in Fds,
         FilesAt(i, tab, src, k, d, c), c \notin FileFds(tab, src)
  PROVE  FilesAt(i, tab, src, k, d, c + 1)
<1>1. \A fd \in Fds : fd < c + 1 <=> fd < c \/ fd = c
  BY FdsFinite
<1>2. \A fd \in FileFds(tab, src) : fd \in Fds /\ (fd < c + 1 <=> fd < c)
  BY <1>1 DEF FileFds
<1>3. Passed(tab, src, c + 1) = Passed(tab, src, c)
  BY <1>2 DEF Passed
<1>4. \A fd \in FileFds(tab, src) : src[tab[fd]].root \in Fds
  BY Entry DEF FileFds, Tables
<1> QED
  BY <1>1, <1>2, <1>3, <1>4 DEF FilesAt

\* Where a loop of fd_table_restore is after descriptor cur.
LEMMA LoopGoesOn ==
  ASSUME cur \in Fds, NEW next, Advance(next)
  PROVE  /\ cur # LastFd => cur' = cur + 1 /\ phase' = phase
         /\ cur = LastFd => cur' = 0 /\ phase' = next
         /\ UNCHANGED <<table, hook, apart, image, saves, restarts>>
BY DEF Advance

\* The slots by the type of their entry.
LEMMA SlotTypes ==
  ASSUME TInv, NEW fd \in Fds
  PROVE  /\ Type(fd) = "FD_INHERITED" <=> fd \in InheritedFds(table, source)
         /\ Type(fd) = "FD_FILE" <=> fd \in FileFds(table, source)
<1>1. table \in Tables /\ source \in [Addrs -> FdSource]
  BY TypeParts DEF TInv
<1> QED
  BY <1>1, TypeIs DEF InheritedFds, FileFds

\* What the process restores, and from which image.
LEMMA Restoring ==
  ASSUME TInv, KInv, ~apart, phase # "run"
  PROVE  \E i : /\ image = {i} /\ GoodImage(i) /\ SameEntries(i) /\ Matches(i, table, source)
                /\ \A fd \in Fds : table[fd] = Null <=> i.kfd[fd] = NoDesc
                /\ \A fd, g \in Fds : i.table[fd] = i.table[g] <=> i.kfd[fd] = i.kfd[g]
<1>1. /\ RestoreInv /\ image # {} /\ \A i, j \in image : i = j
      /\ \A i \in image : GoodImage(i)
  BY DEF KInv
<1>2. PICK i \in image : GoodImage(i) /\ SameEntries(i)
  BY <1>1 DEF RestoreInv
<1>3. image = {i}
  BY <1>1, <1>2
<1> QED
  BY <1>2, <1>3, ImageMatches

\* Nothing is promised of a table that came apart from the kernel.
LEMMA RestoreApart ==
  ASSUME KInv, apart, phase # "run", UNCHANGED <<hook, apart, image, saves>>
  PROVE  KInv'
BY DEF KInv

\* RestoreInv, of a process whose image and hooks stay.
LEMMA RestoreInvAgain ==
  ASSUME KInv, ~apart, phase # "run", UNCHANGED <<table, hook, apart, image, saves>>,
         \A i \in image : SameEntries(i)',
         phase' # "run",
         phase' = "inherited" => InheritedAt(table', source', kfd', desc', cur'),
         phase' = "files" => \A i \in image : FilesAt(i, table', source', kfd', desc', cur'),
         phase' \in {"std", "restored"} =>
           \A i \in image : FilesAt(i, table', source', kfd', desc', LastFd + 1),
         phase' = "restored" => \A fd \in Fds : table[fd] = Null => kfd'[fd] = NoDesc,
         InheritedRoots(source')
  PROVE  KInv'
<1>1. RestoreInv'
  BY DEF RestoreInv, FilesInv
<1> QED
  BY <1>1 DEF KInv

\* The first loop, as a step of the process.
LEMMA InheritedKeeps ==
  ASSUME TInv, KInv, ~apart, RestoreInherited
  PROVE  KInv'
<1>1. /\ kfd \in Kfds /\ desc \in DescT /\ table \in Tables /\ source \in [Addrs -> FdSource]
      /\ cur \in Fds
  BY TypeParts DEF TInv
<1>2. phase = "inherited" /\ Advance("files") /\ source' = source
  BY DEF RestoreInherited
<1>3. InheritedAt(table, source, kfd, desc, cur) /\ InheritedRoots(source)
  BY <1>2 DEF KInv, RestoreInv
<1>4. PICK i : image = {i} /\ SameEntries(i) /\ Matches(i, table, source)
  BY <1>2, Restoring
<1>5. /\ InPlace(table, source)
      /\ \A fd \in InheritedFds(table, source) : source[table[fd]].root \in Std
  BY <1>4 DEF Matches
<1>7. InheritedAt(table, source, kfd', desc', cur + 1)
  <2>1. CASE cur \in InheritedFds(table, source)
    <3> DEFINE r == source[table[cur]].root
               k == [kfd EXCEPT ![cur] = kfd[r]]
    <3>1. Type(cur) = "FD_INHERITED"
      BY <1>1, <2>1, SlotTypes
    <3>2. Kernel(k, desc)
      BY <3>1 DEF RestoreInherited
    <3>3. r \in Std /\ r \in Fds
      BY <1>5, <2>1, Consts
    <3>5. k \in Kfds /\ k[cur] = kfd[r] /\ \A fd \in Fds : fd # cur => k[fd] = kfd[fd]
      BY <1>1, <3>3 DEF Kfds
    <3> HIDE DEF k
    <3>6. kfd' = k /\ \A fd \in Fds : k[fd] \in Descs => desc'[k[fd]] = desc[k[fd]]
      BY <1>1, <3>2, <3>5, KernelIs
    <3> QED
      BY <1>1, <1>3, <1>5, <2>1, <3>5, <3>6, InheritedStep
  <2>2. CASE cur \notin InheritedFds(table, source)
    <3>1. Type(cur) # "FD_INHERITED"
      BY <1>1, <2>2, SlotTypes
    <3>2. kfd' = kfd /\ desc' = desc
      BY <3>1 DEF RestoreInherited, kernelVars
    <3> QED
      BY <1>1, <1>3, <1>5, <2>2, <3>2, InheritedStep
  <2> QED
    BY <2>1, <2>2
<1>8. /\ cur # LastFd => cur' = cur + 1 /\ phase' = phase
      /\ cur = LastFd => cur' = 0 /\ phase' = "files"
      /\ UNCHANGED <<table, hook, apart, image, saves, restarts>>
  BY <1>1, <1>2, LoopGoesOn
<1>9. SameEntries(i)'
  BY <1>2, <1>4, <1>8 DEF SameEntries
<1>10. cur = LastFd => FilesAt(i, table, source, kfd', desc', 0)
  BY <1>4, <1>7, InheritedDone
<1> QED
  BY <1>2, <1>3, <1>4, <1>7, <1>8, <1>9, <1>10, RestoreInvAgain

\* One descriptor of the second loop.
LEMMA FilesKeeps ==
  ASSUME TInv, KInv, ~apart, file_restore \/ RestoreCopy \/ RestoreSkip
  PROVE  KInv'
<1>1. /\ kfd \in Kfds /\ desc \in DescT /\ table \in Tables /\ source \in [Addrs -> FdSource]
      /\ cur \in Fds
  BY TypeParts DEF TInv
<1>2. phase = "files" /\ Advance("std")
  BY DEF file_restore, RestoreCopy, RestoreSkip
<1>3. PICK i : image = {i} /\ GoodImage(i) /\ SameEntries(i) /\ Matches(i, table, source)
  BY <1>2, Restoring
<1>4. FilesAt(i, table, source, kfd, desc, cur) /\ InheritedRoots(source)
  BY <1>2, <1>3 DEF KInv, RestoreInv, FilesInv
<1>5. /\ cur # LastFd => cur' = cur + 1 /\ phase' = phase
      /\ cur = LastFd => cur' = 0 /\ phase' = "std"
      /\ UNCHANGED <<table, hook, apart, image, saves, restarts>>
  BY <1>1, <1>2, LoopGoesOn
<1>6. \A fd \in Fds : kfd[fd] # NoDesc => kfd[fd] \in Descs
  BY <1>1 DEF Kfds
<1>7. /\ FilesAt(i, table, source', kfd', desc', cur + 1)
      /\ SameEntries(i)' /\ InheritedRoots(source')
  <2>1. CASE file_restore
    <3> DEFINE e == source[table[cur]]
               x == [name |-> e.name, off |-> e.offset]
    <3>1. /\ Type(cur) = "FD_FILE" /\ e.state # "FD_STATE_RESTORED"
          /\ Open(cur, e.name, e.offset)
          /\ source' = [source EXCEPT ![table[cur]] = BackAt(source[table[cur]], cur)]
      BY <2>1 DEF file_restore, BackAt
    <3>2. cur \in FileFds(table, source) /\ table[cur] \in Addrs /\ e \in FdSource
      BY <1>1, <3>1, SlotTypes, TypeIs
    <3>3. e.name \in Name /\ e.offset \in 0 .. MaxOffset /\ e.type = "FD_FILE"
      BY <3>2, Entry DEF FileFds
    <3>4. /\ \E y \in Descs : /\ kfd' = [kfd EXCEPT ![cur] = y] /\ desc'[y] = x
                              /\ \A g \in Fds : kfd[g] # y
          /\ \A g \in Fds : g # cur /\ kfd[g] \in Descs => desc'[kfd[g]] = desc[kfd[g]]
      BY <1>1, <3>1, <3>3, OpenIs
    <3> HIDE DEF x
    <3>5. PICK y \in Descs : /\ kfd' = [kfd EXCEPT ![cur] = y] /\ desc'[y] = x
                             /\ \A g \in Fds : kfd[g] # y
      BY <3>4
    <3>6. kfd'[cur] = y /\ \A g \in Fds : g # cur => kfd'[g] = kfd[g]
      BY <1>1, <3>5 DEF Kfds
    <3>7. y # NoDesc
      BY Consts
    <3>8. \A g \in Fds : g # cur /\ kfd[g] # NoDesc => desc'[kfd[g]] = desc[kfd[g]]
      BY <1>6, <3>4
    <3> DEFINE w == BackAt(source[table[cur]], cur)
    <3>9. w.type = e.type /\ w.name = e.name /\ w.offset = e.offset
      BY <1>1, <3>2, BackAtIs
    <3>10. source' = [source EXCEPT ![table[cur]] = w]
      BY <3>1
    <3> HIDE DEF w
    <3>11. source'[table[cur]] = w /\ \A a \in Addrs : a # table[cur] => source'[a] = source[a]
      BY <1>1, <3>2, <3>10
    <3>12. \A a \in Addrs : /\ source'[a].type = source[a].type /\ source'[a].name = source[a].name
                            /\ source'[a].offset = source[a].offset
                            /\ source[a].type = "FD_INHERITED" => source'[a].root = source[a].root
      BY <3>3, <3>9, <3>11
    <3>13. FilesAt(i, table, source', kfd', desc', cur + 1)
      <4>1. x = Meant(i, cur)
        BY <1>3, <3>2 DEF Matches, x
      <4>2. source[table[cur]].state # "FD_STATE_RESTORED"
        BY <3>1
      <4>3. source'[table[cur]] = BackAt(source[table[cur]], cur)
        BY <3>11 DEF w
      <4>4. desc'[kfd'[cur]] = Meant(i, cur) /\ kfd'[cur] # NoDesc
        BY <3>5, <3>6, <3>7, <4>1
      <4>5. \A g \in Fds : kfd[g] # kfd'[cur]
        BY <3>5, <3>6
      <4> QED
        BY <1>1, <1>3, <1>4, <3>2, <3>6, <3>8, <3>11, <4>2, <4>3, <4>4, <4>5, FilesOpen
    <3>14. SameEntries(i)'
      BY <1>3, <1>5, <3>12 DEF SameEntries
    <3>15. InheritedRoots(source')
      BY <1>4, <3>12, RootsKeep
    <3> QED
      BY <3>13, <3>14, <3>15
  <2>2. CASE RestoreCopy
    <3> DEFINE r == source[table[cur]].root
               k == [kfd EXCEPT ![cur] = kfd[r]]
    <3>1. /\ Type(cur) = "FD_FILE" /\ source[table[cur]].state = "FD_STATE_RESTORED"
          /\ Kernel(k, desc) /\ source' = source
      BY <2>2 DEF RestoreCopy
    <3>2. cur \in FileFds(table, source) /\ source[table[cur]] \in FdSource
      BY <1>1, <3>1, SlotTypes, TypeIs
    <3>3. r \in Fds
      BY <3>2, Entry
    <3>4. k \in Kfds /\ k[cur] = kfd[r] /\ \A fd \in Fds : fd # cur => k[fd] = kfd[fd]
      BY <1>1, <3>3 DEF Kfds
    <3> HIDE DEF k
    <3>5. kfd' = k /\ \A fd \in Fds : k[fd] \in Descs => desc'[k[fd]] = desc[k[fd]]
      BY <1>1, <3>1, <3>4, KernelIs
    <3>6. \A g \in Fds : g # cur /\ kfd[g] # NoDesc => desc'[kfd[g]] = desc[kfd[g]]
      BY <1>6, <3>4, <3>5
    <3>7. FilesAt(i, table, source, k, desc', cur + 1)
      BY <1>1, <1>3, <1>4, <3>1, <3>2, <3>4, <3>6, FilesCopy
    <3> QED
      BY <1>3, <1>4, <1>5, <3>1, <3>5, <3>7 DEF SameEntries
  <2>3. CASE RestoreSkip
    <3>1. Type(cur) # "FD_FILE" /\ kfd' = kfd /\ desc' = desc /\ source' = source
      BY <2>3 DEF RestoreSkip, kernelVars
    <3>2. cur \notin FileFds(table, source)
      BY <1>1, <3>1, SlotTypes
    <3>3. FilesAt(i, table, source, kfd, desc, cur + 1)
      BY <1>1, <1>4, <3>2, FilesSkip
    <3> QED
      BY <1>3, <1>4, <1>5, <3>1, <3>3 DEF SameEntries
  <2> QED
    BY <2>1, <2>2, <2>3
<1> QED
  BY <1>2, <1>3, <1>5, <1>7, RestoreInvAgain

\* Inherited descriptors that the program had closed are closed again.
LEMMA StdKeeps ==
  ASSUME IInv, TInv, KInv, ~apart, RestoreStd
  PROVE  KInv'
<1>1. /\ kfd \in Kfds /\ desc \in DescT /\ table \in Tables /\ source \in [Addrs -> FdSource]
  BY TypeParts DEF TInv
<1> DEFINE k == [fd \in Fds |-> IF fd \in Std /\ table[fd] = Null THEN NoDesc ELSE kfd[fd]]
<1>2. /\ phase = "std" /\ Kernel(k, desc) /\ phase' = "restored"
      /\ UNCHANGED <<table, source, hook, apart, cur, image, saves, restarts>>
  BY DEF RestoreStd, tableVars
<1>3. PICK i : image = {i} /\ GoodImage(i) /\ SameEntries(i) /\ Matches(i, table, source)
  BY <1>2, Restoring
<1>4. FilesAt(i, table, source, kfd, desc, LastFd + 1) /\ InheritedRoots(source)
  BY <1>2, <1>3 DEF KInv, RestoreInv, FilesInv
<1>5. k \in Kfds /\ \A fd \in Fds : k[fd] = IF fd \in Std /\ table[fd] = Null THEN NoDesc ELSE kfd[fd]
  BY <1>1 DEF Kfds
<1> HIDE DEF k
<1>6. kfd' = k /\ \A fd \in Fds : k[fd] \in Descs => desc'[k[fd]] = desc[k[fd]]
  BY <1>1, <1>2, <1>5, KernelIs
<1> DEFINE S == Passed(table, source, LastFd + 1)
<1>7. \A fd \in S : fd \in Fds /\ table[fd] # Null
  BY DEF Passed, InheritedFds, FileFds
<1>8. \A fd \in S : k[fd] = kfd[fd] /\ (k[fd] # NoDesc => desc'[k[fd]] = desc[k[fd]])
  BY <1>1, <1>5, <1>6, <1>7 DEF Kfds
<1>9. Reopened(i, kfd, desc, S) /\ \A fd \in Fds \ S : fd \notin Std => kfd[fd] = NoDesc
  BY <1>4 DEF FilesAt
<1> HIDE DEF S
<1>10. Reopened(i, k, desc', S)
  BY <1>8, <1>9 DEF Reopened
<1>11. \A fd \in Fds \ S : fd \notin Std => k[fd] = NoDesc
  BY <1>5, <1>9
<1>12. FilesAt(i, table, source, k, desc', LastFd + 1)
  BY <1>4, <1>10, <1>11 DEF FilesAt, S
<1>13. \A fd \in Fds : table[fd] = Null => k[fd] = NoDesc
  BY <1>5, <1>7, <1>9
<1>14. SameEntries(i)'
  BY <1>2, <1>3 DEF SameEntries
<1> QED
  BY <1>2, <1>3, <1>4, <1>6, <1>12, <1>13, <1>14, RestoreInvAgain

\* Once the loops are through, the kernel has what the image says.
LEMMA AllReopened ==
  ASSUME IInv, TInv, KInv, ~apart, phase = "restored", NEW i \in image
  PROVE  /\ GoodImage(i) /\ SameEntries(i)
         /\ \A fd \in Fds : kfd[fd] = NoDesc <=> table[fd] = Null
         /\ \A fd \in Fds : kfd[fd] = NoDesc <=> i.kfd[fd] = NoDesc
         /\ \A fd \in Fds : kfd[fd] # NoDesc => desc[kfd[fd]] = Meant(i, fd)
         /\ \A fd, g \in Fds : kfd[fd] = kfd[g] <=> i.table[fd] = i.table[g]
         /\ \A fd, g \in Fds : kfd[fd] = kfd[g] <=> i.kfd[fd] = i.kfd[g]
         /\ NoneSaved(table, source)
<1>1. /\ GoodImage(i) /\ SameEntries(i) /\ i.table = table
      /\ \A fd \in Fds : table[fd] = Null <=> i.kfd[fd] = NoDesc
      /\ \A fd, g \in Fds : i.table[fd] = i.table[g] <=> i.kfd[fd] = i.kfd[g]
  <2>1. PICK j : /\ image = {j} /\ GoodImage(j) /\ SameEntries(j)
                 /\ \A fd \in Fds : table[fd] = Null <=> j.kfd[fd] = NoDesc
                 /\ \A fd, g \in Fds : j.table[fd] = j.table[g] <=> j.kfd[fd] = j.kfd[g]
    BY Restoring
  <2>2. i = j
    BY <2>1
  <2> QED
    BY <2>1, <2>2 DEF SameEntries
<1>2. /\ FilesAt(i, table, source, kfd, desc, LastFd + 1)
      /\ \A fd \in Fds : table[fd] = Null => kfd[fd] = NoDesc
  BY DEF KInv, RestoreInv, FilesInv
<1>3. \A fd \in Fds : fd < LastFd + 1
  BY Consts
<1>4. ASSUME NEW fd \in Fds, table[fd] # Null
      PROVE  fd \in Passed(table, source, LastFd + 1)
  <2>1. table[fd] \in Addrs /\ source[table[fd]] \in FdSource
    BY <1>4, TypeParts DEF TInv, Tables
  <2>2. source[table[fd]].type \in {"FD_INHERITED", "FD_FILE"}
    BY <1>4, <2>1, Entry, Referenced
  <2> QED
    BY <1>3, <1>4, <2>2 DEF Passed, InheritedFds, FileFds
<1>5. ASSUME NEW fd \in Fds, table[fd] # Null
      PROVE  kfd[fd] # NoDesc /\ desc[kfd[fd]] = Meant(i, fd)
  BY <1>2, <1>4, <1>5 DEF FilesAt, Reopened
<1>6. ASSUME NEW fd \in Fds, NEW g \in Fds
      PROVE  kfd[fd] = kfd[g] <=> i.table[fd] = i.table[g]
  <2>1. CASE table[fd] # Null /\ table[g] # Null
    BY <1>2, <1>4, <2>1 DEF FilesAt, Reopened
  <2>2. CASE table[fd] = Null \/ table[g] = Null
    BY <1>1, <1>2, <1>5, <2>2
  <2> QED
    BY <2>1, <2>2
<1>7. NoneSaved(table, source)
  BY <1>2, <1>3 DEF NoneSaved, FilesAt, FileFds
<1> QED
  BY <1>1, <1>2, <1>5, <1>6, <1>7

\* What a good image says of a descriptor is what the kernel had.
LEMMA MeantIs ==
  ASSUME NEW i, GoodImage(i), NEW fd \in Fds, i.table[fd] # Null
  PROVE  /\ EntryFor(i.source[i.table[fd]], Meant(i, fd))
         /\ Meant(i, fd).name = i.desc[i.kfd[fd]].name
         /\ i.table[fd] \notin i.again => Meant(i, fd).off = i.desc[i.kfd[fd]].off
<1> DEFINE e == i.source[i.table[fd]]
           x == i.desc[i.kfd[fd]]
<1>1. EntryFor(e, x)
  BY DEF GoodImage, Agree
<1>2. e.type = "FD_FILE" => fd \in FileFds(i.table, i.source)
  BY DEF FileFds
<1>3. e.type = "FD_FILE" /\ i.table[fd] \notin i.again => e.offset = x.off
  BY <1>2 DEF GoodImage
<1>4. Meant(i, fd) = IF e.type = "FD_FILE" THEN [name |-> e.name, off |-> e.offset]
                     ELSE [name |-> e.root, off |-> 0]
  BY DEF Meant
<1> HIDE DEF e, x
<1>5. CASE e.type = "FD_FILE"
  BY <1>1, <1>3, <1>4, <1>5 DEF EntryFor, e, x
<1>6. CASE e.type # "FD_FILE"
  BY <1>1, <1>4, <1>6 DEF EntryFor, e, x
<1> QED
  BY <1>5, <1>6

\* The program goes on with a table that agrees with the kernel.
LEMMA ResumeKeeps ==
  ASSUME IInv, TInv, KInv, ~apart, Resume
  PROVE  KInv'
<1>1. /\ phase = "restored" /\ phase' = "run"
      /\ UNCHANGED <<kfd, desc, table, source, hook, apart, cur, image, saves, restarts>>
  BY DEF Resume, kernelVars, tableVars
<1>2. /\ RestoreInv /\ InheritedRoots(source) /\ image # {}
      /\ \A u \in Users : hook[u] = Idle
  BY <1>1 DEF KInv
<1>3. PICK i \in image : TRUE
  BY <1>2
<1>4. /\ GoodImage(i) /\ SameEntries(i)
      /\ \A fd \in Fds : kfd[fd] = NoDesc <=> table[fd] = Null
      /\ \A fd \in Fds : kfd[fd] # NoDesc => desc[kfd[fd]] = Meant(i, fd)
      /\ \A fd, g \in Fds : kfd[fd] = kfd[g] <=> i.table[fd] = i.table[g]
      /\ NoneSaved(table, source)
  BY <1>1, AllReopened
<1>5. Agree(table, source, kfd, desc, Fds)
  <2>1. ASSUME NEW fd \in Fds, table[fd] # Null
        PROVE  EntryFor(source[table[fd]], desc[kfd[fd]])
    <3>1. i.table = table /\ table[fd] \in Addrs
      BY <1>4, <2>1, TypeParts DEF TInv, Tables, SameEntries
    <3>2. EntryFor(i.source[table[fd]], desc[kfd[fd]])
      BY <1>4, <2>1, <3>1, MeantIs
    <3> QED
      BY <1>4, <3>1, <3>2 DEF SameEntries, EntryFor
  <2>2. i.table = table
    BY <1>4 DEF SameEntries
  <2> QED
    BY <1>4, <2>1, <2>2 DEF Agree
<1>6. /\ \A u \in Users : HookAt(hook[u], kfd, desc, table)
      /\ \A u, w \in Users : ~Clash(hook[u], hook[w])
  BY <1>2, Records DEF HookAt, Clash, Changes
<1>7. RunInv'
  <2>1. InStep' = Fds
    BY <1>1, <1>2, IdleInStep DEF InStep
  <2> QED
    BY <1>1, <1>4, <1>5, <1>6, <2>1 DEF RunInv
<1> QED
  BY <1>1, <1>2, <1>7 DEF KInv

\* At launch kernel and table agree.
LEMMA InitAgrees == Init => KInv
<1> SUFFICES ASSUME Init PROVE KInv
  OBVIOUS
<1>1. PICK f \in [Std -> Addrs] :
        /\ \A i, j \in Std : i # j => f[i] # f[j]
        /\ table = [fd \in Fds |-> IF fd \in Std THEN f[fd] ELSE Null]
        /\ source = [a \in Addrs |->
                      IF \E i \in Std : f[i] = a
                        THEN [Unused EXCEPT !.type = "FD_INHERITED", !.ref = 1,
                                !.root = CHOOSE i \in Std : f[i] = a]
                        ELSE Unused]
  BY DEF Init
<1>2. /\ kfd = StdFds(StdDesc) /\ desc = StdStreams(StdDesc) /\ hook = [u \in Users |-> Idle]
      /\ phase = "run" /\ image = {}
  BY DEF Init
<1>3. StdDesc \in [Std -> Descs] /\ \A s, t \in Std : s # t => StdDesc[s] # StdDesc[t]
  BY StdIs
<1>4. Std \subseteq Fds /\ NoDesc \notin Descs /\ Null \notin Addrs
  BY Consts
<1>5. ASSUME NEW s \in Std
      PROVE  /\ table[s] = f[s] /\ f[s] \in Addrs /\ source[f[s]].type = "FD_INHERITED"
             /\ source[f[s]].root = s
             /\ kfd[s] = StdDesc[s] /\ desc[StdDesc[s]] = [name |-> s, off |-> 0]
  <2>1. table[s] = f[s] /\ kfd[s] = StdDesc[s] /\ f[s] \in Addrs /\ StdDesc[s] \in Descs
    BY <1>1, <1>2, <1>3, <1>4 DEF StdFds
  <2> DEFINE r == CHOOSE t \in Std : f[t] = f[s]
             q == CHOOSE t \in Std : StdDesc[t] = StdDesc[s]
  <2>2. r \in Std /\ f[r] = f[s] /\ q \in Std /\ StdDesc[q] = StdDesc[s]
    OBVIOUS
  <2>3. r = s /\ q = s
    BY <1>1, <1>3, <2>2
  <2>4. source[f[s]] = [Unused EXCEPT !.type = "FD_INHERITED", !.ref = 1, !.root = r]
    BY <1>1, <2>1
  <2>5. desc[StdDesc[s]] = [name |-> q, off |-> 0]
    BY <1>2, <2>1 DEF StdStreams
  <2> HIDE DEF r, q
  <2>6. source[f[s]].type = "FD_INHERITED" /\ source[f[s]].root = r
    BY <2>4 DEF Unused
  <2> QED
    BY <2>1, <2>3, <2>5, <2>6
<1>6. ASSUME NEW fd \in Fds \ Std PROVE table[fd] = Null /\ kfd[fd] = NoDesc
  BY <1>1, <1>2 DEF StdFds
<1>7. ASSUME NEW a \in Addrs PROVE (\E s \in Std : f[s] = a) \/ source[a] = Unused
  BY <1>1
<1>8. InheritedRoots(source)
  <2>1. ASSUME NEW a \in Addrs, source[a].type = "FD_INHERITED"
        PROVE  source[a].root \in Std /\ f[source[a].root] = a
    <3>1. PICK s \in Std : f[s] = a
      BY <1>7, <2>1, Records
    <3> QED
      BY <1>5, <3>1
  <2> QED
    BY <2>1 DEF InheritedRoots
<1>9. Agree(table, source, kfd, desc, Fds)
  <2>1. ASSUME NEW s \in Std
        PROVE  /\ table[s] = f[s] /\ kfd[s] = StdDesc[s] /\ table[s] # Null /\ kfd[s] # NoDesc
               /\ EntryFor(source[table[s]], desc[kfd[s]])
    <3>1. /\ table[s] = f[s] /\ kfd[s] = StdDesc[s] /\ f[s] \in Addrs
          /\ source[f[s]].type = "FD_INHERITED" /\ source[f[s]].root = s
      BY <1>5
    <3>2. desc[StdDesc[s]] = [name |-> s, off |-> 0]
      BY <1>5
    <3>3. StdDesc[s] \in Descs
      BY <1>3
    <3>4. EntryFor(source[f[s]], desc[StdDesc[s]])
      BY <3>1, <3>2 DEF EntryFor
    <3> QED
      BY <1>4, <3>1, <3>3, <3>4
  <2>2. ASSUME NEW fd \in Fds
        PROVE  /\ table[fd] = Null <=> kfd[fd] = NoDesc
               /\ table[fd] # Null => EntryFor(source[table[fd]], desc[kfd[fd]])
    BY <1>6, <2>1
  <2>3. ASSUME NEW fd \in Fds, NEW g \in Fds
        PROVE  table[fd] = table[g] <=> kfd[fd] = kfd[g]
    <3>1. CASE fd \in Std /\ g \in Std
      <4>1. \A i, j \in Std : f[i] = f[j] <=> StdDesc[i] = StdDesc[j]
        <5>1. \A i, j \in Std : i # j => f[i] # f[j]
          BY <1>1
        <5> QED
          BY <1>3, <5>1
      <4>2. /\ table[fd] = f[fd] /\ kfd[fd] = StdDesc[fd]
            /\ table[g] = f[g] /\ kfd[g] = StdDesc[g]
        BY <2>1, <3>1
      <4> QED
        BY <3>1, <4>1, <4>2
    <3>2. CASE fd \notin Std \/ g \notin Std
      BY <1>6, <2>1, <3>2
    <3> QED
      BY <3>1, <3>2
  <2> QED
    BY <2>2, <2>3 DEF Agree
<1>10. /\ InStep = Fds /\ \A u \in Users : HookAt(hook[u], kfd, desc, table)
       /\ \A u, w \in Users : ~Clash(hook[u], hook[w])
  BY <1>2, IdleInStep, Records DEF HookAt, Clash, Changes
<1>11. NoneSaved(table, source)
  <2> SUFFICES ASSUME NEW fd \in FileFds(table, source) PROVE FALSE
    BY DEF NoneSaved
  <2>1. fd \in Fds /\ table[fd] # Null /\ source[table[fd]].type = "FD_FILE"
    BY DEF FileFds
  <2>2. fd \in Std
    BY <1>6, <2>1
  <2> QED
    BY <1>5, <2>1, <2>2
<1>12. RunInv
  BY <1>9, <1>10, <1>11 DEF RunInv
<1> QED
  BY <1>2, <1>8, <1>12 DEF KInv

\* Every step keeps the invariant.
LEMMA StepAgrees ==
  ASSUME IInv, IInv', TInv, TInv', KInv, [Next]_vars
  PROVE  KInv'
<1>1. CASE fd_table_save
  BY <1>1, SaveIsGood
<1>2. CASE Restart
  BY <1>2, RestartIsGood
<1>3. CASE RestoreStep
  <2>1. phase # "run" /\ UNCHANGED <<hook, apart, image, saves>>
    BY <1>3 DEF RestoreStep, RestoreInherited, file_restore, RestoreCopy, RestoreSkip,
                RestoreStd, Resume, Advance
  <2>2. CASE apart
    BY <2>1, <2>2, RestoreApart
  <2>3. CASE ~apart
    BY <1>3, <2>3, InheritedKeeps, FilesKeeps, StdKeeps, ResumeKeeps DEF RestoreStep
  <2> QED
    BY <2>2, <2>3
<1>4. ASSUME NEW fd \in Fds, Seek(fd) PROVE KInv'
  BY <1>4, SeekKeeps
<1>5. ASSUME NEW u \in Users, HookStep(u) PROVE KInv'
  BY <1>5, CallKeeps, TurnKeeps DEF HookStep
<1>6. CASE UNCHANGED vars
  BY <1>6 DEF vars, kernelVars, tableVars, ckptVars, KInv, RunInv, RestoreInv, InStep,
              SameEntries, FilesInv
<1> QED
  BY <1>1, <1>2, <1>3, <1>4, <1>5, <1>6 DEF Next

\* What AllReopened says is the property.
LEMMA KInvRestores ==
  ASSUME IInv, TInv, KInv
  PROVE  DescriptorsRestored
<1> SUFFICES ASSUME phase = "restored", NEW i \in image, ~i.apart
             PROVE  BackAs(i, {fd \in Fds : i.table[fd] \in i.again})
  BY DEF DescriptorsRestored
<1>1. ~apart
  BY DEF KInv
<1>2. /\ GoodImage(i) /\ SameEntries(i)
      /\ \A fd \in Fds : kfd[fd] = NoDesc <=> table[fd] = Null
      /\ \A fd \in Fds : kfd[fd] = NoDesc <=> i.kfd[fd] = NoDesc
      /\ \A fd \in Fds : kfd[fd] # NoDesc => desc[kfd[fd]] = Meant(i, fd)
      /\ \A fd, g \in Fds : kfd[fd] = kfd[g] <=> i.kfd[fd] = i.kfd[g]
  BY <1>1, AllReopened
<1>3. ASSUME NEW fd \in Fds, kfd[fd] # NoDesc
      PROVE  /\ desc[kfd[fd]].name = i.desc[i.kfd[fd]].name
             /\ i.table[fd] \notin i.again => desc[kfd[fd]].off = i.desc[i.kfd[fd]].off
  <2>1. i.table[fd] # Null
    BY <1>2, <1>3 DEF SameEntries
  <2> QED
    BY <1>2, <1>3, <2>1, MeantIs
<1> QED
  BY <1>2, <1>3 DEF BackAs

\* Every restart brings back every descriptor, for any number of threads whose
\* hooks interleave in any way, of checkpoints, of restarts and of inherited
\* streams.  What DescriptorsRestored leaves open is only what fd_table_restore
\* does lose.
THEOREM DescriptorsComeBack == Spec => []DescriptorsRestored
<1>1. Init => KInv
  BY InitAgrees
<1>2. IInv /\ TInv /\ KInv /\ [Next]_vars /\ IInv' /\ TInv' => KInv'
  BY StepAgrees
<1>3. IInv /\ TInv /\ KInv => DescriptorsRestored
  BY KInvRestores
<1> QED
  BY <1>1, <1>2, <1>3, TypesInductive, PTL DEF Spec
=============================================================================
