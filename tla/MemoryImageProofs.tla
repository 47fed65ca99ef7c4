------------------------- MODULE MemoryImageProofs -------------------------
(***************************************************************************)
(* Proofs about MemoryImage, for any number of regions, pages, writes and  *)
(* restarts.                                                               *)
(*                                                                         *)
(* A file says by itself what it holds: each region struct is followed by  *)
(* pages as it announces, and where these end the next entry begins        *)
(* (Entries, GoodImage).  The writer extends such a file entry by entry,   *)
(* in the middle of a region page by page (WriteInv, DirtyInv, AllInv),    *)
(* and the reader walks along it (ReadInv, DirtyReadInv, AllReadInv).      *)
(* What the structs and pages say is what was in memory (Holds), so that   *)
(* the reader puts it back (Back).                                         *)
(***************************************************************************)
EXTENDS MemoryImage, FiniteSetTheorems, TLAPS

-----------------------------------------------------------------------------
(* Kinds of values *)

Asked   == {"rw", "r", "none", "sealed"}
Prots   == Asked \cup {"mixed"}
Pages   == [val : -1 .. MaxWrites, st : {"clean", "dirty", "out", "bad"}]
PageSeq == {s \in Seq(Pages) : Len(s) <= NPages}
Regions == [here : BOOLEAN, kind : Kinds, marked : BOOLEAN, prot : Prots, pages : PageSeq]

Structs == [r : Ids, size : 0 .. NPages, prot : Prots, dirty_only : BOOLEAN, dirtied : Nat]

Units == [k : {"header"}, n : Nat] \cup [k : {"tag"}, n : {"region", "context"}]
         \cup [k : {"struct"}, n : Structs] \cup [k : {"page"}, n : PageNo]
         \cup [k : {"data"}, n : -1 .. MaxWrites] \cup [k : {"context"}, n : {0}]

Writing  == {"entry", "region", "dirty", "all", "fix"}
InRegion == {"dirty", "all", "fix"}
Reading  == {"r_entry", "r_region", "r_dirty", "r_all", "resumed"}

\* A file begins with its header.
IsFile(f) == f \in Seq(Units) /\ Len(f) >= 1 /\ f[1].k = "header"

\* The unit p of a file is a region struct.
IsStruct(f, p) == p \in 1 .. Len(f) /\ f[p].k = "struct"

MemType ==
  /\ vm \in [Ids -> Regions]
  /\ writes \in 0 .. MaxWrites /\ gen \in 0 .. Restarts /\ cap \in Caps

FileType ==
  /\ file \in Seq(Units) /\ pos \in 0 .. Len(file)
  /\ list \subseteq Ids /\ at \in Ids /\ page \in 1 .. NPages + 1 /\ before \in Nat
  /\ left \in Nat \X Nat

ImageType == image = NoImage \/ (IsFile(image.file) /\ image.vm \in [Ids -> Regions])

PlaceType ==
  /\ pc \in {"run", "resumed", "failed", "aborted", "r_entry", "r_region", "r_dirty", "r_all"} \cup Writing
  /\ pc \in Writing \cup Reading => IsFile(file)
  /\ pc \in Writing => pos >= 1
  /\ pc \in InRegion => /\ before >= 1 /\ IsStruct(file, before + 1)
                        /\ page <= Len(vm[at].pages) + 1
  /\ pc \in {"dirty", "all"} => pos >= before + 1
  /\ pc = "fix" => pos >= before
  /\ pc \in {"r_dirty", "r_all"} => IsStruct(file, before + 1)
  /\ pc = "r_all" => page + left[2] <= NPages + 1

Types == MemType /\ FileType /\ ImageType /\ PlaceType

-----------------------------------------------------------------------------
(* What an image holds of the restart program: nothing, if marking works *)

UserStructs(f) == \A p \in 1 .. Len(f) : f[p].k = "struct" => f[p].n.r \in Users

OwnInv ==
  /\ vm[Own].here => vm[Own].marked
  /\ pc \in Writing => list \subseteq Users
  /\ pc \in Writing \ {"entry"} => at \in Users
  /\ pc \in {"r_dirty", "r_all"} => at \in Users
  /\ UserStructs(file) /\ UserStructs(image.file)

-----------------------------------------------------------------------------
(* Disk and program *)

\* The units of a region, and of a whole image, at most.
RegionSize == 2 + PageSize * NPages
Roomy == \A c \in Caps : c >= 3 + RegionSize * Len(KindOf)

\* What the program and the kernel may do to a region.
Tame ==
  \A r \in Users :
    /\ "protect" \in Faults[r] =>
         KindOf[r] # "cache" /\ (KindOf[r] = "plain" => "truncate" \notin Faults[r])
    /\ "seal" \in Faults[r] => KindOf[r] # "cache"
    /\ KindOf[r] = "plain" => "empty" \notin Faults[r]
    /\ KindOf[r] # "plain" => "pageout" \notin Faults[r]
    /\ KindOf[r] = "cache" => "efault" \notin Faults[r]

Benign == ~MarkFails /\ Roomy /\ Tame

-----------------------------------------------------------------------------
(* Memory *)

\* A page is lost from where its file was cut off; a page of malloc or of the
\* shared cache that is not dirty is as it came.
Full(r, w) ==
  /\ w.here /\ ~w.marked /\ w.kind = KindOf[r] /\ Len(w.pages) >= 1
  /\ KindOf[r] = "plain" =>
       /\ w.pages[1].st # "bad"
       /\ \A i, k \in 1 .. Len(w.pages) : w.pages[i].st = "bad" /\ i <= k => w.pages[k].st = "bad"
       /\ \A k \in 1 .. Len(w.pages) : w.pages[k].st = "bad" => "truncate" \in Faults[r]
  /\ KindOf[r] # "plain" => \A k \in 1 .. Len(w.pages) :
       w.pages[k].st = "dirty" \/ (w.pages[k].st = "clean" /\ w.pages[k].val = 0)

\* A region that an image need not hold is not there after a restart.
PagesInv(r, w) ==
  \/ Full(r, w)
  \/ ~w.here /\ Len(w.pages) = 0 /\ KindOf[r] \in {"dyld", "skipped"}

ProtInv(r, w) ==
  \/ w.prot = "rw"
  \/ w.prot \in {"r", "none"} /\ "protect" \in Faults[r]
  \/ w.prot = "sealed" /\ "seal" \in Faults[r]

DirtyIn(w) == {k \in 1 .. Len(w.pages) : w.pages[k].st = "dirty"}

\* The regions of v of which an image holds something.
Holding(r, w) ==
  w.here /\ KindOf[r] # "skipped" /\ (KindOf[r] \in {"cache", "dyld"} => DirtyIn(w) # {})

SavedIn(v) == {r \in Users : Holding(r, v[r])}

-----------------------------------------------------------------------------
(* Files *)

IsData(f, p, val) == f[p] = [k |-> "data", n |-> val]

\* The page k of w, with its struct, is at p + 1.
PageIs(f, p, w, k) ==
  /\ f[p + 1] = PageAt(k)
  /\ IsData(f, p + 2, w.pages[k].val) /\ IsData(f, p + 3, w.pages[k].val)

\* The n pages of w that follow p are dirty ones, among them those up to m.
DirtyPages(f, p, w, n, m) ==
  /\ \A i \in 0 .. n - 1 : \E k \in DirtyIn(w) : PageIs(f, p + 3 * i, w, k)
  /\ \A k \in DirtyIn(w) : k <= m => \E i \in 0 .. n - 1 : f[p + 3 * i + 1] = PageAt(k)

\* The first n pages of w follow p.
AllPages(f, p, w, n) ==
  \A k \in 1 .. n : IsData(f, p + 2 * k - 1, w.pages[k].val) /\ IsData(f, p + 2 * k, w.pages[k].val)

\* Where the pages of the struct at p end.
End(f, p) == p + IF f[p].n.dirty_only THEN 3 * f[p].n.dirtied ELSE 2 * f[p].n.size

OnlyPages(f, p, e) == \A x \in p + 1 .. e : f[x].k \in {"data", "page"}

\* The struct at p, and what follows it, is region w.
Holds(f, p, w) ==
  /\ f[p].n.prot = w.prot
  /\ f[p].n.size \in 1 .. Len(w.pages)
  /\ \A k \in 1 .. Len(w.pages) : w.pages[k].st # "bad" <=> k <= f[p].n.size
  /\ f[p].n.dirty_only => DirtyPages(f, p, w, f[p].n.dirtied, NPages)
  /\ ~f[p].n.dirty_only => AllPages(f, p, w, f[p].n.size)
  /\ f[p].n.dirty_only => w.kind # "plain"
  /\ OnlyPages(f, p, End(f, p))

\* A region entry begins at p + 1.
RegionAt(f, p) == IsStruct(f, p + 2) /\ f[p + 1] = Tag("region")

\* All entries of f up to e are regions of v, one after the other.
Entries(f, v, e) ==
  /\ e = 1 \/ (RegionAt(f, 1) /\ 3 <= e)
  /\ \A p \in 1 .. e : IsStruct(f, p) =>
       /\ p >= 3 /\ f[p].n.r \in Users
       /\ End(f, p) <= e
       /\ End(f, p) = e \/ (RegionAt(f, End(f, p)) /\ End(f, p) + 2 <= e)
       /\ Holds(f, p, v[f[p].n.r])
  /\ \A p, q \in 1 .. e : IsStruct(f, p) /\ IsStruct(f, q) /\ f[p].n.r = f[q].n.r => p = q

RegionsIn(f, a, e) == {r \in Users : \E p \in a + 1 .. e : IsStruct(f, p) /\ f[p].n.r = r}

\* The image f of memory v.
GoodImage(f, v) ==
  /\ IsFile(f) /\ v \in [Ids -> Regions]
  /\ \A r \in Users : PagesInv(r, v[r]) /\ ProtInv(r, v[r])
  /\ f[1] = Header(Cardinality(SavedIn(v)) + 1)
  /\ Len(f) >= 3
  /\ f[Len(f) - 1] = Tag("context") /\ f[Len(f)] = Context
  /\ Entries(f, v, Len(f) - 2)
  /\ RegionsIn(f, 0, Len(f)) = SavedIn(v)

-----------------------------------------------------------------------------
(* The writer *)

\* Where the entry in hand, or the next one, begins.
Front == IF pc = "entry" THEN pos ELSE IF pc = "region" THEN pos - 1 ELSE before - 1

ToDo == IF pc = "entry" THEN list ELSE list \cup {at}

WriteInv ==
  /\ file[1] = Header(Cardinality(SavedIn(vm)) + 1)
  /\ Len(file) = pos /\ Front >= 1
  /\ Entries(file, vm, Front)
  /\ \A p \in Front + 1 .. Len(file) : IsStruct(file, p) => pc \in InRegion /\ p = before + 1
  /\ RegionsIn(file, 0, Front) = SavedIn(vm) \ ToDo
  /\ ToDo \subseteq SavedIn(vm)
  /\ pc # "entry" => at \notin list /\ file[Front + 1] = Tag("region")
  /\ Front + RegionSize * Cardinality(ToDo) <= 1 + RegionSize * Len(KindOf)

\* The struct of the region in hand.
InHand == file[before + 1].n

HandInv ==
  /\ InHand.r = at /\ InHand.dirty_only = (pc = "dirty")
  /\ InHand.size = Len(vm[at].pages)
  /\ OnlyPages(file, before + 1, pos)
  /\ ProtInv(at, InHand)

DirtyInv ==
  LET n == Cardinality({k \in DirtyIn(vm[at]) : k < page})
  IN /\ InHand.prot = vm[at].prot /\ vm[at].kind # "plain"
     /\ InHand.dirtied = Cardinality(DirtyIn(vm[at]))
     /\ 3 * InHand.dirtied <= PageSize * Len(vm[at].pages)
     /\ pos = before + 1 + 3 * n
     /\ DirtyPages(file, before + 1, vm[at], n, page - 1)

AllInv ==
  /\ vm[at].prot = IF InHand.prot = "none" THEN "r" ELSE InHand.prot
  /\ pos = before + 1 + 2 * (page - 1)
  /\ AllPages(file, before + 1, vm[at], page - 1)
  /\ \A k \in 1 .. page - 1 : vm[at].pages[k].st # "bad"
  /\ pc = "fix" => page = Len(vm[at].pages) + 1 \/ vm[at].pages[page].st = "bad"

-----------------------------------------------------------------------------
(* The reader *)

\* w is v again.
Back(r, w, v) ==
  /\ PagesInv(r, w) /\ w.prot = v.prot
  /\ \A k \in 1 .. Len(v.pages) : v.pages[k].st # "bad" =>
       k \in 1 .. Len(w.pages) /\ w.pages[k].val = v.pages[k].val

\* A region before the reader comes to it.
Untouched(r) == IF KindOf[r] = "cache" THEN Region("cache") ELSE Absent

RFront == IF pc \in {"r_entry", "resumed"} THEN pos ELSE IF pc = "r_region" THEN pos - 1 ELSE before - 1

\* The regions of which the reader has not seen the struct.
Ahead == RegionsIn(file, IF pc \in {"r_dirty", "r_all"} THEN before + 1 ELSE pos, Len(file))

ContextAt(f, p) == Len(f) = p + 2 /\ f[p + 1] = Tag("context") /\ f[p + 2] = Context

ReadInv ==
  /\ image # NoImage /\ file = image.file
  /\ \A p \in 1 .. RFront : IsStruct(file, p) => Back(file[p].n.r, vm[file[p].n.r], image.vm[file[p].n.r])
  /\ \A r \in Users : r \notin RegionsIn(file, 0, RFront) =>
       vm[r] = Untouched(r) \/ (pc \in {"r_dirty", "r_all"} /\ r = at)
  /\ pc = "r_entry" =>
       \/ (RegionAt(file, pos) \/ ContextAt(file, pos)) /\ left[1] = Cardinality(Ahead) + 1
       \/ pos = Len(file) /\ left[1] = 0
  /\ pc = "resumed" => pos = Len(file)
  /\ pc = "r_region" => RegionAt(file, pos - 1) /\ pos >= 2 /\ left[1] = Cardinality(Ahead)
  /\ pc \in {"r_dirty", "r_all"} =>
       before >= 1 /\ RegionAt(file, before - 1) /\ left[1] = Cardinality(Ahead) + 1

HandReadInv ==
  /\ at = InHand.r
  /\ vm[at].here /\ ~vm[at].marked /\ vm[at].kind = KindOf[at]
  /\ InHand.dirty_only = (pc = "r_dirty")

DirtyReadInv ==
  /\ left[2] <= InHand.dirtied /\ pos = before + 1 + 3 * (InHand.dirtied - left[2])
  /\ Len(vm[at].pages) >= InHand.size
  /\ \A k \in 1 .. Len(vm[at].pages) :
       \/ vm[at].pages[k] = FreshPage
       \/ /\ k \in DirtyIn(image.vm[at])
          /\ vm[at].pages[k] = [val |-> image.vm[at].pages[k].val, st |-> "dirty"]
  /\ \A i \in 0 .. InHand.dirtied - left[2] - 1 : \A k \in DirtyIn(image.vm[at]) :
       file[before + 1 + 3 * i + 1] = PageAt(k) => vm[at].pages[k].st = "dirty"

AllReadInv ==
  /\ pos = before + 1 + 2 * (page - 1) /\ page + left[2] = InHand.size + 1
  /\ Len(vm[at].pages) = InHand.size
  /\ \A k \in 1 .. InHand.size :
       vm[at].pages[k] = IF k < page THEN [val |-> image.vm[at].pages[k].val, st |-> "dirty"]
                         ELSE FreshPage

-----------------------------------------------------------------------------

MemInv ==
  /\ pc \in {"run"} \cup Writing => \A r \in Users : PagesInv(r, vm[r])
  /\ \A r \in Users : (pc \in {"run"} \cup Writing => ProtInv(r, vm[r])) \/ (pc \in {"all", "fix"} /\ r = at)

Exact ==
  /\ pc # "failed"
  /\ MemInv
  /\ image # NoImage => GoodImage(image.file, image.vm)
  /\ pc \in Writing => WriteInv
  /\ pc \in InRegion => HandInv
  /\ pc = "dirty" => DirtyInv
  /\ pc \in {"all", "fix"} => AllInv
  /\ pc \in Reading => ReadInv
  /\ pc \in {"r_dirty", "r_all"} => HandReadInv
  /\ pc = "r_dirty" => DirtyReadInv
  /\ pc = "r_all" => AllReadInv

-----------------------------------------------------------------------------
(* Constants, records and units *)

LEMMA Constants ==
  /\ Len(KindOf) \in Nat /\ Users = 1 .. Len(KindOf) /\ Users \subseteq Nat
  /\ Own = 0 /\ Own \in Ids /\ Users \subseteq Ids /\ Own \notin Users /\ Ids = Users \cup {Own}
  /\ \A r \in Users : KindOf[r] \in Kinds /\ Kind(r) = KindOf[r]
  /\ \A r \in Ids : Kind(r) \in Kinds
  /\ NPages \in Nat /\ NPages >= 1 /\ PageNo = 1 .. NPages
  /\ MaxWrites \in Nat /\ Restarts \in Nat /\ Caps \subseteq Nat
  /\ MarkFails \in BOOLEAN
BY ConstantsAssumption DEF Users, Own, Ids, Kind, Kinds, PageNo

LEMMA FreshIs ==
  /\ FreshPage \in Pages /\ FreshPage.val = 0 /\ FreshPage.st = "clean"
  /\ \A n \in Nat : /\ [k \in 1 .. n |-> FreshPage] \in Seq(Pages)
                    /\ Len([k \in 1 .. n |-> FreshPage]) = n
BY Constants DEF FreshPage, Pages

LEMMA RegionIs ==
  ASSUME NEW kind \in Kinds
  PROVE  /\ Region(kind) \in Regions
         /\ Region(kind).here /\ ~Region(kind).marked /\ Region(kind).kind = kind
         /\ Region(kind).prot = "rw" /\ Len(Region(kind).pages) = NPages
         /\ \A k \in 1 .. NPages : Region(kind).pages[k] = FreshPage
<1>1. [k \in PageNo |-> FreshPage] \in PageSeq /\ Len([k \in PageNo |-> FreshPage]) = NPages
  BY Constants, FreshIs DEF PageSeq
<1> QED
  BY <1>1, Constants DEF Region, Regions, Prots, Asked

LEMMA AbsentIs == Absent \in Regions /\ ~Absent.here /\ ~Absent.marked /\ Len(Absent.pages) = 0
<1>1. <<>> \in PageSeq /\ Len(<<>>) = 0
  BY Constants DEF PageSeq
<1> QED
  BY <1>1 DEF Absent, Regions, Kinds, Prots, Asked

LEMMA SomeRegion ==
  ASSUME NEW w \in Regions
  PROVE  /\ w.here \in BOOLEAN /\ w.marked \in BOOLEAN /\ w.kind \in Kinds /\ w.prot \in Prots
         /\ w.pages \in Seq(Pages) /\ Len(w.pages) \in 0 .. NPages
         /\ DOMAIN w.pages = 1 .. Len(w.pages)
         /\ \A k \in 1 .. Len(w.pages) : /\ w.pages[k] \in Pages
                                         /\ w.pages[k].val \in -1 .. MaxWrites
                                         /\ w.pages[k].st \in {"clean", "dirty", "out", "bad"}
<1>1. /\ w.here \in BOOLEAN /\ w.marked \in BOOLEAN /\ w.kind \in Kinds /\ w.prot \in Prots
      /\ w.pages \in Seq(Pages) /\ Len(w.pages) <= NPages
  BY DEF Regions, PageSeq
<1>2. /\ Len(w.pages) \in Nat /\ DOMAIN w.pages = 1 .. Len(w.pages)
      /\ \A k \in 1 .. Len(w.pages) : w.pages[k] \in Pages
  BY <1>1
<1>3. \A x \in Pages : x.val \in -1 .. MaxWrites /\ x.st \in {"clean", "dirty", "out", "bad"}
  BY DEF Pages
<1> QED
  BY <1>1, <1>2, <1>3, Constants

\* Regions that differ in their pages or in their protection.
LEMMA NewPages ==
  ASSUME NEW w \in Regions, NEW s \in PageSeq
  PROVE  /\ [w EXCEPT !.pages = s] \in Regions
         /\ [w EXCEPT !.pages = s].pages = s
         /\ [w EXCEPT !.pages = s].here = w.here /\ [w EXCEPT !.pages = s].marked = w.marked
         /\ [w EXCEPT !.pages = s].kind = w.kind /\ [w EXCEPT !.pages = s].prot = w.prot
BY DEF Regions

LEMMA NewProt ==
  ASSUME NEW w \in Regions, NEW x \in Prots
  PROVE  /\ [w EXCEPT !.prot = x] \in Regions
         /\ [w EXCEPT !.prot = x].pages = w.pages
         /\ [w EXCEPT !.prot = x].here = w.here /\ [w EXCEPT !.prot = x].marked = w.marked
         /\ [w EXCEPT !.prot = x].kind = w.kind /\ [w EXCEPT !.prot = x].prot = x
BY DEF Regions

WithPage(s, k, x) == [s EXCEPT ![k] = x]

LEMMA OnePage ==
  ASSUME NEW s \in PageSeq, NEW k, NEW x \in Pages
  PROVE  /\ WithPage(s, k, x) \in PageSeq /\ Len(WithPage(s, k, x)) = Len(s)
         /\ \A i \in 1 .. Len(s) : WithPage(s, k, x)[i] = IF i = k THEN x ELSE s[i]
<1> DEFINE t == WithPage(s, k, x)
<1>1. s \in Seq(Pages) /\ Len(s) \in Nat /\ Len(s) <= NPages /\ DOMAIN s = 1 .. Len(s)
  BY DEF PageSeq
<1>2. t = [i \in 1 .. Len(s) |-> IF i = k THEN x ELSE s[i]]
  BY <1>1 DEF WithPage
<1> HIDE DEF t
<1>3. \A i \in 1 .. Len(s) : (IF i = k THEN x ELSE s[i]) \in Pages
  BY <1>1
<1>4. t \in Seq(Pages) /\ Len(t) = Len(s)
  BY <1>1, <1>2, <1>3
<1> QED
  BY <1>1, <1>2, <1>4 DEF PageSeq, t

LEMMA UnitIs ==
  ASSUME NEW u \in Units
  PROVE  /\ u.k \in {"header", "tag", "struct", "page", "data", "context"}
         /\ u.k = "header" => u.n \in Nat
         /\ u.k = "struct" => u.n \in Structs
         /\ u.k = "page" => u.n \in PageNo
         /\ u.k = "data" => u.n \in -1 .. MaxWrites
BY DEF Units

LEMMA SomeStruct ==
  ASSUME NEW s \in Structs
  PROVE  /\ s.r \in Ids /\ s.size \in 0 .. NPages /\ s.prot \in Prots
         /\ s.dirty_only \in BOOLEAN /\ s.dirtied \in Nat
BY DEF Structs

\* The units the writer makes.
LEMMA UnitsAre ==
  /\ \A n \in Nat : Header(n) \in Units /\ Header(n).k = "header" /\ Header(n).n = n
  /\ Tag("region") \in Units /\ Tag("context") \in Units /\ Context \in Units
  /\ Tag("region").k = "tag" /\ Tag("context").k = "tag" /\ Context.k = "context"
  /\ Tag("region") # Tag("context")
  /\ \A k \in PageNo : PageAt(k) \in Units /\ PageAt(k).k = "page" /\ PageAt(k).n = k
  /\ \A v \in -1 .. MaxWrites :
       /\ [k |-> "data", n |-> v] \in Units
       /\ Data(v) \in Seq(Units) /\ Len(Data(v)) = 2 /\ Data(v)[1] = [k |-> "data", n |-> v]
       /\ Data(v)[2] = [k |-> "data", n |-> v]
BY DEF Header, Tag, Context, PageAt, Data, Units

-----------------------------------------------------------------------------
(* writeall *)

LEMMA WrittenIs ==
  ASSUME file \in Seq(Units), cap \in Nat, NEW p \in 0 .. Len(file), NEW units \in Seq(Units)
  PROVE  /\ Fit(p, units) \in 0 .. Len(units)
         /\ Written(p, units) \in Seq(Units)
         /\ Len(Written(p, units)) >= Len(file) /\ Len(Written(p, units)) >= p + Fit(p, units)
         /\ Len(Written(p, units)) = Len(file) \/ Len(Written(p, units)) = p + Fit(p, units)
         /\ \A j \in 1 .. p : Written(p, units)[j] = file[j]
         /\ \A j \in p + Fit(p, units) + 1 .. Len(file) : Written(p, units)[j] = file[j]
         /\ \A j \in 1 .. Fit(p, units) : Written(p, units)[p + j] = units[j]
<1> DEFINE n == Fit(p, units)
           m == IF p + n > Len(file) THEN p + n ELSE Len(file)
           w == Written(p, units)
<1>1. Len(file) \in Nat /\ Len(units) \in Nat /\ p \in Nat
  OBVIOUS
<1>2. n \in 0 .. Len(units)
  BY <1>1 DEF Fit
<1> HIDE DEF n
<1>3. m \in Nat /\ m >= Len(file) /\ m >= p + n /\ (m = Len(file) \/ m = p + n)
  BY <1>1, <1>2
<1>4. w = [j \in 1 .. m |-> IF j > p /\ j <= p + n THEN units[j - p] ELSE file[j]]
  BY DEF Written, n
<1> HIDE DEF m, w
<1>5. \A j \in 1 .. m : (IF j > p /\ j <= p + n THEN units[j - p] ELSE file[j]) \in Units
  <2> SUFFICES ASSUME NEW j \in 1 .. m
               PROVE  (IF j > p /\ j <= p + n THEN units[j - p] ELSE file[j]) \in Units
    OBVIOUS
  <2>1. CASE j > p /\ j <= p + n
    <3>1. j - p \in 1 .. Len(units)
      BY <1>1, <1>2, <2>1
    <3> QED BY <2>1, <3>1
  <2>2. CASE ~(j > p /\ j <= p + n)
    <3>1. j \in 1 .. Len(file)
      BY <1>1, <1>2, <1>3, <2>2
    <3> QED BY <2>2, <3>1
  <2> QED BY <2>1, <2>2
<1>6. w \in Seq(Units) /\ Len(w) = m
  BY <1>3, <1>4, <1>5
<1>7. \A j \in 1 .. p : w[j] = file[j]
  BY <1>1, <1>3, <1>4
<1>8. \A j \in p + n + 1 .. Len(file) : w[j] = file[j]
  BY <1>1, <1>2, <1>3, <1>4
<1>9. ASSUME NEW j \in 1 .. n PROVE w[p + j] = units[j]
  <2>1. p + j \in 1 .. m /\ p + j > p /\ p + j <= p + n /\ (p + j) - p = j
    BY <1>1, <1>2, <1>3
  <2> QED BY <1>4, <2>1
<1> QED
  BY <1>2, <1>3, <1>6, <1>7, <1>8, <1>9 DEF n, w

\* A page, or a page and its struct, is written as a whole or in part.
LEMMA WritesKeep ==
  ASSUME Types, NEW p \in 1 .. Len(file), NEW units \in Seq(Units), file' = Written(p, units),
         IsFile(file)
  PROVE  /\ IsFile(file') /\ Len(file') >= Len(file) /\ Fit(p, units) \in 0 .. Len(units)
         /\ p + Fit(p, units) \in 0 .. Len(file')
         /\ \A j \in 1 .. p : file'[j] = file[j]
<1>1. file \in Seq(Units) /\ cap \in Nat /\ p \in 0 .. Len(file) /\ Len(file) \in Nat
  BY Constants DEF Types, MemType, FileType
<1>2. /\ Fit(p, units) \in 0 .. Len(units)
      /\ Written(p, units) \in Seq(Units)
      /\ Len(Written(p, units)) >= Len(file) /\ Len(Written(p, units)) >= p + Fit(p, units)
      /\ \A j \in 1 .. p : Written(p, units)[j] = file[j]
  BY <1>1, WrittenIs
<1>3. Len(units) \in Nat /\ Len(Written(p, units)) \in Nat
  BY <1>2
<1> QED
  BY <1>1, <1>2, <1>3 DEF IsFile

-----------------------------------------------------------------------------
(* Types are kept *)

\* What Types says of a variable.
LEMMA TypesAre ==
  ASSUME Types
  PROVE  /\ vm \in [Ids -> Regions] /\ \A r \in Ids : vm[r] \in Regions
         /\ file \in Seq(Units) /\ Len(file) \in Nat /\ pos \in Nat /\ pos <= Len(file)
         /\ \A p \in 1 .. Len(file) : file[p] \in Units
         /\ list \subseteq Ids /\ at \in Ids /\ page \in Nat /\ page >= 1 /\ page <= NPages + 1
         /\ before \in Nat /\ left \in Nat \X Nat /\ left[1] \in Nat /\ left[2] \in Nat
         /\ cap \in Nat /\ cap \in Caps /\ writes \in 0 .. MaxWrites /\ gen \in 0 .. Restarts
         /\ writes \in Nat /\ writes <= MaxWrites /\ gen \in Nat /\ gen <= Restarts
         /\ ImageType /\ PlaceType
<1>1. vm \in [Ids -> Regions] /\ \A r \in Ids : vm[r] \in Regions
  BY DEF Types, MemType
<1>2. /\ file \in Seq(Units) /\ Len(file) \in Nat /\ pos \in Nat /\ pos <= Len(file)
      /\ \A p \in 1 .. Len(file) : file[p] \in Units
  BY DEF Types, FileType
<1>3. /\ list \subseteq Ids /\ at \in Ids /\ page \in Nat /\ page >= 1 /\ page <= NPages + 1
      /\ before \in Nat
  BY Constants DEF Types, FileType
<1>4. left \in Nat \X Nat /\ left[1] \in Nat /\ left[2] \in Nat
  BY DEF Types, FileType
<1>5. /\ cap \in Nat /\ cap \in Caps /\ writes \in 0 .. MaxWrites /\ gen \in 0 .. Restarts
      /\ writes \in Nat /\ writes <= MaxWrites /\ gen \in Nat /\ gen <= Restarts
  BY Constants DEF Types, MemType
<1> QED
  BY <1>1, <1>2, <1>3, <1>4, <1>5 DEF Types

\* Only memory changes, between two calls.
LEMMA MemoryKeeps ==
  ASSUME Types, pc = "run", vm' \in [Ids -> Regions], writes' \in 0 .. MaxWrites,
         UNCHANGED <<pc, gen, fileVars, loopVars, image>>
  PROVE  Types'
<1>1. MemType' /\ FileType' /\ ImageType'
  BY DEF Types, MemType, FileType, ImageType, IsFile, fileVars, loopVars
<1>2. PlaceType'
  BY DEF PlaceType, Writing, InRegion, Reading
<1> QED
  BY <1>1, <1>2 DEF Types

\* A call returns.
LEMMA ForgetKeeps ==
  ASSUME Types, Forget, pc' \in {"run"}, UNCHANGED <<vm, writes, gen, cap>>, ImageType'
  PROVE  Types'
<1>1. FileType'
  <2>1. <<>> \in Seq(Units) /\ Len(<<>>) = 0 /\ 0 \in Ids
    BY Constants
  <2> QED
    BY <2>1, Constants DEF Forget, FileType
<1>2. MemType'
  BY DEF Types, MemType
<1>3. PlaceType'
  BY DEF PlaceType, Writing, InRegion, Reading
<1> QED
  BY <1>1, <1>2, <1>3 DEF Types

\* A region of memory changes.
LEMMA OneRegion ==
  ASSUME NEW r \in Ids, NEW w \in Regions, vm \in [Ids -> Regions], vm' = [vm EXCEPT ![r] = w]
  PROVE  vm' \in [Ids -> Regions] /\ vm'[r] = w /\ \A q \in Ids : q # r => vm'[q] = vm[q]
OBVIOUS

LEMMA TouchIs ==
  ASSUME Types, NEW r \in Users, NEW k, Touch(r, k)
  PROVE  LET s == WithPage(vm[r].pages, k, [val |-> writes + 1, st |-> "dirty"])
         IN /\ vm' = [vm EXCEPT ![r] = [vm[r] EXCEPT !.pages = s]]
            /\ s \in PageSeq /\ Len(s) = Len(vm[r].pages)
            /\ \A i \in 1 .. Len(s) : s[i] = IF i = k THEN [val |-> writes + 1, st |-> "dirty"]
                                             ELSE vm[r].pages[i]
<1>1. vm[r] \in Regions /\ vm[r].pages \in PageSeq /\ r \in Ids /\ vm \in [Ids -> Regions]
  BY TypesAre, Constants DEF Regions
<1> DEFINE x == [val |-> writes + 1, st |-> "dirty"]
           s == WithPage(vm[r].pages, k, x)
<1>2. x \in Pages
  <2>1. writes \in Nat /\ MaxWrites \in Nat /\ writes < MaxWrites
    BY TypesAre, Constants DEF Touch
  <2>2. writes + 1 \in -1 .. MaxWrites
    BY <2>1
  <2> QED
    BY <2>2 DEF Pages
<1>3. vm' = [vm EXCEPT ![r] = [vm[r] EXCEPT !.pages = s]]
  BY <1>1 DEF Touch, WithPage
<1> HIDE DEF x
<1>4. /\ s \in PageSeq /\ Len(s) = Len(vm[r].pages)
      /\ \A i \in 1 .. Len(vm[r].pages) : s[i] = IF i = k THEN x ELSE vm[r].pages[i]
  BY <1>1, <1>2, OnePage
<1> QED
  BY <1>3, <1>4 DEF x

LEMMA PageOutIs ==
  ASSUME Types, NEW r \in Users, NEW k, PageOut(r, k)
  PROVE  LET x == [val |-> vm[r].pages[k].val, st |-> "out"]
             s == WithPage(vm[r].pages, k, x)
         IN /\ vm' = [vm EXCEPT ![r] = [vm[r] EXCEPT !.pages = s]]
            /\ s \in PageSeq /\ Len(s) = Len(vm[r].pages)
            /\ \A i \in 1 .. Len(s) : s[i] = IF i = k THEN x ELSE vm[r].pages[i]
<1>1. /\ vm[r] \in Regions /\ vm[r].pages \in PageSeq /\ r \in Ids /\ vm \in [Ids -> Regions]
  BY TypesAre, Constants DEF Regions
<1> DEFINE x == [val |-> vm[r].pages[k].val, st |-> "out"]
           s == WithPage(vm[r].pages, k, x)
<1>2. x \in Pages /\ [vm[r].pages[k] EXCEPT !.st = "out"] = x
  <2>1. vm[r].pages[k] \in Pages
    BY <1>1, SomeRegion DEF PageOut
  <2> QED
    BY <2>1 DEF Pages
<1>3. vm' = [vm EXCEPT ![r] = [vm[r] EXCEPT !.pages = s]]
  <2>1. vm' = [vm EXCEPT ![r] = [vm[r] EXCEPT !.pages =
                 [vm[r].pages EXCEPT ![k] = [vm[r].pages[k] EXCEPT !.st = "out"]]]]
    BY <1>1 DEF PageOut
  <2> QED
    BY <1>2, <2>1 DEF WithPage
<1> HIDE DEF x
<1>4. /\ s \in PageSeq /\ Len(s) = Len(vm[r].pages)
      /\ \A i \in 1 .. Len(vm[r].pages) : s[i] = IF i = k THEN x ELSE vm[r].pages[i]
  BY <1>1, <1>2, OnePage
<1> QED
  BY <1>3, <1>4 DEF x

LEMMA TruncateIs ==
  ASSUME Types, NEW r \in Users, NEW k \in PageNo, Truncate(r, k)
  PROVE  \E s \in PageSeq :
           /\ vm' = [vm EXCEPT ![r] = [vm[r] EXCEPT !.pages = s]]
           /\ Len(s) = Len(vm[r].pages)
           /\ \A i \in 1 .. Len(s) : s[i] = IF i < k THEN vm[r].pages[i]
                                            ELSE [val |-> 0, st |-> "bad"]
<1>1. vm[r] \in Regions /\ vm[r].pages \in PageSeq /\ r \in Ids /\ vm \in [Ids -> Regions]
  BY TypesAre, Constants DEF Regions
<1> DEFINE n == Len(vm[r].pages)
           s == [i \in 1 .. n |-> IF i < k THEN vm[r].pages[i] ELSE [val |-> 0, st |-> "bad"]]
<1>2. n \in 0 .. NPages /\ DOMAIN vm[r].pages = 1 .. n /\ \A i \in 1 .. n : vm[r].pages[i] \in Pages
  BY <1>1, SomeRegion
<1>3. [val |-> 0, st |-> "bad"] \in Pages
  BY Constants DEF Pages
<1>4. vm' = [vm EXCEPT ![r] = [vm[r] EXCEPT !.pages = s]]
  BY <1>1, <1>2 DEF Truncate
<1> HIDE DEF n
<1>5. \A i \in 1 .. n : (IF i < k THEN vm[r].pages[i] ELSE [val |-> 0, st |-> "bad"]) \in Pages
  BY <1>2, <1>3
<1>6. s \in Seq(Pages) /\ Len(s) = n
  BY <1>2, <1>5
<1>7. s \in PageSeq
  BY <1>2, <1>6, Constants DEF PageSeq
<1> QED
  BY <1>4, <1>6, <1>7 DEF n

\* The program changes the protection of r.
Protects(r) == \E p \in Asked : Mprotect(r, p)

LEMMA MprotectIs ==
  ASSUME Types, NEW r \in Users, Protects(r)
  PROVE  \E p \in Asked : /\ Mprotect(r, p) /\ p \in Prots
                          /\ vm' = [vm EXCEPT ![r] = [vm[r] EXCEPT !.prot = p]]
BY TypesAre, Constants DEF Protects, Mprotect, Prots, Asked

\* What the program and the kernel do to a region.
LEMMA ProgramKeeps ==
  ASSUME Types, NEW r \in Users, NEW k \in PageNo,
         Touch(r, k) \/ Truncate(r, k) \/ PageOut(r, k) \/ Protects(r)
  PROVE  Types'
<1>1. vm[r] \in Regions /\ r \in Ids /\ vm \in [Ids -> Regions]
  BY TypesAre, Constants
<1>2. pc = "run" /\ UNCHANGED <<pc, gen, fileVars, loopVars, image>> /\ writes' \in 0 .. MaxWrites
  <2>1. pc = "run" /\ UNCHANGED <<pc, gen, fileVars, loopVars, image>>
    BY DEF Touch, Truncate, PageOut, Protects, Mprotect
  <2>2. writes' = writes \/ (writes < MaxWrites /\ writes' = writes + 1)
    BY DEF Touch, Truncate, PageOut, Protects, Mprotect
  <2> QED
    BY <2>1, <2>2, TypesAre, Constants, SMTT(30)
<1>3. CASE Protects(r)
  BY <1>1, <1>2, <1>3, MprotectIs, NewProt, OneRegion, MemoryKeeps
<1>4. CASE Touch(r, k) \/ Truncate(r, k) \/ PageOut(r, k)
  <2>1. \E s \in PageSeq : vm' = [vm EXCEPT ![r] = [vm[r] EXCEPT !.pages = s]]
    <3>1. CASE Touch(r, k)
      BY <3>1, TouchIs
    <3>2. CASE Truncate(r, k)
      BY <3>2, TruncateIs
    <3>3. CASE PageOut(r, k)
      BY <3>3, PageOutIs
    <3> QED
      BY <1>4, <3>1, <3>2, <3>3
  <2> QED
    BY <1>1, <1>2, <2>1, NewPages, OneRegion, MemoryKeeps
<1> QED
  BY <1>3, <1>4


-----------------------------------------------------------------------------
(* The writer keeps the types *)

LEMMA CheckpointKeeps ==
  ASSUME Types, xnd_checkpoint
  PROVE  Types'
<1> DEFINE saved == {r \in Ids : ckpt_vm_valid_region(r)}
           n == Cardinality(saved) + 1
<1>1. IsFiniteSet(saved) /\ n \in Nat
  <2>1. IsFiniteSet(Users)
    BY Constants, FS_Interval
  <2>2. IsFiniteSet(Ids)
    BY <2>1, Constants, FS_AddElement
  <2>3. IsFiniteSet(saved)
    BY <2>2, FS_Subset
  <2> QED
    BY <2>3, FS_CardinalityType
<1>2. Header(n) \in Units /\ Header(n).k = "header"
  BY <1>1, UnitsAre
<1>3. /\ file' = <<Header(n)>> /\ list' = saved /\ pos' = 1 /\ pc' = "entry"
      /\ UNCHANGED <<vm, writes, gen, cap, at, page, before, left, image>>
  BY DEF xnd_checkpoint
<1> HIDE DEF n
<1>4. IsFile(file') /\ Len(file') = 1
  BY <1>2, <1>3 DEF IsFile
<1>5. saved \subseteq Ids
  OBVIOUS
<1> HIDE DEF saved
<1>6. FileType'
  BY <1>3, <1>4, <1>5 DEF Types, FileType, IsFile
<1>7. MemType' /\ ImageType'
  BY <1>3 DEF Types, MemType, ImageType
<1>8. PlaceType'
  BY <1>3, <1>4 DEF PlaceType, Writing, InRegion, Reading
<1> QED
  BY <1>6, <1>7, <1>8 DEF Types

\* The process ends at the assertion of ckpt_vm_valid_region.
LEMMA AbortKeeps ==
  ASSUME Types, xnd_abort
  PROVE  Types'
<1>1. MemType' /\ FileType' /\ ImageType'
  BY DEF xnd_abort, Types, MemType, FileType, ImageType, IsFile, fileVars, loopVars
<1>2. PlaceType'
  BY DEF xnd_abort, PlaceType, Writing, InRegion, Reading
<1> QED
  BY <1>1, <1>2 DEF Types

\* The variables that a step of the writer leaves alone, and its place.
LEMMA WritingIs ==
  ASSUME Types, pc \in Writing
  PROVE  /\ IsFile(file) /\ file \in Seq(Units) /\ Len(file) \in Nat
         /\ pos \in 1 .. Len(file) /\ pos \in 0 .. Len(file) /\ cap \in Nat
         /\ at \in Ids /\ vm \in [Ids -> Regions] /\ vm[at] \in Regions
BY TypesAre DEF PlaceType, Writing, Reading

LEMMA ImageKeeps ==
  ASSUME Types, UNCHANGED image
  PROVE  ImageType'
BY DEF Types, ImageType

LEMMA EntryKeeps ==
  ASSUME Types, write_entry
  PROVE  Types'
<1> DEFINE units == IF list = {} THEN <<Tag("context"), Context>> ELSE <<Tag("region")>>
<1>1. pc = "entry" /\ pc \in Writing /\ UNCHANGED <<vm, writes, gen, cap>>
  BY DEF write_entry, Writing
<1>2. units \in Seq(Units) /\ Len(units) \in {1, 2}
  BY UnitsAre
<1>3. IsFile(Written(pos, units)) /\ Len(Written(pos, units)) \in Nat
  <2>1. file \in Seq(Units) /\ cap \in Nat /\ pos \in 0 .. Len(file) /\ IsFile(file) /\ pos >= 1
        /\ Len(file) \in Nat
    BY <1>1, WritingIs
  <2> HIDE DEF units
  <2>2. /\ Written(pos, units) \in Seq(Units) /\ Len(Written(pos, units)) >= Len(file)
        /\ \A j \in 1 .. pos : Written(pos, units)[j] = file[j]
    BY <2>1, <1>2, WrittenIs
  <2> QED
    BY <2>1, <2>2 DEF IsFile
<1>4. CASE ~Complete(pos, units)
  <2>1. pc' = "run" /\ Forget /\ UNCHANGED image
    BY <1>4 DEF write_entry, Bad
  <2> QED
    BY <1>1, <2>1, ForgetKeeps, ImageKeeps
<1>5. CASE Complete(pos, units) /\ list = {}
  <2>1. /\ pc' = "run" /\ Forget
        /\ image' = [file |-> Written(pos, units), vm |-> vm, asked |-> asked]
    BY <1>5 DEF write_entry
  <2>2. ImageType'
    BY <1>1, <1>3, <2>1, WritingIs DEF ImageType
  <2> QED
    BY <1>1, <2>1, <2>2, ForgetKeeps
<1>6. CASE Complete(pos, units) /\ list # {}
  <2>1. /\ file' = Written(pos, units) /\ pos' = pos + Fit(pos, units) /\ pc' = "region"
        /\ at' \in list /\ list' = list \ {at'} /\ UNCHANGED <<page, before, left, image>>
    BY <1>6 DEF write_entry, writeall
  <2> HIDE DEF units
  <2>2. /\ IsFile(file') /\ Len(file') >= Len(file) /\ pos + Fit(pos, units) \in 0 .. Len(file')
        /\ Fit(pos, units) \in Nat
    BY <1>1, <1>2, <2>1, WritingIs, WritesKeep
  <2>3. FileType'
    BY <2>1, <2>2 DEF Types, FileType, IsFile
  <2>4. MemType' /\ ImageType'
    BY <1>1, <2>1, ImageKeeps DEF Types, MemType
  <2>5. PlaceType'
    BY <1>1, <2>1, <2>2, WritingIs DEF PlaceType, Writing, InRegion, Reading
  <2> QED
    BY <2>3, <2>4, <2>5 DEF Types
<1> QED
  BY <1>4, <1>5, <1>6

\* The pages of a region that are dirty.
LEMMA DirtyIs ==
  ASSUME Types, NEW r \in Ids
  PROVE  /\ Dirty(r) = DirtyIn(vm[r]) /\ IsFiniteSet(DirtyIn(vm[r]))
         /\ Cardinality(Dirty(r)) \in Nat /\ Cardinality(Dirty(r)) <= Len(vm[r].pages)
<1>1. vm[r] \in Regions
  BY TypesAre
<1>2. DOMAIN vm[r].pages = 1 .. Len(vm[r].pages) /\ Len(vm[r].pages) \in Nat
  BY <1>1, SomeRegion, Constants
<1>3. Dirty(r) = DirtyIn(vm[r])
  BY <1>2 DEF Dirty, DirtyIn
<1>4. IsFiniteSet(1 .. Len(vm[r].pages)) /\ Cardinality(1 .. Len(vm[r].pages)) = Len(vm[r].pages)
  BY <1>2, FS_Interval
<1>5. DirtyIn(vm[r]) \subseteq 1 .. Len(vm[r].pages)
  BY DEF DirtyIn
<1> QED
  BY <1>2, <1>3, <1>4, <1>5, FS_Subset, FS_CardinalityType

LEMMA StructIs ==
  ASSUME Types, NEW r \in Ids, NEW n \in 0 .. NPages, NEW d \in BOOLEAN
  PROVE  /\ Struct(r, n, d) \in Units /\ Struct(r, n, d).k = "struct"
         /\ Struct(r, n, d).n \in Structs
         /\ Struct(r, n, d).n.r = r /\ Struct(r, n, d).n.size = n
         /\ Struct(r, n, d).n.prot = vm[r].prot /\ Struct(r, n, d).n.dirty_only = d
         /\ Struct(r, n, d).n.dirtied = Cardinality(Dirty(r))
<1>1. vm[r].prot \in Prots
  BY TypesAre, SomeRegion
<1>2. Cardinality(Dirty(r)) \in Nat
  BY DirtyIs
<1> QED
  BY <1>1, <1>2 DEF Struct, Structs, Units

\* Both ways write_vm_region goes on.
LEMMA WriteRegionIs ==
  ASSUME Types, write_vm_region
  PROVE  LET n == Len(vm[at].pages)
             d == Cardinality(Dirty(at))
             dirty_only == vm[at].kind \in {"malloc", "cache"} /\ 3 * d < 2 * n + 1
             s == Struct(at, n, dirty_only)
         IN /\ pc = "region" /\ UNCHANGED <<writes, gen, cap, image>>
            /\ \/ Fit(pos, <<s>>) # 1 /\ pc' = "run" /\ Forget /\ UNCHANGED vm
               \/ /\ Fit(pos, <<s>>) = 1 /\ file' = Written(pos, <<s>>) /\ pos' = pos + 1
                  /\ pc' = IF dirty_only THEN "dirty" ELSE "all"
                  /\ page' = 1 /\ before' = pos /\ UNCHANGED <<list, at, left>>
                  /\ vm' = IF dirty_only \/ vm[at].prot # "none" THEN vm
                           ELSE [vm EXCEPT ![at] = [vm[at] EXCEPT !.prot = "r"]]
<1> DEFINE n == Len(vm[at].pages)
           d == Cardinality(Dirty(at))
           dirty_only == vm[at].kind \in {"malloc", "cache"} /\ 3 * d < 2 * n + 1
           x == ONLY_SAVE_DIRTY_PAGES(at) /\ d * (PageStruct + PageSize) < n * PageSize + StructSize
           s == Struct(at, n, x)
<1>1. d \in Nat /\ n \in Nat /\ at \in Ids /\ vm \in [Ids -> Regions]
  BY DirtyIs, TypesAre, SomeRegion, Constants, SMTT(30)
<1>2. dirty_only = x
  <2> HIDE DEF d, n
  <2> QED
    BY <1>1 DEF ONLY_SAVE_DIRTY_PAGES, PageStruct, PageSize, StructSize
<1>3. Len(<<s>>) = 1
  OBVIOUS
<1>4. pc = "region" /\ UNCHANGED <<writes, gen, cap, image>>
  BY DEF write_vm_region
<1>5. ASSUME Fit(pos, <<s>>) = 1
      PROVE  /\ file' = Written(pos, <<s>>) /\ pos' = pos + 1
             /\ pc' = IF x THEN "dirty" ELSE "all"
             /\ page' = 1 /\ before' = pos /\ UNCHANGED <<list, at, left>>
             /\ vm' = IF x \/ vm[at].prot # "none" THEN vm
                      ELSE [vm EXCEPT ![at] = [vm[at] EXCEPT !.prot = "r"]]
  BY <1>1, <1>3, <1>5 DEF write_vm_region, Complete, writeall
<1>6. ASSUME Fit(pos, <<s>>) # 1
      PROVE  pc' = "run" /\ Forget /\ UNCHANGED vm
  BY <1>3, <1>6 DEF write_vm_region, Complete, Bad
<1>7. s = Struct(at, n, dirty_only)
  BY <1>2
<1> HIDE DEF x, s
<1> QED
  BY <1>2, <1>4, <1>5, <1>6, <1>7

LEMMA WriteRegionKeeps ==
  ASSUME Types, write_vm_region
  PROVE  Types'
<1> DEFINE n == Len(vm[at].pages)
           dirty_only == vm[at].kind \in {"malloc", "cache"} /\ 3 * Cardinality(Dirty(at)) < 2 * n + 1
           s == Struct(at, n, dirty_only)
<1>1. pc \in Writing /\ UNCHANGED <<writes, gen, cap, image>>
  BY WriteRegionIs DEF Writing
<1>2. s \in Units /\ s.k = "struct" /\ <<s>> \in Seq(Units) /\ <<s>>[1] = s /\ Len(<<s>>) = 1
  <2>1. n \in 0 .. NPages /\ at \in Ids /\ dirty_only \in BOOLEAN
    BY TypesAre, SomeRegion
  <2> HIDE DEF n, dirty_only
  <2>2. s \in Units /\ s.k = "struct"
    BY <2>1, StructIs
  <2> QED
    BY <2>2
<1>3. CASE pc' = "run" /\ Forget /\ UNCHANGED vm
  BY <1>1, <1>3, ForgetKeeps, ImageKeeps
<1>4. CASE /\ Fit(pos, <<s>>) = 1 /\ file' = Written(pos, <<s>>) /\ pos' = pos + 1
           /\ pc' = (IF dirty_only THEN "dirty" ELSE "all")
           /\ page' = 1 /\ before' = pos /\ UNCHANGED <<list, at, left>>
           /\ vm' = IF dirty_only \/ vm[at].prot # "none" THEN vm
                    ELSE [vm EXCEPT ![at] = [vm[at] EXCEPT !.prot = "r"]]
  <2>0. /\ Fit(pos, <<s>>) = 1 /\ file' = Written(pos, <<s>>) /\ pos' = pos + 1
        /\ pc' \in {"dirty", "all"} /\ page' = 1 /\ before' = pos /\ UNCHANGED <<list, at, left>>
        /\ vm' = vm \/ vm' = [vm EXCEPT ![at] = [vm[at] EXCEPT !.prot = "r"]]
    BY <1>4
  <2> HIDE DEF dirty_only, s, n
  <2>1. pos \in 1 .. Len(file) /\ IsFile(file) /\ Len(file) \in Nat /\ vm \in [Ids -> Regions]
        /\ at \in Ids /\ vm[at] \in Regions
    BY <1>1, WritingIs
  <2>2. /\ IsFile(file') /\ Len(file') >= Len(file)
        /\ pos + 1 \in 0 .. Len(file')
    BY <1>2, <2>0, <2>1, WritesKeep
  <2>3. file'[pos + 1] = s /\ Len(file') \in Nat
    <3>1. file \in Seq(Units) /\ cap \in Nat /\ pos \in 0 .. Len(file)
      BY <1>1, WritingIs
    <3> DEFINE us == <<s>>
    <3>2. us \in Seq(Units) /\ Fit(pos, us) = 1
      BY <1>2, <2>0
    <3> HIDE DEF us
    <3>3. \A j \in 1 .. Fit(pos, us) : Written(pos, us)[pos + j] = us[j]
      BY <3>1, <3>2, WrittenIs
    <3>4. Written(pos, us)[pos + 1] = us[1]
      BY <3>2, <3>3
    <3> QED
      BY <3>4, <1>2, <2>0, <2>2 DEF IsFile, us
  <2>4. vm' \in [Ids -> Regions] /\ Len(vm'[at].pages) \in Nat
    <3>1. "r" \in Prots
      BY DEF Prots, Asked
    <3>2. vm' \in [Ids -> Regions]
      BY <3>1, <2>0, <2>1, NewProt, OneRegion
    <3>3. vm'[at] \in Regions
      BY <2>1, <3>2
    <3> QED
      BY <3>2, <3>3, SomeRegion, Constants
  <2>5. FileType'
    <3>1. file' \in Seq(Units) /\ pos' \in 0 .. Len(file')
      BY <2>0, <2>2 DEF IsFile
    <3>2. list' \subseteq Ids /\ at' \in Ids /\ left' \in Nat \X Nat
      BY <2>0, <2>1 DEF Types, FileType
    <3>3. page' \in 1 .. NPages + 1 /\ before' \in Nat
      BY <2>0, <2>1, <2>2, Constants, TypesAre
    <3> QED
      BY <3>1, <3>2, <3>3 DEF FileType
  <2>6. MemType' /\ ImageType'
    BY <1>1, <2>4, ImageKeeps DEF Types, MemType
  <2>7. IsStruct(file', pos + 1)
    BY <1>2, <2>1, <2>2, <2>3 DEF IsStruct
  <2>8. PlaceType'
    BY <2>0, <2>1, <2>2, <2>4, <2>7 DEF PlaceType, Writing, InRegion, Reading
  <2> QED
    BY <2>5, <2>6, <2>8 DEF Types
<1> HIDE DEF s, dirty_only
<1> QED
  BY <1>3, <1>4, WriteRegionIs DEF s, dirty_only

\* In a region the struct at before stays what it is.
LEMMA InRegionIs ==
  ASSUME Types, pc \in InRegion
  PROVE  /\ pc \in Writing /\ before \in Nat /\ before >= 1 /\ IsStruct(file, before + 1)
         /\ page \in 1 .. Len(vm[at].pages) + 1 /\ page \in Nat
         /\ vm[at].pages \in Seq(Pages) /\ Len(vm[at].pages) \in Nat /\ Len(vm[at].pages) <= NPages
         /\ DOMAIN vm[at].pages = 1 .. Len(vm[at].pages)
<1>1. /\ pc \in Writing /\ before \in Nat /\ before >= 1 /\ IsStruct(file, before + 1)
      /\ page <= Len(vm[at].pages) + 1 /\ page \in Nat /\ page >= 1
  BY TypesAre DEF PlaceType, Writing, InRegion
<1>2. vm[at] \in Regions
  BY <1>1, WritingIs
<1>3. /\ vm[at].pages \in Seq(Pages) /\ Len(vm[at].pages) \in Nat /\ Len(vm[at].pages) <= NPages
      /\ DOMAIN vm[at].pages = 1 .. Len(vm[at].pages)
  BY <1>2, SomeRegion, Constants
<1> QED
  BY <1>1, <1>3

LEMMA PageUnits ==
  ASSUME NEW k \in PageNo, NEW v \in -1 .. MaxWrites
  PROVE  /\ <<PageAt(k)>> \o Data(v) \in Seq(Units) /\ Len(<<PageAt(k)>> \o Data(v)) = 3
         /\ (<<PageAt(k)>> \o Data(v))[1] = PageAt(k)
         /\ (<<PageAt(k)>> \o Data(v))[2] = [k |-> "data", n |-> v]
         /\ (<<PageAt(k)>> \o Data(v))[3] = [k |-> "data", n |-> v]
<1>1. PageAt(k) \in Units /\ [k |-> "data", n |-> v] \in Units
  BY UnitsAre
<1>2. ASSUME NEW a \in Units, NEW b \in Units
      PROVE  /\ <<a>> \o <<b, b>> \in Seq(Units) /\ Len(<<a>> \o <<b, b>>) = 3
             /\ (<<a>> \o <<b, b>>)[1] = a /\ (<<a>> \o <<b, b>>)[2] = b
             /\ (<<a>> \o <<b, b>>)[3] = b
  OBVIOUS
<1> QED
  BY <1>1, <1>2 DEF Data

LEMMA DirtyStepIs ==
  ASSUME Types, write_vm_region_dirty
  PROVE  LET units == <<PageAt(page)>> \o Data(vm[at].pages[page].val)
         IN /\ pc = "dirty" /\ UNCHANGED <<vm, writes, gen, cap, image>>
            /\ \/ /\ page \in 1 .. Len(vm[at].pages) /\ page \notin Dirty(at)
                  /\ page' = page + 1 /\ UNCHANGED <<pc, file, pos, list, at, before, left>>
               \/ /\ page \in 1 .. Len(vm[at].pages) /\ page \in Dirty(at)
                  /\ vm[at].prot = "none" \/ Fit(pos, units) # 3
                  /\ pc' = "run" /\ Forget
               \/ /\ page \in 1 .. Len(vm[at].pages) /\ page \in Dirty(at)
                  /\ vm[at].prot # "none" /\ Fit(pos, units) = 3
                  /\ file' = Written(pos, units) /\ pos' = pos + 3
                  /\ page' = page + 1 /\ UNCHANGED <<pc, list, at, before, left>>
               \/ /\ page = Len(vm[at].pages) + 1
                  /\ pc' = "entry" /\ UNCHANGED <<file, pos, list, at, page, before, left>>
<1> DEFINE units == <<PageAt(page)>> \o Data(vm[at].pages[page].val)
<1>1. pc = "dirty" /\ UNCHANGED <<vm, writes, gen, cap, image>>
  BY DEF write_vm_region_dirty
<1>2. page \in 1 .. Len(vm[at].pages) + 1 /\ DOMAIN vm[at].pages = 1 .. Len(vm[at].pages)
      /\ Len(vm[at].pages) \in Nat /\ Len(vm[at].pages) <= NPages
  BY <1>1, InRegionIs DEF InRegion
<1>3. CASE page = Len(vm[at].pages) + 1
  <2>1. page \notin DOMAIN vm[at].pages
    BY <1>2, <1>3
  <2>2. pc' = "entry" /\ UNCHANGED <<file, pos, list, at, page, before, left>>
    BY <2>1 DEF write_vm_region_dirty
  <2> QED
    BY <1>1, <1>3, <2>2
<1>4. CASE page \in DOMAIN vm[at].pages
  <2>1. Len(units) = 3
    <3>1. page \in PageNo
      BY <1>2, <1>4, Constants
    <3>2. vm[at].pages[page].val \in -1 .. MaxWrites
      BY <1>4, <1>2, TypesAre, SomeRegion
    <3> QED
      BY <3>1, <3>2, PageUnits
  <2> HIDE DEF units
  <2>2. \/ page \notin Dirty(at) /\ page' = page + 1 /\ UNCHANGED <<pc, file, pos, list, at, before, left>>
        \/ /\ page \in Dirty(at)
           /\ vm[at].prot = "none" \/ Fit(pos, units) # 3
           /\ pc' = "run" /\ Forget
        \/ /\ page \in Dirty(at)
           /\ vm[at].prot # "none" /\ Fit(pos, units) = 3
           /\ file' = Written(pos, units) /\ pos' = pos + 3
           /\ page' = page + 1 /\ UNCHANGED <<pc, list, at, before, left>>
    BY <1>4, <2>1 DEF write_vm_region_dirty, Bad, writeall, Complete, units
  <2> QED
    BY <1>1, <1>2, <1>4, <2>2 DEF units
<1> QED
  BY <1>2, <1>3, <1>4

\* A region's pages and struct stay where they are when the file grows.
LEMMA GrowKeeps ==
  ASSUME Types, pc \in InRegion, pc' \in {"dirty", "all"}, IsFile(file'), Len(file') \in Nat,
         \A j \in 1 .. pos : file'[j] = file[j], Len(file') >= Len(file),
         pos' \in pos .. Len(file'), pos >= before + 1, page' \in 1 .. Len(vm[at].pages) + 1,
         UNCHANGED <<vm, writes, gen, cap, list, at, before, left, image>>
  PROVE  Types'
<1>1. /\ pc \in Writing /\ before \in Nat /\ before >= 1 /\ IsStruct(file, before + 1)
      /\ Len(vm[at].pages) \in Nat /\ Len(vm[at].pages) <= NPages
  BY InRegionIs
<1>2. pos \in 1 .. Len(file) /\ Len(file) \in Nat
  BY <1>1, WritingIs
<1>3. FileType'
  BY <1>1, <1>2, Constants, SMTT(30) DEF Types, FileType, IsFile
<1>4. MemType' /\ ImageType'
  BY ImageKeeps DEF Types, MemType
<1>5. IsStruct(file', before + 1)
  BY <1>1, <1>2 DEF IsStruct
<1>6. PlaceType'
  BY <1>1, <1>2, <1>5 DEF PlaceType, Writing, InRegion, Reading
<1> QED
  BY <1>3, <1>4, <1>6 DEF Types

LEMMA DirtyKeeps ==
  ASSUME Types, write_vm_region_dirty
  PROVE  Types'
<1> DEFINE units == <<PageAt(page)>> \o Data(vm[at].pages[page].val)
<1>1. /\ pc = "dirty" /\ pc \in Writing /\ pc \in InRegion /\ UNCHANGED <<vm, writes, gen, cap, image>>
  BY DirtyStepIs DEF Writing, InRegion
<1>2. /\ before \in Nat /\ before >= 1 /\ IsStruct(file, before + 1) /\ page \in Nat /\ page >= 1
      /\ Len(vm[at].pages) \in Nat /\ Len(vm[at].pages) <= NPages
  BY <1>1, InRegionIs
<1>3. pos \in 1 .. Len(file) /\ Len(file) \in Nat /\ IsFile(file) /\ pos \in Nat /\ pos >= before + 1
  BY <1>1, <1>2, WritingIs, TypesAre DEF PlaceType
<1>4. CASE /\ page \in 1 .. Len(vm[at].pages)
           /\ page' = page + 1 /\ UNCHANGED <<pc, file, pos, list, at, before, left>>
  BY <1>1, <1>2, <1>3, <1>4, GrowKeeps
<1>5. CASE pc' = "run" /\ Forget
  BY <1>1, <1>5, ForgetKeeps, ImageKeeps
<1>6. CASE /\ page \in 1 .. Len(vm[at].pages) /\ Fit(pos, units) = 3
           /\ file' = Written(pos, units) /\ pos' = pos + 3
           /\ page' = page + 1 /\ UNCHANGED <<pc, list, at, before, left>>
  <2>1. units \in Seq(Units)
    <3>1. page \in PageNo
      BY <1>2, <1>6, Constants
    <3>2. vm[at].pages[page].val \in -1 .. MaxWrites
      BY <1>6, TypesAre, SomeRegion
    <3> QED
      BY <3>1, <3>2, PageUnits
  <2> HIDE DEF units
  <2>2. /\ IsFile(file') /\ Len(file') >= Len(file) /\ pos + 3 \in 0 .. Len(file')
        /\ \A j \in 1 .. pos : file'[j] = file[j]
    BY <1>3, <1>6, <2>1, WritesKeep
  <2>3. Len(file') \in Nat
    BY <2>2 DEF IsFile
  <2> QED
    BY <1>1, <1>2, <1>3, <1>6, <2>2, <2>3, GrowKeeps
<1>7. CASE pc' = "entry" /\ UNCHANGED <<file, pos, list, at, page, before, left>>
  <2>1. MemType' /\ FileType' /\ ImageType'
    BY <1>1, <1>7, ImageKeeps DEF Types, MemType, FileType
  <2>2. PlaceType'
    BY <1>1, <1>3, <1>7 DEF PlaceType, Writing, InRegion, Reading
  <2> QED
    BY <2>1, <2>2 DEF Types
<1> HIDE DEF units
<1> QED
  BY <1>4, <1>5, <1>6, <1>7, DirtyStepIs DEF units

\* One page, or the end of the region.
LEMMA AllStepIs ==
  ASSUME Types, write_vm_region_all_pages
  PROVE  LET units == Data(vm[at].pages[page].val)
         IN /\ pc = "all" /\ UNCHANGED <<vm, writes, gen, cap, list, at, before, left, image>>
            /\ \/ /\ page = Len(vm[at].pages) + 1
                     \/ (page \in 1 .. Len(vm[at].pages) /\ vm[at].pages[page].st = "bad")
                  /\ file' = Written(pos, <<>>)
                  /\ pos' = pos /\ pc' = "fix" /\ UNCHANGED page
               \/ /\ page \in 1 .. Len(vm[at].pages) /\ vm[at].pages[page].st # "bad"
                  /\ file' = Written(pos, units)
                  /\ \/ Fit(pos, units) = 2 /\ pos' = pos + 2 /\ page' = page + 1 /\ UNCHANGED pc
                     \/ Fit(pos, units) # 2 /\ pos' = pos - Fit(pos, units) /\ pc' = "fix" /\ UNCHANGED page
<1> DEFINE more == page \in DOMAIN vm[at].pages /\ vm[at].pages[page].st # "bad"
           units == IF more THEN Data(vm[at].pages[page].val) ELSE <<>>
           n == Fit(pos, units)
<1>1. pc = "all" /\ UNCHANGED <<vm, writes, gen, cap, list, at, before, left, image>>
  BY DEF write_vm_region_all_pages
<1>2. /\ page \in 1 .. Len(vm[at].pages) + 1 /\ DOMAIN vm[at].pages = 1 .. Len(vm[at].pages)
      /\ Len(vm[at].pages) \in Nat /\ pos \in Nat /\ cap \in Nat
  BY <1>1, InRegionIs, TypesAre DEF InRegion
<1>3. /\ file' = Written(pos, units)
      /\ n = 2 => pos' = pos + n /\ page' = page + 1 /\ UNCHANGED pc
      /\ n # 2 => pos' = pos - n /\ pc' = "fix" /\ UNCHANGED page
  BY DEF write_vm_region_all_pages, PageSize
<1>4. CASE more
  <2>1. units = Data(vm[at].pages[page].val)
    BY <1>4
  <2> HIDE DEF more, units
  <2> QED
    BY <1>1, <1>2, <1>3, <1>4, <2>1 DEF more
<1>5. CASE ~more
  <2>1. units = <<>>
    BY <1>5
  <2>2. Fit(pos, <<>>) = 0
    BY <1>2 DEF Fit
  <2> HIDE DEF units
  <2> QED
    BY <1>1, <1>2, <1>3, <1>5, <2>1, <2>2
<1> QED
  BY <1>4, <1>5

LEMMA AllKeeps ==
  ASSUME Types, write_vm_region_all_pages
  PROVE  Types'
<1>1. /\ pc = "all" /\ pc \in Writing /\ pc \in InRegion
      /\ UNCHANGED <<vm, writes, gen, cap, list, at, before, left, image>>
  BY AllStepIs DEF Writing, InRegion
<1>2. /\ before \in Nat /\ before >= 1 /\ IsStruct(file, before + 1) /\ page \in Nat /\ page >= 1
      /\ Len(vm[at].pages) \in Nat /\ Len(vm[at].pages) <= NPages /\ page <= Len(vm[at].pages) + 1
  BY <1>1, InRegionIs
<1>3. pos \in 1 .. Len(file) /\ Len(file) \in Nat /\ IsFile(file) /\ pos \in Nat /\ pos >= before + 1
  BY <1>1, <1>2, WritingIs, TypesAre DEF PlaceType
<1>4. ASSUME NEW units \in Seq(Units), file' = Written(pos, units), Len(units) <= 2,
             \/ /\ page \in 1 .. Len(vm[at].pages)
                /\ Fit(pos, units) = 2 /\ pos' = pos + 2 /\ page' = page + 1 /\ UNCHANGED pc
             \/ Fit(pos, units) # 2 /\ pos' = pos - Fit(pos, units) /\ pc' = "fix" /\ UNCHANGED page
      PROVE  Types'
  <2>1. /\ IsFile(file') /\ Len(file') >= Len(file) /\ pos + Fit(pos, units) \in 0 .. Len(file')
        /\ \A j \in 1 .. pos : file'[j] = file[j] /\ Fit(pos, units) \in 0 .. Len(units)
    BY <1>3, <1>4, WritesKeep
  <2>2. Len(file') \in Nat /\ Len(units) \in Nat
    BY <2>1 DEF IsFile
  <2>3. CASE Fit(pos, units) = 2
    BY <1>1, <1>2, <1>3, <1>4, <2>1, <2>2, <2>3, GrowKeeps
  <2>4. CASE Fit(pos, units) # 2
    <3>1. Fit(pos, units) \in 0 .. 1
      BY <2>1, <2>2, <2>4, <1>3, <1>4
    <3>2. FileType'
      BY <1>1, <1>2, <1>3, <1>4, <2>1, <2>2, <2>4, <3>1, SMTT(30) DEF Types, FileType, IsFile
    <3>3. MemType' /\ ImageType'
      BY <1>1, ImageKeeps DEF Types, MemType
    <3>4. IsStruct(file', before + 1)
      BY <1>1, <1>2, <1>3, <2>1, <2>2 DEF IsStruct
    <3>5. PlaceType'
      BY <1>1, <1>2, <1>3, <1>4, <2>1, <2>4, <3>1, <3>4, SMTT(30) DEF PlaceType, Writing, InRegion, Reading
    <3> QED
      BY <3>2, <3>3, <3>5 DEF Types
  <2> QED
    BY <2>3, <2>4
<1>5. CASE file' = Written(pos, <<>>) /\ pos' = pos /\ pc' = "fix" /\ UNCHANGED page
  <2>1. <<>> \in Seq(Units) /\ Len(<<>>) = 0
    OBVIOUS
  <2>2. Fit(pos, <<>>) = 0
    BY <1>3, WritingIs, <1>1 DEF Fit
  <2> DEFINE none == <<>>
  <2>3. none \in Seq(Units) /\ Len(none) <= 2 /\ file' = Written(pos, none)
    BY <1>5, <2>1
  <2>4. Fit(pos, none) # 2 /\ pos' = pos - Fit(pos, none) /\ pc' = "fix" /\ UNCHANGED page
    BY <1>3, <1>5, <2>2
  <2> HIDE DEF none
  <2> QED
    BY <1>4, <2>3, <2>4
<1> DEFINE units == Data(vm[at].pages[page].val)
<1>6. CASE /\ page \in 1 .. Len(vm[at].pages)
           /\ file' = Written(pos, units)
           /\ \/ Fit(pos, units) = 2 /\ pos' = pos + 2 /\ page' = page + 1 /\ UNCHANGED pc
              \/ Fit(pos, units) # 2 /\ pos' = pos - Fit(pos, units) /\ pc' = "fix" /\ UNCHANGED page
  <2>1. vm[at].pages[page].val \in -1 .. MaxWrites
    BY <1>6, TypesAre, SomeRegion
  <2>3. units \in Seq(Units) /\ Len(units) = 2
    BY <2>1, UnitsAre
  <2>2. units \in Seq(Units) /\ Len(units) <= 2
    BY <2>3
  <2> HIDE DEF units
  <2> QED
    BY <1>4, <1>6, <2>2, Zenon
<1> HIDE DEF units
<1> QED
  BY <1>5, <1>6, AllStepIs DEF units

\* A struct whose size is corrected.
Sized(s, n) == [s EXCEPT !.size = n]
Cut(f, p, n) == [f EXCEPT ![p].n.size = n]

LEMMA SizedIs ==
  ASSUME NEW s \in Structs, NEW n \in 0 .. NPages
  PROVE  /\ Sized(s, n) \in Structs /\ Sized(s, n).r = s.r /\ Sized(s, n).size = n
         /\ Sized(s, n).prot = s.prot /\ Sized(s, n).dirty_only = s.dirty_only
         /\ Sized(s, n).dirtied = s.dirtied
BY DEF Structs, Sized

LEMMA CutIs ==
  ASSUME NEW f \in Seq(Units), NEW p, IsStruct(f, p), NEW n \in 0 .. NPages
  PROVE  /\ Cut(f, p, n) \in Seq(Units) /\ Len(Cut(f, p, n)) = Len(f)
         /\ \A j \in 1 .. Len(f) : j # p => Cut(f, p, n)[j] = f[j]
         /\ Cut(f, p, n)[p].k = "struct" /\ Cut(f, p, n)[p].n = Sized(f[p].n, n)
<1> DEFINE s == Sized(f[p].n, n)
           u == [k |-> "struct", n |-> s]
           g == Cut(f, p, n)
<1>1. p \in 1 .. Len(f) /\ f[p].k = "struct" /\ Len(f) \in Nat /\ DOMAIN f = 1 .. Len(f)
  BY DEF IsStruct
<1>2. f[p] \in Units /\ f[p].n \in Structs
  BY <1>1, UnitIs
<1>3. s \in Structs
  BY <1>2, SizedIs
<1>4. u \in Units /\ u.k = "struct" /\ u.n = s
  BY <1>3 DEF Units
<1>5. [f[p] EXCEPT !.n = s] = u
  BY <1>1, <1>2 DEF Units
<1>6. g = [f EXCEPT ![p] = [f[p] EXCEPT !.n = s]]
  BY DEF Cut, Sized
<1>8. g = [f EXCEPT ![p] = u]
  BY <1>5, <1>6
<1> HIDE DEF g, u
<1>9. g \in Seq(Units) /\ Len(g) = Len(f) /\ \A j \in 1 .. Len(f) : g[j] = IF j = p THEN u ELSE f[j]
  <2>1. g = [j \in 1 .. Len(f) |-> IF j = p THEN u ELSE f[j]]
    BY <1>1, <1>8
  <2>2. \A j \in 1 .. Len(f) : (IF j = p THEN u ELSE f[j]) \in Units
    BY <1>4
  <2> QED
    BY <2>1, <2>2, <1>1
<1>10. g[p] = u
  BY <1>1, <1>9
<1> HIDE DEF s
<1>11. /\ g \in Seq(Units) /\ Len(g) = Len(f) /\ \A j \in 1 .. Len(f) : j # p => g[j] = f[j]
       /\ g[p].k = "struct" /\ g[p].n = s
  BY <1>4, <1>9, <1>10
<1> QED
  BY <1>11 DEF g, s

LEMMA FixIs ==
  ASSUME Types, write_vm_region_fix
  PROVE  /\ pc = "fix" /\ pc' = "entry" /\ UNCHANGED <<writes, gen, pos, cap, loopVars, image>>
         /\ \/ page = Len(vm[at].pages) + 1 /\ file' = file
            \/ /\ page \in 1 .. Len(vm[at].pages) /\ page - 1 \in 0 .. NPages
               /\ file' = Cut(file, before + 1, page - 1)
         /\ \/ file[before + 1].n.prot # "none" /\ vm' = vm
            \/ /\ file[before + 1].n.prot = "none" /\ page = Len(vm[at].pages) + 1
               /\ vm' = [vm EXCEPT ![at] = [vm[at] EXCEPT !.prot = "none"]]
            \/ /\ file[before + 1].n.prot = "none" /\ page \in 1 .. Len(vm[at].pages)
               /\ vm' = [vm EXCEPT ![at] = [vm[at] EXCEPT !.prot = "mixed"]]
<1>1. pc = "fix" /\ pc' = "entry" /\ UNCHANGED <<writes, gen, pos, cap, loopVars, image>>
  BY DEF write_vm_region_fix
<1>2. /\ IsStruct(file, before + 1) /\ file \in Seq(Units)
      /\ page \in 1 .. Len(vm[at].pages) + 1 /\ DOMAIN vm[at].pages = 1 .. Len(vm[at].pages)
      /\ Len(vm[at].pages) \in Nat /\ Len(vm[at].pages) <= NPages
  BY <1>1, InRegionIs, TypesAre DEF InRegion
<1>3. /\ page \in DOMAIN vm[at].pages => page \in 1 .. Len(vm[at].pages) /\ page - 1 \in 0 .. NPages
      /\ page \notin DOMAIN vm[at].pages => page = Len(vm[at].pages) + 1
  BY <1>2, Constants
<1>4. \/ page = Len(vm[at].pages) + 1 /\ file' = file
      \/ /\ page \in 1 .. Len(vm[at].pages) /\ page - 1 \in 0 .. NPages
         /\ file' = Cut(file, before + 1, page - 1)
  <2>1. CASE page \in DOMAIN vm[at].pages
    <3>1. file' = Cut(file, before + 1, page - 1)
      BY <2>1 DEF write_vm_region_fix, Cut
    <3> QED
      BY <2>1, <3>1, <1>3
  <2>2. CASE page \notin DOMAIN vm[at].pages
    BY <2>2, <1>3 DEF write_vm_region_fix
  <2> QED
    BY <2>1, <2>2
<1>5. \/ file[before + 1].n.prot # "none" /\ vm' = vm
      \/ /\ file[before + 1].n.prot = "none" /\ page = Len(vm[at].pages) + 1
         /\ vm' = [vm EXCEPT ![at] = [vm[at] EXCEPT !.prot = "none"]]
      \/ /\ file[before + 1].n.prot = "none" /\ page \in 1 .. Len(vm[at].pages)
         /\ vm' = [vm EXCEPT ![at] = [vm[at] EXCEPT !.prot = "mixed"]]
  BY <1>3 DEF write_vm_region_fix
<1> QED
  BY <1>1, <1>4, <1>5

LEMMA FixKeeps ==
  ASSUME Types, write_vm_region_fix
  PROVE  Types'
<1>1. /\ pc = "fix" /\ pc \in Writing /\ pc \in InRegion /\ pc' = "entry"
      /\ UNCHANGED <<writes, gen, pos, cap, list, at, page, before, left, image>>
  BY FixIs DEF Writing, InRegion, loopVars
<1>2. /\ before \in Nat /\ before >= 1 /\ IsStruct(file, before + 1)
      /\ pos \in 1 .. Len(file) /\ Len(file) \in Nat /\ IsFile(file) /\ pos \in Nat
      /\ at \in Ids /\ vm \in [Ids -> Regions] /\ vm[at] \in Regions
  BY <1>1, InRegionIs, WritingIs, TypesAre DEF PlaceType
<1>3. IsFile(file') /\ Len(file') = Len(file)
  <2>1. CASE file' = file
    BY <1>2, <2>1
  <2>2. CASE page - 1 \in 0 .. NPages /\ file' = Cut(file, before + 1, page - 1)
    <3>1. file \in Seq(Units)
      BY <1>2 DEF IsFile
    <3> DEFINE p == before + 1
               n == page - 1
    <3>2. /\ file' \in Seq(Units) /\ Len(file') = Len(file)
          /\ \A j \in 1 .. Len(file) : j # p => file'[j] = file[j]
      <4>1. IsStruct(file, p) /\ n \in 0 .. NPages /\ file' = Cut(file, p, n)
        BY <1>2, <2>2
      <4> HIDE DEF p, n
      <4> QED
        BY <3>1, <4>1, CutIs
    <3> QED
      BY <3>2, <1>2 DEF IsFile
  <2> QED
    BY <2>1, <2>2, FixIs
<1>4. vm' \in [Ids -> Regions]
  <2>1. "none" \in Prots /\ "mixed" \in Prots
    BY DEF Prots, Asked
  <2> QED
    BY <2>1, <1>2, FixIs, NewProt, OneRegion
<1>5. FileType'
  BY <1>1, <1>2, <1>3 DEF Types, FileType, IsFile
<1>6. MemType' /\ ImageType'
  BY <1>1, <1>4, ImageKeeps DEF Types, MemType
<1>7. PlaceType'
  BY <1>1, <1>2, <1>3 DEF PlaceType, Writing, InRegion, Reading
<1> QED
  BY <1>5, <1>6, <1>7 DEF Types

-----------------------------------------------------------------------------
(* The reader keeps the types *)

\* The address space in which the reader begins.
Emptied(marked) ==
  [r \in Ids |-> IF r = Own THEN [Region("plain") EXCEPT !.marked = marked]
                 ELSE IF Kind(r) = "cache" THEN Region("cache") ELSE Absent]

LEMMA EmptiedIs ==
  ASSUME NEW marked \in BOOLEAN
  PROVE  /\ Emptied(marked) \in [Ids -> Regions]
         /\ Emptied(marked)[Own].marked = marked
         /\ \A r \in Users : Emptied(marked)[r] = IF KindOf[r] = "cache" THEN Region("cache") ELSE Absent
<1>1. "plain" \in Kinds /\ "cache" \in Kinds
  BY DEF Kinds
<1>2. Region("plain") \in Regions /\ Region("cache") \in Regions /\ Absent \in Regions
  BY <1>1, RegionIs, AbsentIs
<1> DEFINE w == [Region("plain") EXCEPT !.marked = marked]
<1>3. w \in Regions /\ w.marked = marked
  BY <1>2 DEF Regions
<1> HIDE DEF w
<1>4. Emptied(marked) = [r \in Ids |-> IF r = Own THEN w
                           ELSE IF Kind(r) = "cache" THEN Region("cache") ELSE Absent]
  BY DEF Emptied, w
<1> QED
  BY <1>2, <1>3, <1>4, Constants

LEMMA RestartIs ==
  ASSUME Types, restart
  PROVE  /\ image # NoImage /\ gen < Restarts /\ gen' = gen + 1
         /\ \E marked \in BOOLEAN : (~MarkFails => marked) /\ vm' = Emptied(marked)
         /\ file' = image.file /\ pos' = 1 /\ list' = {} /\ at' = 0 /\ page' = 1 /\ before' = 0
         /\ left' = <<image.file[1].n, 0>> /\ pc' = "r_entry" /\ UNCHANGED <<writes, cap, image>>
         /\ IsFile(image.file) /\ image.file[1].n \in Nat
<1>1. /\ image # NoImage /\ gen < Restarts /\ gen' = gen + 1
      /\ file' = image.file /\ pos' = 1 /\ list' = {} /\ at' = 0 /\ page' = 1 /\ before' = 0
      /\ left' = <<image.file[1].n, 0>> /\ pc' = "r_entry" /\ UNCHANGED <<writes, cap, image>>
  BY DEF restart
<1>2. PICK marked \in IF MarkFails THEN BOOLEAN ELSE {TRUE} : vm' = Emptied(marked)
  BY DEF restart, Emptied
<1>3. marked \in BOOLEAN /\ (~MarkFails => marked)
  BY <1>2, Constants
<1>4. IsFile(image.file)
  BY <1>1, TypesAre DEF ImageType
<1>5. image.file[1] \in Units /\ image.file[1].k = "header"
  BY <1>4 DEF IsFile
<1> QED
  BY <1>1, <1>2, <1>3, <1>4, <1>5, UnitIs

LEMMA RestartKeeps ==
  ASSUME Types, restart
  PROVE  Types'
<1>1. /\ image # NoImage /\ gen < Restarts /\ gen' = gen + 1
      /\ file' = image.file /\ pos' = 1 /\ list' = {} /\ at' = 0 /\ page' = 1 /\ before' = 0
      /\ left' = <<image.file[1].n, 0>> /\ pc' = "r_entry" /\ UNCHANGED <<writes, cap, image>>
      /\ IsFile(image.file) /\ image.file[1].n \in Nat
  BY RestartIs
<1>2. vm' \in [Ids -> Regions]
  BY RestartIs, EmptiedIs
<1>3. gen \in Nat /\ gen' \in 0 .. Restarts
  BY <1>1, TypesAre, Constants, SMTT(30)
<1>4. MemType' /\ ImageType'
  BY <1>1, <1>2, <1>3, ImageKeeps DEF Types, MemType
<1>5. FileType'
  BY <1>1, Constants DEF FileType, IsFile
<1>6. PlaceType'
  BY <1>1 DEF PlaceType, Writing, InRegion, Reading
<1> QED
  BY <1>4, <1>5, <1>6 DEF Types

LEMMA UnitAt ==
  ASSUME Types, NEW p
  PROVE  /\ p \in 1 .. Len(file) => Unit(p) = file[p] /\ Unit(p) \in Units /\ Unit(p).k # "eof"
         /\ p \notin 1 .. Len(file) => Unit(p) = [k |-> "eof", n |-> 0] /\ Unit(p).k = "eof"
<1>1. DOMAIN file = 1 .. Len(file) /\ \A q \in 1 .. Len(file) : file[q] \in Units
  BY TypesAre
<1>2. p \in 1 .. Len(file) => file[p] \in Units /\ file[p].k # "eof"
  BY <1>1, UnitIs
<1> QED
  BY <1>1, <1>2 DEF Unit

LEMMA PageReadIs ==
  ASSUME Types, NEW p \in Nat
  PROVE  PageRead(p) \in -1 .. MaxWrites
<1>1. CASE Unit(p + 1) = Unit(p + 2) /\ Unit(p + 1).k = "data"
  <2>1. Unit(p + 1) \in Units
    BY <1>1, UnitAt
  <2>2. Unit(p + 1).n \in -1 .. MaxWrites
    BY <1>1, <2>1, UnitIs
  <2> QED
    BY <1>1, <2>2 DEF PageRead
<1>2. CASE ~(Unit(p + 1) = Unit(p + 2) /\ Unit(p + 1).k = "data")
  BY <1>2, Constants DEF PageRead
<1> QED
  BY <1>1, <1>2

\* A step of the reader that changes one region at most.
LEMMA ReadKeeps ==
  ASSUME Types, pc \in Reading, UNCHANGED <<writes, gen, file, cap, list, image>>,
         vm' \in [Ids -> Regions], pos' \in 0 .. Len(file), at' \in Ids,
         page' \in 1 .. NPages + 1, before' \in Nat, left' \in Nat \X Nat,
         pc' \in Reading \cup {"failed"},
         pc' \in {"r_dirty", "r_all"} => IsStruct(file, before' + 1),
         pc' = "r_all" => page' + left'[2] <= NPages + 1
  PROVE  Types'
<1>1. IsFile(file)
  BY TypesAre DEF PlaceType
<1>2. MemType' /\ FileType' /\ ImageType'
  BY ImageKeeps DEF Types, MemType, FileType
<1>3. PlaceType'
  BY <1>1 DEF PlaceType, Writing, InRegion, Reading
<1> QED
  BY <1>2, <1>3 DEF Types

LEMMA FailKeeps ==
  ASSUME Types, pc \in Reading, ReadFails, UNCHANGED <<writes, gen, file, cap, list, before, image>>
  PROVE  Types'
<1>1. pc' = "failed" /\ UNCHANGED <<vm, pos, at, page, left>>
  BY DEF ReadFails
<1>2. /\ vm \in [Ids -> Regions] /\ pos \in 0 .. Len(file) /\ at \in Ids /\ page \in 1 .. NPages + 1
      /\ before \in Nat /\ left \in Nat \X Nat
  BY DEF Types, MemType, FileType
<1> QED
  BY <1>1, <1>2, ReadKeeps

LEMMA ReadEntryKeeps ==
  ASSUME Types, read_entry
  PROVE  Types'
<1>1. pc = "r_entry" /\ pc \in Reading /\ UNCHANGED <<writes, gen, file, cap, list, before, image>>
  BY DEF read_entry, Reading
<1>2. /\ vm \in [Ids -> Regions] /\ pos \in Nat /\ pos <= Len(file) /\ Len(file) \in Nat /\ at \in Ids
      /\ page \in 1 .. NPages + 1 /\ before \in Nat /\ left \in Nat \X Nat /\ left[1] \in Nat
  BY TypesAre, Constants DEF Types, FileType
<1>3. CASE pc' = "resumed" /\ UNCHANGED <<vm, pos, at, page, left>>
  BY <1>1, <1>2, <1>3, ReadKeeps DEF Reading
<1>4. CASE /\ left[1] > 0 /\ Unit(pos + 1) = Tag("region")
           /\ pc' = "r_region" /\ pos' = pos + 1 /\ left' = <<left[1] - 1, 0>>
           /\ UNCHANGED <<vm, at, page>>
  <2>1. pos + 1 \in 1 .. Len(file)
    <3>1. Unit(pos + 1).k = "tag"
      BY <1>4, UnitsAre
    <3> QED
      BY <3>1, UnitAt
  <2>2. left' \in Nat \X Nat
    BY <1>2, <1>4
  <2> QED
    BY <1>1, <1>2, <1>4, <2>1, <2>2, ReadKeeps DEF Reading
<1>5. CASE /\ left[1] > 0 /\ Unit(pos + 1) = Tag("context") /\ Unit(pos + 2) = Context
           /\ pos' = pos + 2 /\ left' = <<left[1] - 1, 0>>
           /\ UNCHANGED <<pc, vm, at, page>>
  <2>1. pos + 2 \in 1 .. Len(file)
    <3>1. Unit(pos + 2).k = "context"
      BY <1>5, UnitsAre
    <3> QED
      BY <3>1, UnitAt
  <2>2. left' \in Nat \X Nat
    BY <1>2, <1>5
  <2> QED
    BY <1>1, <1>2, <1>5, <2>1, <2>2, ReadKeeps DEF Reading
<1>6. CASE ReadFails
  BY <1>1, <1>6, FailKeeps
<1> QED
  BY <1>3, <1>4, <1>5, <1>6 DEF read_entry

\* A mapping of n pages.
Fresh(r, n) == [Region(Kind(r)) EXCEPT !.pages = [k \in 1 .. n |-> FreshPage]]

LEMMA FreshRegion ==
  ASSUME NEW r \in Ids, NEW n \in 0 .. NPages
  PROVE  /\ Fresh(r, n) \in Regions /\ Fresh(r, n).here /\ ~Fresh(r, n).marked
         /\ Fresh(r, n).kind = Kind(r) /\ Fresh(r, n).prot = "rw" /\ Len(Fresh(r, n).pages) = n
         /\ \A k \in 1 .. n : Fresh(r, n).pages[k] = FreshPage
<1> DEFINE w == Region(Kind(r))
           s == [k \in 1 .. n |-> FreshPage]
<1>1. w \in Regions /\ w.here /\ ~w.marked /\ w.kind = Kind(r) /\ w.prot = "rw"
  BY RegionIs, Constants
<1>2. s \in PageSeq /\ Len(s) = n /\ \A k \in 1 .. n : s[k] = FreshPage
  BY FreshIs, Constants DEF PageSeq
<1>3. Fresh(r, n) = [w EXCEPT !.pages = s]
  BY DEF Fresh
<1> HIDE DEF w, s
<1>4. /\ Fresh(r, n) \in Regions /\ Fresh(r, n).pages = s /\ Fresh(r, n).here = w.here
      /\ Fresh(r, n).marked = w.marked /\ Fresh(r, n).kind = w.kind /\ Fresh(r, n).prot = w.prot
  BY <1>1, <1>2, <1>3 DEF Regions
<1> QED
  BY <1>1, <1>2, <1>4

LEMMA RestoreRegionIs ==
  ASSUME Types, ckpt_vm_restore_region
  PROVE  LET s == file[pos + 1].n
         IN /\ pc = "r_region" /\ UNCHANGED <<writes, gen, file, cap, list, image>>
            /\ \/ /\ ~IsStruct(file, pos + 1) \/ s.size = 0
                  /\ ReadFails /\ UNCHANGED before
               \/ /\ IsStruct(file, pos + 1) /\ s \in Structs /\ s.size # 0
                  /\ pc' = IF s.dirty_only THEN "r_dirty" ELSE "r_all"
                  /\ vm' = IF s.dirty_only /\ Kind(s.r) = "cache" THEN vm
                           ELSE [vm EXCEPT ![s.r] = Fresh(s.r, s.size)]
                  /\ at' = s.r /\ page' = 1 /\ pos' = pos + 1 /\ before' = pos
                  /\ left' = <<left[1], IF s.dirty_only THEN s.dirtied ELSE s.size>>
<1> DEFINE u == Unit(pos + 1)
           s == file[pos + 1].n
<1>1. pc = "r_region" /\ UNCHANGED <<writes, gen, file, cap, list, image>>
  BY DEF ckpt_vm_restore_region
<1>2. CASE IsStruct(file, pos + 1)
  <2>1. u = file[pos + 1] /\ u \in Units /\ u.k = "struct"
    BY <1>2, UnitAt DEF IsStruct
  <2>2. s \in Structs /\ u.n = s
    BY <2>1, UnitIs
  <2>3. CASE s.size = 0
    <3>1. ReadFails /\ UNCHANGED before
      BY <2>1, <2>2, <2>3 DEF ckpt_vm_restore_region
    <3> QED
      BY <1>1, <2>3, <3>1
  <2>4. CASE s.size # 0
    <3>1. /\ pc' = IF s.dirty_only THEN "r_dirty" ELSE "r_all"
          /\ vm' = IF s.dirty_only /\ Kind(s.r) = "cache" THEN vm
                   ELSE [vm EXCEPT ![s.r] = Fresh(s.r, s.size)]
          /\ at' = s.r /\ page' = 1 /\ pos' = pos + 1 /\ before' = pos
          /\ left' = <<left[1], IF s.dirty_only THEN s.dirtied ELSE s.size>>
      BY <2>1, <2>2, <2>4 DEF ckpt_vm_restore_region, Fresh
    <3> QED
      BY <1>1, <1>2, <2>2, <2>4, <3>1
  <2> QED
    BY <2>3, <2>4
<1>3. CASE ~IsStruct(file, pos + 1)
  <2>1. u.k # "struct"
    BY <1>3, UnitAt DEF IsStruct
  <2>2. ReadFails /\ UNCHANGED before
    BY <2>1 DEF ckpt_vm_restore_region
  <2> QED
    BY <1>1, <1>3, <2>2
<1> QED
  BY <1>2, <1>3

LEMMA RestoreRegionKeeps ==
  ASSUME Types, ckpt_vm_restore_region
  PROVE  Types'
<1> DEFINE s == file[pos + 1].n
<1>1. pc = "r_region" /\ pc \in Reading /\ UNCHANGED <<writes, gen, file, cap, list, image>>
  BY RestoreRegionIs DEF Reading
<1>2. /\ vm \in [Ids -> Regions] /\ pos \in Nat /\ Len(file) \in Nat /\ left[1] \in Nat
  BY TypesAre
<1>3. CASE ReadFails /\ UNCHANGED before
  BY <1>1, <1>3, FailKeeps
<1>4. CASE /\ IsStruct(file, pos + 1) /\ s \in Structs
           /\ pc' = (IF s.dirty_only THEN "r_dirty" ELSE "r_all")
           /\ vm' = (IF s.dirty_only /\ Kind(s.r) = "cache" THEN vm
                     ELSE [vm EXCEPT ![s.r] = Fresh(s.r, s.size)])
           /\ at' = s.r /\ page' = 1 /\ pos' = pos + 1 /\ before' = pos
           /\ left' = <<left[1], IF s.dirty_only THEN s.dirtied ELSE s.size>>
  <2>1. /\ s.r \in Ids /\ s.size \in 0 .. NPages /\ s.dirty_only \in BOOLEAN /\ s.dirtied \in Nat
    BY <1>4, SomeStruct
  <2>2. pos + 1 \in 0 .. Len(file)
    BY <1>2, <1>4 DEF IsStruct
  <2> HIDE DEF s
  <2>3. Fresh(s.r, s.size) \in Regions
    BY <2>1, FreshRegion
  <2>4. vm' \in [Ids -> Regions]
    BY <1>2, <1>4, <2>1, <2>3, OneRegion
  <2>5. /\ left' \in Nat \X Nat /\ pc' \in {"r_dirty", "r_all"} /\ page' \in 1 .. NPages + 1
        /\ pc' = "r_all" => page' + left'[2] <= NPages + 1
    BY <1>2, <1>4, <2>1, Constants
  <2> QED
    BY <1>1, <1>2, <1>4, <2>1, <2>2, <2>4, <2>5, ReadKeeps DEF Reading
<1> HIDE DEF s
<1> QED
  BY <1>3, <1>4, RestoreRegionIs DEF s

LEMMA RefreshIs ==
  ASSUME Types, ckpt_vm_refresh_region
  PROVE  /\ pc \in {"r_dirty", "r_all"} /\ left[2] = 0 /\ pc' = "r_entry"
         /\ UNCHANGED <<writes, gen, file, pos, cap, list, at, page, before, left, image>>
         /\ vm' = [vm EXCEPT ![at] = [vm[at] EXCEPT !.prot = file[before + 1].n.prot]]
         /\ file[before + 1].n \in Structs
<1>1. /\ pc \in {"r_dirty", "r_all"} /\ left[2] = 0 /\ pc' = "r_entry"
      /\ UNCHANGED <<writes, gen, file, pos, cap, list, at, page, before, left, image>>
      /\ vm' = [vm EXCEPT ![at].prot = Unit(before + 1).n.prot]
  BY DEF ckpt_vm_refresh_region, fileVars, loopVars
<1>2. IsStruct(file, before + 1)
  BY <1>1, TypesAre DEF PlaceType
<1>3. Unit(before + 1) = file[before + 1] /\ Unit(before + 1) \in Units
  BY <1>2, UnitAt DEF IsStruct
<1>4. file[before + 1].n \in Structs
  BY <1>2, <1>3, UnitIs DEF IsStruct
<1> QED
  BY <1>1, <1>3, <1>4

LEMMA RefreshKeeps ==
  ASSUME Types, ckpt_vm_refresh_region
  PROVE  Types'
<1> DEFINE p == file[before + 1].n.prot
<1>1. /\ pc \in Reading /\ pc' = "r_entry"
      /\ UNCHANGED <<writes, gen, file, pos, cap, list, at, page, before, left, image>>
      /\ vm' = [vm EXCEPT ![at] = [vm[at] EXCEPT !.prot = p]]
      /\ p \in Prots
  BY RefreshIs, SomeStruct DEF Reading
<1> HIDE DEF p
<1>2. vm \in [Ids -> Regions] /\ at \in Ids /\ vm[at] \in Regions
  BY TypesAre
<1>3. vm' \in [Ids -> Regions]
  BY <1>1, <1>2, NewProt, OneRegion
<1>4. /\ pos \in 0 .. Len(file) /\ page \in 1 .. NPages + 1 /\ before \in Nat /\ left \in Nat \X Nat
  BY DEF Types, FileType
<1> QED
  BY <1>1, <1>2, <1>3, <1>4, ReadKeeps DEF Reading

\* A page that is read.
ReadPage(p) == [val |-> PageRead(p), st |-> "dirty"]

LEMMA ReadPageIs ==
  ASSUME Types, NEW p \in Nat, NEW k
  PROVE  LET w == [vm[at] EXCEPT !.pages = WithPage(vm[at].pages, k, ReadPage(p))]
         IN /\ w \in Regions
            /\ [vm EXCEPT ![at].pages[k] = [val |-> PageRead(p), st |-> "dirty"]] = [vm EXCEPT ![at] = w]
            /\ [vm EXCEPT ![at] = w] \in [Ids -> Regions]
<1> DEFINE s == WithPage(vm[at].pages, k, ReadPage(p))
           w == [vm[at] EXCEPT !.pages = s]
<1>1. vm \in [Ids -> Regions] /\ at \in Ids /\ vm[at] \in Regions /\ vm[at].pages \in PageSeq
  BY TypesAre DEF Regions
<1>2. ReadPage(p) \in Pages
  BY PageReadIs DEF ReadPage, Pages
<1>3. s \in PageSeq
  BY <1>1, <1>2, OnePage
<1>4. [vm EXCEPT ![at].pages[k] = [val |-> PageRead(p), st |-> "dirty"]] = [vm EXCEPT ![at] = w]
  BY <1>1 DEF WithPage, ReadPage
<1> HIDE DEF s
<1>5. w \in Regions
  BY <1>1, <1>3, NewPages
<1> HIDE DEF w
<1>6. [vm EXCEPT ![at] = w] \in [Ids -> Regions]
  BY <1>1, <1>5
<1> QED
  BY <1>4, <1>5, <1>6 DEF w, s

LEMMA ReadAllKeeps ==
  ASSUME Types, read_region_page
  PROVE  Types'
<1>1. /\ pc = "r_all" /\ pc \in Reading /\ left[2] > 0
      /\ UNCHANGED <<writes, gen, file, cap, list, before, image>>
  BY DEF read_region_page, Reading
<1>2. /\ pos \in Nat /\ Len(file) \in Nat /\ left \in Nat \X Nat /\ left[1] \in Nat /\ left[2] \in Nat
      /\ page \in Nat /\ page >= 1 /\ at \in Ids /\ before \in Nat
      /\ IsStruct(file, before + 1) /\ page + left[2] <= NPages + 1
  BY <1>1, TypesAre DEF PlaceType
<1>3. CASE ReadFails
  BY <1>1, <1>3, FailKeeps
<1>4. CASE /\ Unit(pos + PageSize).k # "eof"
           /\ vm' = [vm EXCEPT ![at].pages[page] = [val |-> PageRead(pos), st |-> "dirty"]]
           /\ pos' = pos + PageSize /\ page' = page + 1
           /\ left' = <<left[1], left[2] - 1>> /\ UNCHANGED <<pc, at>>
  <2>1. pos + 2 \in 0 .. Len(file)
    BY <1>2, <1>4, UnitAt DEF PageSize
  <2>2. vm' \in [Ids -> Regions]
    BY <1>2, <1>4, ReadPageIs
  <2>3. /\ left' \in Nat \X Nat /\ left'[2] = left[2] - 1 /\ page' \in 1 .. NPages + 1
        /\ page' + left'[2] <= NPages + 1
    <3>1. left[2] - 1 \in Nat
      BY <1>1, <1>2
    <3>2. left' \in Nat \X Nat /\ left'[2] = left[2] - 1
      BY <1>2, <1>4, <3>1
    <3>3. page' = page + 1
      BY <1>4
    <3> QED
      BY <1>1, <1>2, <3>1, <3>2, <3>3, Constants
  <2> QED
    BY <1>1, <1>2, <1>4, <2>1, <2>2, <2>3, ReadKeeps DEF PageSize
<1> QED
  BY <1>3, <1>4 DEF read_region_page

LEMMA ReadDirtyKeeps ==
  ASSUME Types, ckpt_vm_page_restore
  PROVE  Types'
<1> DEFINE u == Unit(pos + 1)
<1>1. /\ pc = "r_dirty" /\ pc \in Reading /\ left[2] > 0
      /\ UNCHANGED <<writes, gen, file, cap, list, before, image>>
  BY DEF ckpt_vm_page_restore, Reading
<1>2. /\ pos \in Nat /\ Len(file) \in Nat /\ left \in Nat \X Nat /\ left[1] \in Nat /\ left[2] \in Nat
      /\ page \in 1 .. NPages + 1 /\ at \in Ids /\ before \in Nat
      /\ IsStruct(file, before + 1)
  BY <1>1, TypesAre, Constants DEF PlaceType
<1>3. CASE ReadFails
  BY <1>1, <1>3, FailKeeps
<1>4. CASE /\ Unit(pos + 3).k # "eof"
           /\ vm' = [vm EXCEPT ![at].pages[u.n] = [val |-> PageRead(pos + 1), st |-> "dirty"]]
           /\ pos' = pos + PageStruct + PageSize
           /\ left' = <<left[1], left[2] - 1>> /\ UNCHANGED <<pc, at, page>>
  <2>1. pos' \in 0 .. Len(file)
    BY <1>2, <1>4, UnitAt DEF PageSize, PageStruct
  <2> DEFINE k == u.n
             p == pos + 1
  <2>2. p \in Nat /\ vm' = [vm EXCEPT ![at].pages[k] = [val |-> PageRead(p), st |-> "dirty"]]
    BY <1>2, <1>4
  <2> HIDE DEF k, p
  <2>3. vm' \in [Ids -> Regions]
    BY <2>2, ReadPageIs
  <2>4. left' \in Nat \X Nat
    BY <1>1, <1>2, <1>4
  <2> QED
    BY <1>1, <1>2, <1>4, <2>1, <2>3, <2>4, ReadKeeps
<1> QED
  BY <1>3, <1>4 DEF ckpt_vm_page_restore

LEMMA ResumeKeeps ==
  ASSUME Types, xnd_setcontext
  PROVE  Types'
BY ForgetKeeps, ImageKeeps DEF xnd_setcontext

LEMMA TypesHold == Init => Types
<1> SUFFICES ASSUME Init PROVE Types
  OBVIOUS
<1>1. vm \in [Ids -> Regions]
  <2>1. \A r \in Users : Region(KindOf[r]) \in Regions
    BY Constants, RegionIs
  <2> QED
    BY <2>1, AbsentIs, Constants DEF Init
<1>2. <<>> \in Seq(Units) /\ Len(<<>>) = 0
  OBVIOUS
<1> QED
  BY <1>1, <1>2, Constants DEF Init, Types, MemType, FileType, ImageType, PlaceType,
                             Writing, InRegion, Reading

LEMMA TypesKept == Types /\ [Next]_vars => Types'
<1> SUFFICES ASSUME Types, [Next]_vars PROVE Types'
  OBVIOUS
<1>1. CASE UNCHANGED vars
  BY <1>1 DEF vars, fileVars, loopVars, Types, MemType, FileType, ImageType, PlaceType, IsFile, IsStruct
<1>2. ASSUME NEW r \in Users, Protects(r) PROVE Types'
  <2>1. 1 \in PageNo
    BY Constants
  <2> QED
    BY <1>2, <2>1, ProgramKeeps
<1>3. ASSUME NEW r \in Users, NEW k \in PageNo, Touch(r, k) \/ Truncate(r, k) \/ PageOut(r, k)
      PROVE  Types'
  BY <1>3, ProgramKeeps
<1>4. CASE Next
  BY <1>2, <1>3, <1>4, CheckpointKeeps, AbortKeeps, EntryKeeps, WriteRegionKeeps, DirtyKeeps, AllKeeps, FixKeeps,
     RestartKeeps, ReadEntryKeeps, RestoreRegionKeeps, RefreshKeeps, ReadAllKeeps, ReadDirtyKeeps,
     ResumeKeeps DEF Next, Protects, Asked
<1> QED
  BY <1>1, <1>4

\* What the program asked for.
AskedType == asked \in [Users -> Asked] /\ image.asked \in [Users -> Asked]

LEMMA AskedTypeHolds == Init => AskedType
BY DEF Init, AskedType, Asked, Writable, NoImage

LEMMA AskedTypeKept == AskedType /\ [Next]_vars => AskedType'
<1> SUFFICES ASSUME AskedType, [Next]_vars PROVE AskedType'
  OBVIOUS
<1>1. ASSUME NEW r \in Users, NEW p \in Asked, Mprotect(r, p) PROVE AskedType'
  BY <1>1 DEF Mprotect, AskedType
<1>2. CASE restart
  BY <1>2 DEF restart, AskedType
<1>3. CASE write_entry
  <2>1. asked' = asked /\ (image' = image \/ image'.asked = asked)
    BY <1>3 DEF write_entry
  <2> QED
    BY <2>1 DEF AskedType
<1>4. ASSUME NEW r \in Users, NEW k \in PageNo, Touch(r, k) \/ Truncate(r, k) \/ PageOut(r, k)
      PROVE  AskedType'
  BY <1>4 DEF Touch, Truncate, PageOut, AskedType
<1>5. CASE \/ xnd_checkpoint \/ xnd_abort \/ write_vm_region \/ write_vm_region_dirty
           \/ write_vm_region_all_pages \/ write_vm_region_fix
  <2>1. UNCHANGED <<asked, image>>
    BY <1>5 DEF xnd_checkpoint, xnd_abort, write_vm_region, write_vm_region_dirty,
       write_vm_region_all_pages, write_vm_region_fix
  <2> QED
    BY <2>1 DEF AskedType
<1>6. CASE \/ read_entry \/ ckpt_vm_restore_region \/ ckpt_vm_refresh_region
           \/ read_region_page \/ ckpt_vm_page_restore \/ xnd_setcontext
  <2>1. UNCHANGED <<asked, image>>
    BY <1>6 DEF read_entry, ckpt_vm_restore_region, ckpt_vm_refresh_region,
       read_region_page, ckpt_vm_page_restore, xnd_setcontext
  <2> QED
    BY <2>1 DEF AskedType
<1>7. CASE UNCHANGED vars
  BY <1>7 DEF vars, AskedType
<1> QED
  BY <1>1, <1>2, <1>3, <1>4, <1>5, <1>6, <1>7 DEF Next, Asked

LEMMA TypesGive == Types /\ AskedType => TypeOK
<1> SUFFICES ASSUME Types, AskedType PROVE TypeOK
  OBVIOUS
<1>1. \A r \in Ids :
       /\ vm[r].here \in BOOLEAN /\ vm[r].marked \in BOOLEAN
       /\ vm[r].kind \in Kinds /\ vm[r].prot \in {"rw", "r", "none", "sealed", "mixed"}
       /\ DOMAIN vm[r].pages \subseteq PageNo
       /\ \A k \in DOMAIN vm[r].pages :
            /\ vm[r].pages[k].val \in -1 .. MaxWrites
            /\ vm[r].pages[k].st \in {"clean", "dirty", "out", "bad"}
  <2>1. SUFFICES ASSUME NEW w \in Regions
                 PROVE  /\ w.here \in BOOLEAN /\ w.marked \in BOOLEAN
                        /\ w.kind \in Kinds /\ w.prot \in Prots
                        /\ DOMAIN w.pages \subseteq PageNo
                        /\ \A k \in DOMAIN w.pages :
                             /\ w.pages[k].val \in -1 .. MaxWrites
                             /\ w.pages[k].st \in {"clean", "dirty", "out", "bad"}
    BY TypesAre DEF Prots, Asked
  <2>2. DOMAIN w.pages = 1 .. Len(w.pages) /\ Len(w.pages) \in 0 .. NPages
    BY SomeRegion
  <2>3. DOMAIN w.pages \subseteq PageNo
    BY <2>2, Constants
  <2> QED
    BY <2>2, <2>3, SomeRegion
<1>2. pc \in {"run", "entry", "region", "dirty", "all", "fix", "r_entry",
             "r_region", "r_dirty", "r_all", "resumed", "failed", "aborted"}
  BY DEF Types, PlaceType, Writing
<1>3. /\ writes \in 0 .. MaxWrites /\ gen \in 0 .. Restarts
      /\ pos \in 0 .. Len(file) /\ cap \in Caps
      /\ at \in Ids /\ page \in 1 .. NPages + 1 /\ before \in Nat
  BY DEF Types, MemType, FileType
<1> QED
  BY <1>1, <1>2, <1>3 DEF TypeOK, AskedType, Asked

\* Every variable has its type, the region table its pages, and the file
\* offset stays within the file, whatever the disk, the program and the kernel do.
THEOREM TypeCorrect == Spec => []TypeOK
<1>1. Spec => []Types
  BY TypesHold, TypesKept, PTL DEF Spec
<1>2. Spec => []AskedType
  BY AskedTypeHolds, AskedTypeKept, PTL DEF Spec
<1> QED
  BY <1>1, <1>2, TypesGive, PTL

-----------------------------------------------------------------------------
(* The regions of the restart program *)

LEMMA NoStructs ==
  ASSUME NEW f, NEW n \in Nat, Len(f) = n, \A p \in 1 .. n : f[p].k # "struct"
  PROVE  UserStructs(f)
BY DEF UserStructs

\* Nothing but regions of the program is added to a file.
LEMMA UsersWritten ==
  ASSUME Types, pc \in Writing, UserStructs(file), NEW units \in Seq(Units), UserStructs(units)
  PROVE  UserStructs(Written(pos, units))
<1> DEFINE w == Written(pos, units)
           n == Fit(pos, units)
<1>1. file \in Seq(Units) /\ cap \in Nat /\ pos \in 0 .. Len(file) /\ Len(file) \in Nat /\ pos \in Nat
  BY WritingIs
<1>2. /\ n \in 0 .. Len(units) /\ w \in Seq(Units)
      /\ Len(w) = Len(file) \/ Len(w) = pos + n
      /\ \A j \in 1 .. pos : w[j] = file[j]
      /\ \A j \in pos + n + 1 .. Len(file) : w[j] = file[j]
      /\ \A j \in 1 .. n : w[pos + j] = units[j]
  BY <1>1, WrittenIs
<1> HIDE DEF w, n
<1>3. SUFFICES ASSUME NEW j \in 1 .. Len(w), w[j].k = "struct"
               PROVE  w[j].n.r \in Users
  BY DEF UserStructs, w
<1>4. Len(w) \in Nat /\ j \in Nat /\ Len(units) \in Nat /\ n \in Nat
  BY <1>2
<1>5. CASE j <= pos
  <2>1. w[j] = file[j] /\ j \in 1 .. Len(file)
    BY <1>1, <1>2, <1>4, <1>5
  <2> QED
    BY <2>1, <1>3 DEF UserStructs
<1>6. CASE j > pos /\ j <= pos + n
  <2>1. j - pos \in 1 .. n /\ j - pos \in 1 .. Len(units) /\ pos + (j - pos) = j
    BY <1>1, <1>2, <1>4, <1>6
  <2>2. w[j] = units[j - pos]
    BY <1>2, <2>1
  <2> QED
    BY <2>1, <2>2, <1>3 DEF UserStructs
<1>7. CASE j > pos + n
  <2>1. j \in pos + n + 1 .. Len(file) /\ j \in 1 .. Len(file)
    BY <1>1, <1>2, <1>4, <1>7
  <2>2. w[j] = file[j]
    BY <1>2, <2>1
  <2> QED
    BY <2>1, <2>2, <1>3 DEF UserStructs
<1> QED
  BY <1>1, <1>4, <1>5, <1>6, <1>7

\* A call returns.
LEMMA ForgetOwn ==
  ASSUME OwnInv, Forget, pc' = "run", UNCHANGED vm, UserStructs(image'.file)
  PROVE  OwnInv'
<1>1. UserStructs(file')
  <2>1. file' = <<>> /\ Len(<<>>) = 0
    BY DEF Forget
  <2> QED
    BY <2>1 DEF UserStructs
<1> QED
  BY <1>1 DEF OwnInv, Writing

\* A region of the program changes.
LEMMA UserRegion ==
  ASSUME Types, OwnInv, NEW r \in Users, NEW w, vm' = [vm EXCEPT ![r] = w]
  PROVE  vm'[Own].here => vm'[Own].marked
BY TypesAre, Constants DEF OwnInv

LEMMA ProgramOwn ==
  ASSUME Types, OwnInv, NEW r \in Users, NEW k \in PageNo,
         Touch(r, k) \/ Truncate(r, k) \/ PageOut(r, k) \/ Protects(r)
  PROVE  OwnInv'
<1>1. pc = "run" /\ UNCHANGED <<pc, gen, fileVars, loopVars, image>>
  BY DEF Touch, Truncate, PageOut, Protects, Mprotect
<1>2. \E w : vm' = [vm EXCEPT ![r] = w]
  <2>1. CASE Touch(r, k)
    BY <2>1, TouchIs
  <2>2. CASE Truncate(r, k)
    BY <2>2, TruncateIs
  <2>3. CASE PageOut(r, k)
    BY <2>3, PageOutIs
  <2>4. CASE Protects(r)
    BY <2>4, MprotectIs
  <2> QED
    BY <2>1, <2>2, <2>3, <2>4
<1>3. vm'[Own].here => vm'[Own].marked
  BY <1>2, UserRegion
<1> QED
  BY <1>1, <1>3 DEF OwnInv, UserStructs, Writing, fileVars, loopVars

LEMMA CheckpointOwn ==
  ASSUME Types, OwnInv, xnd_checkpoint
  PROVE  OwnInv'
<1> DEFINE h == Header(Cardinality({r \in Ids : ckpt_vm_valid_region(r)}) + 1)
<1>1. /\ file' = <<h>> /\ list' = {r \in Ids : ckpt_vm_valid_region(r)} /\ pc' = "entry"
      /\ UNCHANGED <<vm, image>>
  BY DEF xnd_checkpoint
<1>2. list' \subseteq Users
  BY <1>1, Constants DEF OwnInv, ckpt_vm_valid_region
<1>3. UserStructs(file')
  <2>1. h.k = "header"
    BY DEF Header
  <2>2. Len(<<h>>) = 1 /\ <<h>>[1] = h
    OBVIOUS
  <2> HIDE DEF h
  <2> QED
    BY <1>1, <2>1, <2>2 DEF UserStructs
<1> QED
  BY <1>1, <1>2, <1>3 DEF OwnInv, UserStructs, Writing

LEMMA EntryOwn ==
  ASSUME Types, OwnInv, write_entry
  PROVE  OwnInv'
<1> DEFINE units == IF list = {} THEN <<Tag("context"), Context>> ELSE <<Tag("region")>>
<1>1. pc = "entry" /\ pc \in Writing /\ UNCHANGED vm
  BY DEF write_entry, Writing
<1>2. units \in Seq(Units) /\ UserStructs(units)
  <2>1. /\ Tag("context") \in Units /\ Tag("region") \in Units /\ Context \in Units
        /\ Tag("context").k # "struct" /\ Tag("region").k # "struct" /\ Context.k # "struct"
    BY UnitsAre
  <2>2. CASE list = {}
    BY <2>1, <2>2 DEF UserStructs
  <2>3. CASE list # {}
    BY <2>1, <2>3 DEF UserStructs
  <2> QED
    BY <2>2, <2>3
<1> HIDE DEF units
<1>3. UserStructs(Written(pos, units))
  BY <1>1, <1>2, UsersWritten DEF OwnInv
<1>4. CASE ~Complete(pos, units)
  <2>1. pc' = "run" /\ Forget /\ UNCHANGED image
    BY <1>4 DEF write_entry, Bad, units
  <2> QED
    BY <1>1, <2>1, ForgetOwn DEF OwnInv
<1>5. CASE Complete(pos, units) /\ list = {}
  <2>1. /\ pc' = "run" /\ Forget
        /\ image' = [file |-> Written(pos, units), vm |-> vm, asked |-> asked]
    BY <1>5 DEF write_entry, units
  <2>2. UserStructs(image'.file)
    BY <1>3, <2>1
  <2> QED
    BY <1>1, <2>1, <2>2, ForgetOwn
<1>6. CASE Complete(pos, units) /\ list # {}
  <2>1. /\ file' = Written(pos, units) /\ pc' = "region"
        /\ at' \in list /\ list' = list \ {at'} /\ UNCHANGED image
    BY <1>6 DEF write_entry, writeall, units
  <2> QED
    BY <1>1, <1>3, <2>1 DEF OwnInv, UserStructs, Writing
<1> QED
  BY <1>4, <1>5, <1>6

LEMMA WriteRegionOwn ==
  ASSUME Types, OwnInv, write_vm_region
  PROVE  OwnInv'
<1> DEFINE n == Len(vm[at].pages)
           dirty_only == vm[at].kind \in {"malloc", "cache"} /\ 3 * Cardinality(Dirty(at)) < 2 * n + 1
           s == Struct(at, n, dirty_only)
<1>1. pc \in Writing /\ at \in Users /\ at \in Ids /\ UNCHANGED image
  BY WriteRegionIs, Constants DEF Writing, OwnInv
<1>2. s \in Units /\ s.k = "struct" /\ s.n.r = at
  <2>1. n \in 0 .. NPages /\ at \in Ids /\ dirty_only \in BOOLEAN
    BY TypesAre, SomeRegion
  <2> HIDE DEF n, dirty_only
  <2> QED
    BY <2>1, StructIs
<1> HIDE DEF s
<1>3. <<s>> \in Seq(Units) /\ UserStructs(<<s>>)
  BY <1>1, <1>2 DEF UserStructs
<1>4. CASE pc' = "run" /\ Forget /\ UNCHANGED vm
  BY <1>1, <1>4, ForgetOwn DEF OwnInv
<1>5. CASE /\ file' = Written(pos, <<s>>)
           /\ pc' = (IF dirty_only THEN "dirty" ELSE "all") /\ UNCHANGED <<list, at>>
           /\ vm' = IF dirty_only \/ vm[at].prot # "none" THEN vm
                    ELSE [vm EXCEPT ![at] = [vm[at] EXCEPT !.prot = "r"]]
  <2>1. UserStructs(file')
    BY <1>1, <1>3, <1>5, UsersWritten DEF OwnInv
  <2>2. vm' = vm \/ \E w : vm' = [vm EXCEPT ![at] = w]
    BY <1>5
  <2>3. vm'[Own].here => vm'[Own].marked
    BY <1>1, <2>2, UserRegion DEF OwnInv
  <2> QED
    BY <1>1, <1>5, <2>1, <2>3 DEF OwnInv, UserStructs, Writing
<1> HIDE DEF dirty_only
<1> QED
  BY <1>4, <1>5, WriteRegionIs DEF s, dirty_only

\* Pages are added to the region in hand.
LEMMA PagesOwn ==
  ASSUME Types, OwnInv, pc \in InRegion, NEW units \in Seq(Units), UserStructs(units),
         file' = Written(pos, units), pc' \in Writing, UNCHANGED <<vm, list, at, image>>
  PROVE  OwnInv'
<1>1. pc \in Writing /\ at \in Users
  BY InRegionIs DEF OwnInv, InRegion, Writing
<1>2. UserStructs(file')
  BY <1>1, UsersWritten DEF OwnInv
<1> QED
  BY <1>1, <1>2 DEF OwnInv, UserStructs, Writing

LEMMA DirtyOwn ==
  ASSUME Types, OwnInv, write_vm_region_dirty
  PROVE  OwnInv'
<1> DEFINE units == <<PageAt(page)>> \o Data(vm[at].pages[page].val)
<1>1. pc \in InRegion /\ pc \in Writing /\ UNCHANGED <<vm, image>>
  BY DirtyStepIs DEF InRegion, Writing
<1>2. CASE pc' = "run" /\ Forget
  BY <1>1, <1>2, ForgetOwn DEF OwnInv
<1>3. CASE UNCHANGED <<file, list, at>> /\ pc' \in {"dirty", "entry"}
  BY <1>1, <1>3, DirtyStepIs DEF OwnInv, UserStructs, Writing
<1>4. CASE page \in 1 .. Len(vm[at].pages) /\ file' = Written(pos, units) /\ UNCHANGED <<pc, list, at>>
  <2>1. units \in Seq(Units) /\ UserStructs(units)
    <3>1. page \in PageNo
      BY <1>1, <1>4, InRegionIs, Constants
    <3>2. vm[at].pages[page].val \in -1 .. MaxWrites
      BY <1>4, TypesAre, SomeRegion
    <3>3. /\ units \in Seq(Units) /\ Len(units) = 3 /\ units[1] = PageAt(page)
          /\ units[2] = [k |-> "data", n |-> vm[at].pages[page].val]
          /\ units[3] = [k |-> "data", n |-> vm[at].pages[page].val]
      BY <3>1, <3>2, PageUnits
    <3> HIDE DEF units
    <3>4. units[1].k = "page" /\ units[2].k = "data" /\ units[3].k = "data"
      BY <3>3 DEF PageAt
    <3> QED
      BY <3>3, <3>4 DEF UserStructs
  <2> HIDE DEF units
  <2> QED
    BY <1>1, <1>4, <2>1, PagesOwn
<1> HIDE DEF units
<1> QED
  BY <1>2, <1>3, <1>4, DirtyStepIs DEF units

LEMMA AllOwn ==
  ASSUME Types, OwnInv, write_vm_region_all_pages
  PROVE  OwnInv'
<1> DEFINE units == Data(vm[at].pages[page].val)
<1>1. pc \in InRegion /\ pc \in Writing /\ UNCHANGED <<vm, list, at, image>> /\ pc' \in Writing
  BY AllStepIs DEF InRegion, Writing
<1>2. CASE file' = Written(pos, <<>>)
  <2> DEFINE none == <<>>
  <2>1. none \in Seq(Units) /\ UserStructs(none)
    BY DEF UserStructs
  <2>2. file' = Written(pos, none)
    BY <1>2
  <2> HIDE DEF none
  <2> QED
    BY <1>1, <2>1, <2>2, PagesOwn
<1>3. CASE page \in 1 .. Len(vm[at].pages) /\ file' = Written(pos, units)
  <2>1. units \in Seq(Units) /\ UserStructs(units)
    <3>1. vm[at].pages[page].val \in -1 .. MaxWrites
      BY <1>3, TypesAre, SomeRegion
    <3>2. /\ units \in Seq(Units) /\ Len(units) = 2
          /\ units[1] = [k |-> "data", n |-> vm[at].pages[page].val]
          /\ units[2] = [k |-> "data", n |-> vm[at].pages[page].val]
      BY <3>1, UnitsAre
    <3> HIDE DEF units
    <3>3. units[1].k = "data" /\ units[2].k = "data"
      BY <3>2
    <3> QED
      BY <3>2, <3>3 DEF UserStructs
  <2> HIDE DEF units
  <2> QED
    BY <1>1, <1>3, <2>1, PagesOwn
<1> HIDE DEF units
<1> QED
  BY <1>2, <1>3, AllStepIs DEF units

LEMMA FixOwn ==
  ASSUME Types, OwnInv, write_vm_region_fix
  PROVE  OwnInv'
<1>1. pc \in InRegion /\ pc \in Writing /\ pc' = "entry" /\ UNCHANGED <<list, at, image>> /\ at \in Users
  BY FixIs DEF InRegion, Writing, OwnInv, loopVars
<1>2. UserStructs(file')
  <2>1. CASE file' = file
    BY <2>1 DEF OwnInv, UserStructs
  <2>2. CASE page - 1 \in 0 .. NPages /\ file' = Cut(file, before + 1, page - 1)
    <3> DEFINE p == before + 1
               n == page - 1
    <3>1. file \in Seq(Units) /\ IsStruct(file, p) /\ n \in 0 .. NPages /\ file' = Cut(file, p, n)
      BY <1>1, <2>2, InRegionIs, TypesAre
    <3> HIDE DEF p, n
    <3>2. /\ Len(file') = Len(file) /\ \A j \in 1 .. Len(file) : j # p => file'[j] = file[j]
          /\ file'[p].n = Sized(file[p].n, n)
      BY <3>1, CutIs
    <3>3. p \in 1 .. Len(file) /\ file[p].k = "struct" /\ file[p].n \in Structs
      BY <3>1, UnitIs, TypesAre DEF IsStruct
    <3>4. file'[p].n.r = file[p].n.r
      BY <3>1, <3>2, <3>3, SizedIs
    <3> QED
      BY <3>2, <3>3, <3>4 DEF OwnInv, UserStructs
  <2> QED
    BY <2>1, <2>2, FixIs
<1>3. vm'[Own].here => vm'[Own].marked
  <2>1. vm' = vm \/ \E w : vm' = [vm EXCEPT ![at] = w]
    BY FixIs
  <2> QED
    BY <1>1, <2>1, UserRegion DEF OwnInv
<1> QED
  BY <1>1, <1>2, <1>3 DEF OwnInv, UserStructs, Writing

LEMMA RestartOwn ==
  ASSUME Types, OwnInv, restart, ~MarkFails
  PROVE  OwnInv'
<1>1. file' = image.file /\ pc' = "r_entry" /\ UNCHANGED image
  BY RestartIs
<1>2. vm'[Own].marked
  BY RestartIs, EmptiedIs
<1> QED
  BY <1>1, <1>2 DEF OwnInv, UserStructs, Writing

\* A step of the reader.
LEMMA ReaderOwn ==
  ASSUME Types, OwnInv, UNCHANGED <<file, image>>, pc' \in Reading \cup {"failed"},
         vm' = vm \/ \E r \in Users, w \in Regions : vm' = [vm EXCEPT ![r] = w],
         pc' \in {"r_dirty", "r_all"} => at' \in Users
  PROVE  OwnInv'
<1>1. vm'[Own].here => vm'[Own].marked
  BY UserRegion DEF OwnInv
<1> QED
  BY <1>1 DEF OwnInv, UserStructs, Writing, Reading

LEMMA ReadOwn ==
  ASSUME Types, OwnInv, read_entry \/ ckpt_vm_restore_region \/ ckpt_vm_refresh_region
                        \/ read_region_page \/ ckpt_vm_page_restore
  PROVE  OwnInv'
<1>1. CASE read_entry
  <2>1. UNCHANGED <<file, image, vm>> /\ pc' \in {"resumed", "r_region", "r_entry", "failed"}
    BY <1>1 DEF read_entry, ReadFails
  <2> QED
    BY <2>1, ReaderOwn DEF Reading
<1>2. CASE ckpt_vm_restore_region
  <2> DEFINE s == file[pos + 1].n
  <2>1. UNCHANGED <<file, image>>
    BY <1>2, RestoreRegionIs
  <2>2. CASE ReadFails
    BY <2>1, <2>2, ReaderOwn DEF ReadFails, Reading
  <2>3. CASE /\ IsStruct(file, pos + 1) /\ s \in Structs
             /\ pc' = (IF s.dirty_only THEN "r_dirty" ELSE "r_all")
             /\ vm' = (IF s.dirty_only /\ Kind(s.r) = "cache" THEN vm
                       ELSE [vm EXCEPT ![s.r] = Fresh(s.r, s.size)])
             /\ at' = s.r
    <3>1. s.r \in Users /\ s.r \in Ids /\ s.size \in 0 .. NPages
      BY <2>3, SomeStruct DEF OwnInv, UserStructs, IsStruct
    <3> HIDE DEF s
    <3>2. Fresh(s.r, s.size) \in Regions
      BY <3>1, FreshRegion
    <3>3. pc' \in Reading
      BY <2>3 DEF Reading
    <3>4. vm' = vm \/ \E r \in Users, w \in Regions : vm' = [vm EXCEPT ![r] = w]
      BY <2>3, <3>1, <3>2
    <3> QED
      BY <2>1, <2>3, <3>1, <3>3, <3>4, ReaderOwn
  <2> HIDE DEF s
  <2> QED
    BY <1>2, <2>2, <2>3, RestoreRegionIs DEF s
<1>3. CASE ckpt_vm_refresh_region
  <2> DEFINE p == file[before + 1].n.prot
             w == [vm[at] EXCEPT !.prot = p]
  <2>1. UNCHANGED <<file, image>> /\ pc' = "r_entry" /\ vm' = [vm EXCEPT ![at] = w] /\ p \in Prots
        /\ at \in Users
    BY <1>3, RefreshIs, SomeStruct DEF OwnInv
  <2> HIDE DEF p
  <2>2. w \in Regions
    BY <2>1, TypesAre, NewProt
  <2> HIDE DEF w
  <2> QED
    BY <2>1, <2>2, ReaderOwn DEF Reading
<1>4. ASSUME NEW p \in Nat, NEW k, UNCHANGED <<file, image, pc, at>>, pc \in {"r_dirty", "r_all"},
             vm' = [vm EXCEPT ![at].pages[k] = [val |-> PageRead(p), st |-> "dirty"]]
      PROVE  OwnInv'
  <2> DEFINE w == [vm[at] EXCEPT !.pages = WithPage(vm[at].pages, k, ReadPage(p))]
  <2>1. w \in Regions /\ vm' = [vm EXCEPT ![at] = w]
    BY <1>4, ReadPageIs
  <2> HIDE DEF w
  <2>2. at \in Users
    BY <1>4 DEF OwnInv
  <2> QED
    BY <1>4, <2>1, <2>2, ReaderOwn DEF Reading
<1>5. pos \in Nat /\ pos + 1 \in Nat
  BY TypesAre
<1>6. CASE read_region_page
  <2>1. CASE ReadFails
    BY <1>6, <2>1, ReaderOwn DEF ReadFails, Reading, read_region_page
  <2>2. CASE ~ReadFails
    BY <1>4, <1>5, <1>6, <2>2 DEF read_region_page
  <2> QED
    BY <2>1, <2>2
<1>7. CASE ckpt_vm_page_restore
  <2>1. CASE ReadFails
    BY <1>7, <2>1, ReaderOwn DEF ReadFails, Reading, ckpt_vm_page_restore
  <2>2. CASE ~ReadFails
    <3> DEFINE p == pos + 1
               k == Unit(pos + 1).n
    <3>1. /\ p \in Nat /\ UNCHANGED <<file, image, pc, at>> /\ pc \in {"r_dirty", "r_all"}
          /\ vm' = [vm EXCEPT ![at].pages[k] = [val |-> PageRead(p), st |-> "dirty"]]
      BY <1>5, <1>7, <2>2 DEF ckpt_vm_page_restore
    <3> HIDE DEF p, k
    <3> QED
      BY <1>4, <3>1
  <2> QED
    BY <2>1, <2>2
<1> QED
  BY <1>1, <1>2, <1>3, <1>6, <1>7

LEMMA OwnHolds == Init => OwnInv
<1> SUFFICES ASSUME Init PROVE OwnInv
  OBVIOUS
<1>1. vm[Own] = Absent /\ ~Absent.here
  BY Constants, AbsentIs DEF Init
<1>2. image.file = <<>> /\ file = <<>> /\ Len(<<>>) = 0
  BY DEF Init, NoImage
<1>3. UserStructs(file) /\ UserStructs(image.file)
  BY <1>2 DEF UserStructs
<1> QED
  BY <1>1, <1>3 DEF Init, OwnInv, Writing

LEMMA OwnKept == Types /\ OwnInv /\ ~MarkFails /\ [Next]_vars => OwnInv'
<1> SUFFICES ASSUME Types, OwnInv, ~MarkFails, [Next]_vars PROVE OwnInv'
  OBVIOUS
<1>1. CASE UNCHANGED vars
  BY <1>1 DEF vars, fileVars, loopVars, OwnInv, UserStructs
<1>2. ASSUME NEW r \in Users, Protects(r) PROVE OwnInv'
  <2>1. 1 \in PageNo
    BY Constants
  <2> QED
    BY <1>2, <2>1, ProgramOwn
<1>3. ASSUME NEW r \in Users, NEW k \in PageNo, Touch(r, k) \/ Truncate(r, k) \/ PageOut(r, k)
      PROVE  OwnInv'
  BY <1>3, ProgramOwn
<1>4. CASE xnd_setcontext
  BY <1>4, ForgetOwn DEF xnd_setcontext, OwnInv
<1>6. CASE xnd_abort
  BY <1>6 DEF xnd_abort, OwnInv, UserStructs, fileVars, loopVars, Writing
<1>5. CASE Next
  BY <1>2, <1>3, <1>4, <1>5, <1>6, CheckpointOwn, EntryOwn, WriteRegionOwn, DirtyOwn, AllOwn, FixOwn,
     RestartOwn, ReadOwn DEF Next, Protects, Asked
<1> QED
  BY <1>1, <1>5

\* If marking the restart program's regions does not fail, no image ever holds
\* one of them, however often the process is checkpointed and restarted.
THEOREM OwnNotSaved ==
  ASSUME ~MarkFails
  PROVE  Spec => []OnlyUserRegions
<1>1. Types /\ OwnInv => OnlyUserRegions
  <2> SUFFICES ASSUME Types, OwnInv, NEW j \in DOMAIN image.file, image.file[j].k = "struct"
               PROVE  image.file[j].n.r \in Users
    BY DEF OnlyUserRegions
  <2>1. DOMAIN image.file = 1 .. Len(image.file)
    <3>1. CASE image = NoImage
      BY <3>1 DEF NoImage
    <3>2. CASE IsFile(image.file)
      BY <3>2 DEF IsFile
    <3> QED
      BY <3>1, <3>2 DEF Types, ImageType
  <2> QED
    BY <2>1 DEF OwnInv, UserStructs
<1>2. Init => Types /\ OwnInv
  BY TypesHold, OwnHolds
<1>3. Types /\ OwnInv /\ [Next]_vars => (Types /\ OwnInv)'
  BY TypesKept, OwnKept
<1> QED
  BY <1>1, <1>2, <1>3, PTL DEF Spec

-----------------------------------------------------------------------------
(* What a file holds does not depend on what follows it *)

LEMMA StructAt ==
  ASSUME NEW f \in Seq(Units), NEW p, IsStruct(f, p)
  PROVE  /\ p \in Nat /\ p >= 1 /\ p <= Len(f) /\ Len(f) \in Nat
         /\ f[p].n \in Structs /\ f[p].n.r \in Ids /\ f[p].n.size \in Nat /\ f[p].n.size <= NPages
         /\ f[p].n.dirty_only \in BOOLEAN /\ f[p].n.dirtied \in Nat
         /\ End(f, p) \in Nat /\ End(f, p) >= p
<1>1. p \in 1 .. Len(f) /\ Len(f) \in Nat /\ f[p].k = "struct" /\ f[p] \in Units
  BY DEF IsStruct
<1>2. f[p].n \in Structs
  BY <1>1, UnitIs
<1>3. /\ f[p].n.r \in Ids /\ f[p].n.size \in 0 .. NPages
      /\ f[p].n.dirty_only \in BOOLEAN /\ f[p].n.dirtied \in Nat
  BY <1>2, SomeStruct
<1>4. /\ p \in Nat /\ p >= 1 /\ p <= Len(f) /\ f[p].n.size \in Nat /\ f[p].n.size <= NPages
  BY <1>1, <1>3, Constants
<1>5. End(f, p) \in Nat /\ End(f, p) >= p
  <2>1. \A d, n \in Nat : p + 3 * d \in Nat /\ p + 3 * d >= p /\ p + 2 * n \in Nat /\ p + 2 * n >= p
    BY <1>4
  <2>2. End(f, p) = p + 3 * f[p].n.dirtied \/ End(f, p) = p + 2 * f[p].n.size
    BY DEF End
  <2> QED
    BY <1>3, <1>4, <2>1, <2>2
<1> QED
  BY <1>1, <1>2, <1>3, <1>4, <1>5

LEMMA DirtyPagesKeep ==
  ASSUME NEW p \in Nat, NEW n \in Nat, NEW f, NEW g, NEW w, NEW m,
         \A j \in p + 1 .. p + 3 * n : g[j] = f[j], DirtyPages(f, p, w, n, m)
  PROVE  DirtyPages(g, p, w, n, m)
<1>1. \A i \in 0 .. n - 1 : /\ g[p + 3 * i + 1] = f[p + 3 * i + 1]
                            /\ g[p + 3 * i + 2] = f[p + 3 * i + 2]
                            /\ g[p + 3 * i + 3] = f[p + 3 * i + 3]
  OBVIOUS
<1>2. \A i \in 0 .. n - 1 : \E k \in DirtyIn(w) : PageIs(g, p + 3 * i, w, k)
  BY <1>1 DEF DirtyPages, PageIs, IsData
<1>3. \A k \in DirtyIn(w) : k <= m => \E i \in 0 .. n - 1 : g[p + 3 * i + 1] = PageAt(k)
  <2> SUFFICES ASSUME NEW k \in DirtyIn(w), k <= m
               PROVE  \E i \in 0 .. n - 1 : g[p + 3 * i + 1] = PageAt(k)
    OBVIOUS
  <2>1. PICK i \in 0 .. n - 1 : f[p + 3 * i + 1] = PageAt(k)
    BY DEF DirtyPages
  <2>2. g[p + 3 * i + 1] = PageAt(k)
    BY <1>1, <2>1
  <2> QED
    BY <2>2
<1> QED
  BY <1>2, <1>3 DEF DirtyPages

LEMMA AllPagesKeep ==
  ASSUME NEW p \in Nat, NEW n \in Nat, NEW f, NEW g, NEW w,
         \A j \in p + 1 .. p + 2 * n : g[j] = f[j], AllPages(f, p, w, n)
  PROVE  AllPages(g, p, w, n)
<1>1. \A k \in 1 .. n : g[p + 2 * k - 1] = f[p + 2 * k - 1] /\ g[p + 2 * k] = f[p + 2 * k]
  OBVIOUS
<1> QED
  BY <1>1 DEF AllPages, IsData

LEMMA HoldsKeep ==
  ASSUME NEW f \in Seq(Units), NEW g, NEW p, NEW w, IsStruct(f, p),
         \A j \in p .. End(f, p) : g[j] = f[j], Holds(f, p, w)
  PROVE  Holds(g, p, w) /\ End(g, p) = End(f, p)
<1>1. /\ p \in Nat /\ f[p].n.size \in Nat /\ f[p].n.dirty_only \in BOOLEAN /\ f[p].n.dirtied \in Nat
      /\ End(f, p) \in Nat /\ End(f, p) >= p
  BY StructAt
<1>2. g[p] = f[p]
  BY <1>1
<1>3. End(g, p) = End(f, p)
  BY <1>2 DEF End
<1>4. CASE f[p].n.dirty_only
  <2>1. End(f, p) = p + 3 * f[p].n.dirtied
    BY <1>4 DEF End
  <2>2. DirtyPages(f, p, w, f[p].n.dirtied, NPages)
    BY <1>4 DEF Holds
  <2>3. \A j \in p + 1 .. p + 3 * f[p].n.dirtied : g[j] = f[j]
    <3>1. \A j \in p + 1 .. End(f, p) : g[j] = f[j]
      BY <1>1
    <3> QED
      BY <2>1, <3>1
  <2>4. DirtyPages(g, p, w, f[p].n.dirtied, NPages)
    BY <1>1, <2>2, <2>3, DirtyPagesKeep
  <2>5. OnlyPages(g, p, End(g, p))
    BY <1>1, <1>3, <2>1, <2>3 DEF Holds, OnlyPages
  <2> QED
    BY <1>2, <1>3, <1>4, <2>4, <2>5 DEF Holds
<1>5. CASE ~f[p].n.dirty_only
  <2>1. End(f, p) = p + 2 * f[p].n.size
    BY <1>5 DEF End
  <2>2. AllPages(f, p, w, f[p].n.size)
    BY <1>5 DEF Holds
  <2>3. \A j \in p + 1 .. p + 2 * f[p].n.size : g[j] = f[j]
    BY <1>1, <2>1
  <2>4. AllPages(g, p, w, f[p].n.size)
    BY <1>1, <2>2, <2>3, AllPagesKeep
  <2>5. OnlyPages(g, p, End(g, p))
    BY <1>1, <1>3, <2>1, <2>3 DEF Holds, OnlyPages
  <2> QED
    BY <1>2, <1>3, <1>5, <2>4, <2>5 DEF Holds
<1> QED
  BY <1>1, <1>4, <1>5

\* Entries, by what they say of one struct.
EntryAt(f, v, e, p) ==
  /\ p >= 3 /\ f[p].n.r \in Users
  /\ End(f, p) <= e
  /\ End(f, p) = e \/ (RegionAt(f, End(f, p)) /\ End(f, p) + 2 <= e)
  /\ Holds(f, p, v[f[p].n.r])

LEMMA EntriesAre ==
  ASSUME NEW f, NEW v, NEW e
  PROVE  Entries(f, v, e) <=>
           /\ e = 1 \/ (RegionAt(f, 1) /\ 3 <= e)
           /\ \A p \in 1 .. e : IsStruct(f, p) => EntryAt(f, v, e, p)
           /\ \A p, q \in 1 .. e : IsStruct(f, p) /\ IsStruct(f, q) /\ f[p].n.r = f[q].n.r => p = q
BY DEF Entries, EntryAt

LEMMA EntriesKeep ==
  ASSUME NEW f \in Seq(Units), NEW g \in Seq(Units), NEW e \in Nat, e <= Len(f), e <= Len(g),
         \A j \in 1 .. e : g[j] = f[j], NEW v, NEW w, \A r \in RegionsIn(f, 0, e) : w[r] = v[r],
         Entries(f, v, e)
  PROVE  Entries(g, w, e) /\ RegionsIn(g, 0, e) = RegionsIn(f, 0, e)
<1>0. Len(f) \in Nat /\ Len(g) \in Nat
  OBVIOUS
<1>1. \A p \in 1 .. e : IsStruct(g, p) <=> IsStruct(f, p)
  BY <1>0 DEF IsStruct
<1>2. \A p \in Nat : p >= 1 /\ p + 2 <= e /\ RegionAt(f, p) => RegionAt(g, p)
  <2> SUFFICES ASSUME NEW p \in Nat, p >= 1, p + 2 <= e, RegionAt(f, p) PROVE RegionAt(g, p)
    OBVIOUS
  <2>1. g[p + 1] = f[p + 1] /\ (IsStruct(g, p + 2) <=> IsStruct(f, p + 2))
    BY <1>1
  <2> QED
    BY <2>1 DEF RegionAt
<1>3. e = 1 \/ (RegionAt(g, 1) /\ 3 <= e)
  BY <1>2 DEF Entries
<1>4. ASSUME NEW p \in 1 .. e, IsStruct(g, p) PROVE EntryAt(g, w, e, p)
  <2>1. IsStruct(f, p)
    BY <1>1, <1>4
  <2>2. EntryAt(f, v, e, p)
    BY <2>1, EntriesAre
  <2>3. End(f, p) \in Nat /\ End(f, p) >= p /\ p \in Nat /\ p >= 1 /\ End(f, p) <= e
    BY <2>1, <2>2, StructAt DEF EntryAt
  <2>4. g[p] = f[p] /\ \A j \in p .. End(f, p) : g[j] = f[j]
    BY <2>3
  <2>5. f[p].n.r \in RegionsIn(f, 0, e)
    BY <2>1, <2>2 DEF RegionsIn, EntryAt
  <2>6. w[g[p].n.r] = v[f[p].n.r]
    BY <2>4, <2>5
  <2>7. Holds(f, p, v[f[p].n.r])
    BY <2>2 DEF EntryAt
  <2>8. Holds(g, p, v[f[p].n.r]) /\ End(g, p) = End(f, p)
    BY <2>1, <2>4, <2>7, HoldsKeep
  <2>9. End(f, p) + 2 <= e /\ RegionAt(f, End(f, p)) => RegionAt(g, End(f, p))
    BY <1>2, <2>3
  <2> QED
    BY <2>2, <2>4, <2>6, <2>8, <2>9 DEF EntryAt
<1>5. \A p, q \in 1 .. e : IsStruct(g, p) /\ IsStruct(g, q) /\ g[p].n.r = g[q].n.r => p = q
  BY <1>1, EntriesAre
<1>6. RegionsIn(g, 0, e) = RegionsIn(f, 0, e)
  BY <1>1 DEF RegionsIn
<1> QED
  BY <1>3, <1>4, <1>5, <1>6, EntriesAre

\* The entry in hand is finished.
LEMMA EntryDone ==
  ASSUME NEW f \in Seq(Units), NEW v, NEW e \in Nat, e >= 1, Entries(f, v, e), RegionAt(f, e),
         NEW a \in Users, f[e + 2].n.r = a, a \notin RegionsIn(f, 0, e), Holds(f, e + 2, v[a]),
         End(f, e + 2) = Len(f), \A p \in e + 1 .. Len(f) : IsStruct(f, p) => p = e + 2
  PROVE  Entries(f, v, Len(f)) /\ RegionsIn(f, 0, Len(f)) = RegionsIn(f, 0, e) \cup {a}
<1> DEFINE l == Len(f)
<1>1. IsStruct(f, e + 2) /\ e + 2 <= l /\ l \in Nat /\ 3 <= l
  BY StructAt DEF RegionAt
<1>2. RegionAt(f, 1)
  BY DEF Entries
<1>3. ASSUME NEW p \in 1 .. l, IsStruct(f, p) PROVE EntryAt(f, v, l, p)
  <2>1. p <= e \/ p = e + 2
    BY <1>1, <1>3
  <2>2. CASE p <= e
    <3>1. EntryAt(f, v, e, p)
      BY <1>3, <2>2, EntriesAre
    <3>2. End(f, p) \in Nat
      BY <1>3, StructAt
    <3> QED
      BY <1>1, <3>1, <3>2 DEF EntryAt
  <2>3. CASE p = e + 2
    BY <1>1, <2>3 DEF EntryAt
  <2> QED
    BY <2>1, <2>2, <2>3
<1>4. ASSUME NEW p \in 1 .. l, NEW q \in 1 .. l, IsStruct(f, p), IsStruct(f, q), f[p].n.r = f[q].n.r
      PROVE  p = q
  <2>1. (p <= e \/ p = e + 2) /\ (q <= e \/ q = e + 2)
    BY <1>1, <1>4
  <2>2. \A x \in 1 .. e : IsStruct(f, x) => f[x].n.r # a
    BY <1>1 DEF RegionsIn
  <2>3. p <= e /\ q <= e => p = q
    BY <1>4, EntriesAre
  <2> QED
    BY <1>4, <2>1, <2>2, <2>3
<1>5. RegionsIn(f, 0, l) = RegionsIn(f, 0, e) \cup {a}
  <2>1. \A p \in 0 + 1 .. l : IsStruct(f, p) => p \in 0 + 1 .. e \/ p = e + 2
    BY <1>1
  <2>2. e + 2 \in 0 + 1 .. l /\ \A p \in 0 + 1 .. e : p \in 0 + 1 .. l
    BY <1>1
  <2> QED
    BY <1>1, <2>1, <2>2 DEF RegionsIn
<1> QED
  BY <1>1, <1>2, <1>3, <1>4, <1>5, EntriesAre

-----------------------------------------------------------------------------
(* The program and the kernel *)

\* Where a call has returned.
LEMMA RunExact ==
  ASSUME pc' = "run", \A r \in Users : PagesInv(r, vm'[r]) /\ ProtInv(r, vm'[r]),
         image' # NoImage => GoodImage(image'.file, image'.vm)
  PROVE  Exact'
BY DEF Exact, MemInv, Writing, InRegion, Reading

LEMMA TameIs ==
  ASSUME Benign, NEW r \in Users
  PROVE  /\ "protect" \in Faults[r] =>
              KindOf[r] # "cache" /\ (KindOf[r] = "plain" => "truncate" \notin Faults[r])
         /\ "seal" \in Faults[r] => KindOf[r] # "cache"
         /\ KindOf[r] = "plain" => "empty" \notin Faults[r]
         /\ KindOf[r] # "plain" => "pageout" \notin Faults[r]
         /\ KindOf[r] = "cache" => "efault" \notin Faults[r]
BY DEF Benign, Tame

\* While the program runs.
LEMMA RunningIs ==
  ASSUME Exact, pc = "run"
  PROVE  /\ \A r \in Users : PagesInv(r, vm[r]) /\ ProtInv(r, vm[r])
         /\ image # NoImage => GoodImage(image.file, image.vm)
BY DEF Exact, MemInv

\* The pages of a region that the program runs with.
LEMMA ProgramPages ==
  ASSUME Benign, Types, Exact, NEW r \in Users, NEW k \in PageNo,
         Touch(r, k) \/ Truncate(r, k) \/ PageOut(r, k)
  PROVE  \E s \in PageSeq : /\ vm' = [vm EXCEPT ![r] = [vm[r] EXCEPT !.pages = s]]
                            /\ PagesInv(r, [vm[r] EXCEPT !.pages = s])
<1>1. vm[r] \in Regions /\ vm[r].pages \in PageSeq /\ pc = "run"
  BY TypesAre, Constants DEF Regions, Touch, Truncate, PageOut
<1>2. PagesInv(r, vm[r])
  BY <1>1, RunningIs
<1>3. Len(vm[r].pages) \in Nat /\ DOMAIN vm[r].pages = 1 .. Len(vm[r].pages) /\ k \in Nat /\ k >= 1
  BY <1>1, SomeRegion, Constants
\* What is to be shown of the new pages.
<1>4. ASSUME NEW s \in PageSeq, Len(s) = Len(vm[r].pages),
             KindOf[r] = "plain" =>
               /\ s[1].st # "bad"
               /\ \A i, j \in 1 .. Len(s) : s[i].st = "bad" /\ i <= j => s[j].st = "bad"
               /\ \A j \in 1 .. Len(s) : s[j].st = "bad" => "truncate" \in Faults[r],
             KindOf[r] # "plain" => \A j \in 1 .. Len(s) :
               s[j].st = "dirty" \/ (s[j].st = "clean" /\ s[j].val = 0)
      PROVE  PagesInv(r, [vm[r] EXCEPT !.pages = s])
  <2>1. /\ [vm[r] EXCEPT !.pages = s].pages = s
        /\ [vm[r] EXCEPT !.pages = s].here = vm[r].here
        /\ [vm[r] EXCEPT !.pages = s].marked = vm[r].marked
        /\ [vm[r] EXCEPT !.pages = s].kind = vm[r].kind
    BY <1>1, NewPages
  <2> DEFINE w == [vm[r] EXCEPT !.pages = s]
  <2>2. w.pages = s /\ w.here = vm[r].here /\ w.marked = vm[r].marked /\ w.kind = vm[r].kind
    BY <2>1
  <2> HIDE DEF w
  <2>3. PagesInv(r, w)
    BY <1>2, <1>4, <2>2 DEF PagesInv, Full
  <2> QED
    BY <2>3 DEF w
<1>5. CASE Touch(r, k)
  <2> DEFINE x == [val |-> writes + 1, st |-> "dirty"]
             s == WithPage(vm[r].pages, k, x)
  <2>1. /\ vm' = [vm EXCEPT ![r] = [vm[r] EXCEPT !.pages = s]]
        /\ s \in PageSeq /\ Len(s) = Len(vm[r].pages)
        /\ \A i \in 1 .. Len(s) : s[i] = IF i = k THEN x ELSE vm[r].pages[i]
    BY <1>5, TouchIs
  <2>2. x.st = "dirty" /\ vm[r].pages[k].st # "bad" /\ k \in 1 .. Len(vm[r].pages)
    BY <1>3, <1>5 DEF Touch
  <2> HIDE DEF x, s
  <2>3. KindOf[r] = "plain" =>
               /\ s[1].st # "bad"
               /\ \A i, j \in 1 .. Len(s) : s[i].st = "bad" /\ i <= j => s[j].st = "bad"
               /\ \A j \in 1 .. Len(s) : s[j].st = "bad" => "truncate" \in Faults[r]
    BY <1>2, <1>3, <2>1, <2>2, SMTT(30) DEF PagesInv, Full
  <2>4. KindOf[r] # "plain" => \A j \in 1 .. Len(s) :
               s[j].st = "dirty" \/ (s[j].st = "clean" /\ s[j].val = 0)
    BY <1>2, <1>3, <2>1, <2>2 DEF PagesInv, Full
  <2> QED
    BY <1>4, <2>1, <2>3, <2>4
<1>6. CASE Truncate(r, k)
  <2>1. PICK s \in PageSeq :
           /\ vm' = [vm EXCEPT ![r] = [vm[r] EXCEPT !.pages = s]]
           /\ Len(s) = Len(vm[r].pages)
           /\ \A i \in 1 .. Len(s) : s[i] = IF i < k THEN vm[r].pages[i]
                                            ELSE [val |-> 0, st |-> "bad"]
    BY <1>6, TruncateIs
  <2>2. KindOf[r] = "plain" /\ k # 1 /\ "truncate" \in Faults[r] /\ k \in 1 .. Len(vm[r].pages)
    BY <1>2, <1>3, <1>6, TameIs DEF Truncate, PagesInv, Full
  <2>3. /\ s[1].st # "bad"
        /\ \A i, j \in 1 .. Len(s) : s[i].st = "bad" /\ i <= j => s[j].st = "bad"
        /\ \A j \in 1 .. Len(s) : s[j].st = "bad" => "truncate" \in Faults[r]
    BY <1>2, <1>3, <2>1, <2>2 DEF PagesInv, Full
  <2> QED
    BY <1>4, <2>1, <2>2, <2>3
<1>7. CASE PageOut(r, k)
  <2> DEFINE x == [val |-> vm[r].pages[k].val, st |-> "out"]
             s == WithPage(vm[r].pages, k, x)
  <2>1. /\ vm' = [vm EXCEPT ![r] = [vm[r] EXCEPT !.pages = s]]
        /\ s \in PageSeq /\ Len(s) = Len(vm[r].pages)
        /\ \A i \in 1 .. Len(s) : s[i] = IF i = k THEN x ELSE vm[r].pages[i]
    BY <1>7, PageOutIs
  <2>2. /\ x.st = "out" /\ vm[r].pages[k].st # "bad" /\ k \in 1 .. Len(vm[r].pages)
        /\ KindOf[r] = "plain"
    BY <1>3, <1>7, TameIs DEF PageOut
  <2> HIDE DEF x, s
  <2>3. /\ s[1].st # "bad"
        /\ \A i, j \in 1 .. Len(s) : s[i].st = "bad" /\ i <= j => s[j].st = "bad"
        /\ \A j \in 1 .. Len(s) : s[j].st = "bad" => "truncate" \in Faults[r]
    BY <1>2, <1>3, <2>1, <2>2, SMTT(30) DEF PagesInv, Full
  <2> QED
    BY <1>4, <2>1, <2>2, <2>3
<1> QED
  BY <1>5, <1>6, <1>7

LEMMA ProgramExact ==
  ASSUME Benign, Types, Exact, NEW r \in Users, NEW k \in PageNo,
         Touch(r, k) \/ Truncate(r, k) \/ PageOut(r, k) \/ Protects(r)
  PROVE  Exact'
<1>1. pc = "run" /\ pc' = "run" /\ UNCHANGED image
  BY DEF Touch, Truncate, PageOut, Protects, Mprotect
<1>2. /\ \A q \in Users : PagesInv(q, vm[q]) /\ ProtInv(q, vm[q])
      /\ image # NoImage => GoodImage(image.file, image.vm)
  BY <1>1, RunningIs
<1>3. vm[r] \in Regions /\ r \in Ids /\ vm \in [Ids -> Regions] /\ Users \subseteq Ids
  BY TypesAre, Constants
<1>4. PICK w \in Regions : /\ vm' = [vm EXCEPT ![r] = w]
                           /\ PagesInv(r, w) /\ ProtInv(r, w)
  <2>1. CASE Protects(r)
    <3>1. PICK p \in Asked : /\ Mprotect(r, p) /\ p \in Prots
                             /\ vm' = [vm EXCEPT ![r] = [vm[r] EXCEPT !.prot = p]]
      BY <2>1, MprotectIs
    <3> DEFINE w == [vm[r] EXCEPT !.prot = p]
    <3>2. /\ w \in Regions /\ w.pages = vm[r].pages /\ w.here = vm[r].here
          /\ w.marked = vm[r].marked /\ w.kind = vm[r].kind /\ w.prot = p
      BY <1>3, <3>1, NewProt
    <3>5. vm' = [vm EXCEPT ![r] = w]
      BY <3>1
    <3> HIDE DEF w
    <3>3. PagesInv(r, w)
      BY <1>2, <3>2 DEF PagesInv, Full
    <3>4. ProtInv(r, w)
      BY <3>1, <3>2 DEF ProtInv, Mprotect, Asked
    <3> QED
      BY <3>2, <3>3, <3>4, <3>5
  <2>2. CASE Touch(r, k) \/ Truncate(r, k) \/ PageOut(r, k)
    <3>1. PICK s \in PageSeq : /\ vm' = [vm EXCEPT ![r] = [vm[r] EXCEPT !.pages = s]]
                               /\ PagesInv(r, [vm[r] EXCEPT !.pages = s])
      BY <2>2, ProgramPages
    <3> DEFINE w == [vm[r] EXCEPT !.pages = s]
    <3>2. w \in Regions /\ w.prot = vm[r].prot
      BY <1>3, NewPages
    <3>3. vm' = [vm EXCEPT ![r] = w] /\ PagesInv(r, w)
      BY <3>1
    <3> HIDE DEF w
    <3>4. ProtInv(r, w)
      BY <1>2, <3>2 DEF ProtInv
    <3> QED
      BY <3>2, <3>3, <3>4
  <2> QED
    BY <2>1, <2>2
<1>5. \A q \in Users : PagesInv(q, vm'[q]) /\ ProtInv(q, vm'[q])
  BY <1>2, <1>3, <1>4
<1> QED
  BY <1>1, <1>2, <1>5, RunExact

-----------------------------------------------------------------------------
(* The writer *)

LEMMA Monotone == \A a, b, c \in Nat : a <= b => c * a <= c * b
OBVIOUS

LEMMA SizeIs == RegionSize \in Nat /\ RegionSize = 2 + 2 * NPages
BY Constants DEF RegionSize, PageSize

LEMMA RoomIs ==
  ASSUME Benign, Types
  PROVE  cap \in Nat /\ 3 + RegionSize * Len(KindOf) <= cap /\ RegionSize * Len(KindOf) \in Nat
<1>1. cap \in Nat /\ cap \in Caps
  BY TypesAre
<1>2. RegionSize * Len(KindOf) \in Nat
  BY SizeIs, Constants
<1>3. cap >= 3 + RegionSize * Len(KindOf)
  BY <1>1 DEF Benign, Roomy
<1> QED
  BY <1>1, <1>2, <1>3

LEMMA SavedAre ==
  ASSUME NEW v
  PROVE  /\ SavedIn(v) \subseteq Users /\ IsFiniteSet(SavedIn(v))
         /\ Cardinality(SavedIn(v)) \in Nat /\ Cardinality(SavedIn(v)) <= Len(KindOf)
<1>1. IsFiniteSet(Users) /\ Cardinality(Users) = Len(KindOf)
  <2>1. Len(KindOf) \in Nat /\ Users = 1 .. Len(KindOf)
    BY Constants
  <2>2. /\ IsFiniteSet(1 .. Len(KindOf))
        /\ Cardinality(1 .. Len(KindOf)) = IF 1 > Len(KindOf) THEN 0 ELSE Len(KindOf) - 1 + 1
    BY <2>1, FS_Interval, SMTT(30)
  <2>3. Cardinality(1 .. Len(KindOf)) = Len(KindOf)
    BY <2>1, <2>2
  <2> QED
    BY <2>1, <2>2, <2>3
<1>2. SavedIn(v) \subseteq Users
  BY DEF SavedIn
<1> QED
  BY <1>1, <1>2, FS_Subset, FS_CardinalityType

\* What is saved depends on the pages only.
LEMMA SavedSame ==
  ASSUME NEW v, NEW w, \A r \in Users : w[r].pages = v[r].pages /\ w[r].here = v[r].here
  PROVE  SavedIn(w) = SavedIn(v)
<1>1. \A r \in Users : DirtyIn(w[r]) = DirtyIn(v[r])
  BY DEF DirtyIn
<1> QED
  BY <1>1 DEF SavedIn, Holding

LEMMA WriterExact ==
  ASSUME Exact, pc' \in Writing, UNCHANGED image, MemInv', WriteInv', pc' \in InRegion => HandInv',
         pc' = "dirty" => DirtyInv', pc' \in {"all", "fix"} => AllInv'
  PROVE  Exact'
BY DEF Exact, Writing, InRegion, Reading

LEMMA BadExact ==
  ASSUME Exact, pc \in {"entry", "region", "dirty"}, pc' = "run", UNCHANGED <<vm, image>>
  PROVE  Exact'
<1>1. \A r \in Users : PagesInv(r, vm[r]) /\ ProtInv(r, vm[r])
  BY DEF Exact, MemInv, Writing
<1> QED
  BY <1>1, RunExact DEF Exact

\* With the offset at the end of the file, what is written is appended.
LEMMA Appended ==
  ASSUME Types, pc \in Writing, Len(file) = pos, NEW units \in Seq(Units)
  PROVE  /\ Written(pos, units) \in Seq(Units) /\ Fit(pos, units) \in 0 .. Len(units)
         /\ Len(Written(pos, units)) = pos + Fit(pos, units)
         /\ \A j \in 1 .. pos : Written(pos, units)[j] = file[j]
         /\ \A j \in 1 .. Fit(pos, units) : Written(pos, units)[pos + j] = units[j]
<1>1. file \in Seq(Units) /\ cap \in Nat /\ pos \in 0 .. Len(file) /\ Len(file) \in Nat /\ pos \in Nat
  BY WritingIs
<1>2. /\ Fit(pos, units) \in 0 .. Len(units)
      /\ Written(pos, units) \in Seq(Units)
      /\ Len(Written(pos, units)) >= pos + Fit(pos, units)
      /\ Len(Written(pos, units)) = Len(file) \/ Len(Written(pos, units)) = pos + Fit(pos, units)
      /\ \A j \in 1 .. pos : Written(pos, units)[j] = file[j]
      /\ \A j \in 1 .. Fit(pos, units) : Written(pos, units)[pos + j] = units[j]
  BY <1>1, WrittenIs
<1>3. Len(Written(pos, units)) = pos + Fit(pos, units)
  BY <1>1, <1>2
<1> QED
  BY <1>2, <1>3

LEMMA CheckpointExact ==
  ASSUME Types, OwnInv, Exact, xnd_checkpoint
  PROVE  Exact'
<1> DEFINE n == Cardinality(SavedIn(vm)) + 1
           h == Header(n)
<1>1. pc = "run"
  BY DEF xnd_checkpoint
<1>2. \A r \in Users : PagesInv(r, vm[r]) /\ ProtInv(r, vm[r])
  BY <1>1, RunningIs
<1>3. {r \in Ids : ckpt_vm_valid_region(r)} = SavedIn(vm)
  <2>1. ~ckpt_vm_valid_region(Own)
    BY DEF ckpt_vm_valid_region, OwnInv
  <2>2. ASSUME NEW r \in Users PROVE ckpt_vm_valid_region(r) <=> Holding(r, vm[r])
    <3>1. Dirty(r) = DirtyIn(vm[r])
      BY DirtyIs, Constants
    <3> QED
      BY <1>2, <3>1 DEF PagesInv, Full, ckpt_vm_valid_region, Holding
  <2> QED
    BY <2>1, <2>2, Constants DEF SavedIn
<1>4. /\ file' = <<h>> /\ list' = SavedIn(vm) /\ pos' = 1 /\ pc' = "entry"
      /\ UNCHANGED <<vm, image>>
  BY <1>3 DEF xnd_checkpoint
<1>5. /\ SavedIn(vm) \subseteq Users /\ Cardinality(SavedIn(vm)) \in Nat
      /\ Cardinality(SavedIn(vm)) <= Len(KindOf)
  BY SavedAre
<1>6. h.k = "header"
  BY DEF Header
<1>7. Len(file') = 1 /\ file'[1] = h
  BY <1>4
<1> HIDE DEF h
<1>8. MemInv'
  BY <1>2, <1>4 DEF MemInv
<1>9. WriteInv'
  <2>1. \A p : ~IsStruct(file', p)
    BY <1>6, <1>7 DEF IsStruct
  <2>2. Front' = 1 /\ ToDo' = SavedIn(vm')
    BY <1>4 DEF Front, ToDo
  <2>3. Entries(file', vm', Front')
    BY <2>1, <2>2 DEF Entries
  <2>4. RegionsIn(file', 0, Front') = {}
    BY <2>1 DEF RegionsIn
  <2>5. Front' + RegionSize * Cardinality(ToDo') <= 1 + RegionSize * Len(KindOf)
    <3>1. RegionSize * Cardinality(SavedIn(vm)) <= RegionSize * Len(KindOf)
      BY <1>5, SizeIs, Monotone, Constants
    <3>2. RegionSize * Cardinality(SavedIn(vm)) \in Nat /\ RegionSize * Len(KindOf) \in Nat
      BY <1>5, SizeIs, Constants
    <3> QED
      BY <1>4, <2>2, <3>1, <3>2
  <2>6. file'[1] = Header(Cardinality(SavedIn(vm')) + 1)
    BY <1>4, <1>7 DEF h
  <2> QED
    BY <1>4, <1>7, <2>1, <2>2, <2>3, <2>4, <2>5, <2>6 DEF WriteInv
<1> QED
  BY <1>4, <1>8, <1>9, WriterExact DEF Writing, InRegion

\* The entries of the file that is being written.
LEMMA WriterIs ==
  ASSUME Types, Exact, pc \in Writing
  PROVE  /\ WriteInv /\ \A r \in Users : PagesInv(r, vm[r])
         /\ \A r \in Users : ProtInv(r, vm[r]) \/ (pc \in {"all", "fix"} /\ r = at)
         /\ file \in Seq(Units) /\ Len(file) = pos /\ pos \in Nat /\ pos >= 1
         /\ Front \in Nat /\ Front >= 1 /\ Front <= pos
         /\ image # NoImage => GoodImage(image.file, image.vm)
<1>1. /\ WriteInv /\ \A r \in Users : PagesInv(r, vm[r])
      /\ \A r \in Users : ProtInv(r, vm[r]) \/ (pc \in {"all", "fix"} /\ r = at)
      /\ image # NoImage => GoodImage(image.file, image.vm)
  BY DEF Exact, MemInv
<1>2. file \in Seq(Units) /\ pos \in Nat /\ pos >= 1
  BY WritingIs
<1>3. Len(file) = pos /\ Front >= 1
  BY <1>1 DEF WriteInv
<1>4. Front \in Int /\ Front <= pos
  <2>1. before \in Nat
    BY TypesAre
  <2>2. pc \in {"entry", "region"} => Front = pos \/ Front = pos - 1
    BY DEF Front
  <2>3. pc \in InRegion => Front = before - 1 /\ pos >= before
    BY TypesAre, <1>2, <2>1 DEF Front, PlaceType, InRegion
  <2> QED
    BY <1>2, <2>1, <2>2, <2>3 DEF Writing, InRegion
<1> QED
  BY <1>1, <1>2, <1>3, <1>4

\* The image is complete.
LEMMA LastEntry ==
  ASSUME Types, Exact, pc = "entry", list = {}, NEW units \in Seq(Units), Len(units) = 2,
         units[1] = Tag("context"), units[2] = Context, Fit(pos, units) = 2
  PROVE  GoodImage(Written(pos, units), vm)
<1> DEFINE f == Written(pos, units)
<1>1. pc \in Writing
  BY DEF Writing
<1>2. /\ WriteInv /\ (\A r \in Users : PagesInv(r, vm[r]) /\ ProtInv(r, vm[r]))
      /\ file \in Seq(Units) /\ Len(file) = pos /\ pos \in Nat /\ pos >= 1
  BY <1>1, WriterIs
<1>3. /\ Entries(file, vm, pos) /\ RegionsIn(file, 0, pos) = SavedIn(vm)
      /\ file[1] = Header(Cardinality(SavedIn(vm)) + 1)
  BY <1>2 DEF WriteInv, Front, ToDo
<1>4. /\ f \in Seq(Units) /\ Len(f) = pos + 2 /\ \A j \in 1 .. pos : f[j] = file[j]
      /\ \A j \in 1 .. 2 : f[pos + j] = units[j]
  BY <1>1, <1>2, Appended, ZenonT(30)
<1> HIDE DEF f
<1>5. f[1] = file[1] /\ f[pos + 1] = Tag("context") /\ f[pos + 2] = Context
  BY <1>2, <1>4
<1>6. Entries(f, vm, pos) /\ RegionsIn(f, 0, pos) = SavedIn(vm)
  <2>1. pos \in Nat /\ pos <= Len(file) /\ pos <= Len(f)
    BY <1>2, <1>4
  <2>2. /\ file \in Seq(Units) /\ f \in Seq(Units) /\ (\A j \in 1 .. pos : f[j] = file[j])
        /\ Entries(file, vm, pos) /\ RegionsIn(file, 0, pos) = SavedIn(vm)
    BY <1>2, <1>3, <1>4
  <2>3. \A r \in RegionsIn(file, 0, pos) : vm[r] = vm[r]
    OBVIOUS
  <2>4. Entries(f, vm, pos) /\ RegionsIn(f, 0, pos) = RegionsIn(file, 0, pos)
    BY <2>1, <2>2, <2>3, EntriesKeep
  <2> QED
    BY <2>2, <2>4
<1>7. RegionsIn(f, 0, Len(f)) = RegionsIn(f, 0, pos)
  <2>1. ~IsStruct(f, pos + 1) /\ ~IsStruct(f, pos + 2)
    BY <1>5, UnitsAre DEF IsStruct
  <2>2. \A p \in 0 + 1 .. Len(f) : p \in 0 + 1 .. pos \/ p = pos + 1 \/ p = pos + 2
    BY <1>2, <1>4
  <2>3. \A p \in 0 + 1 .. pos : p \in 0 + 1 .. Len(f)
    BY <1>2, <1>4
  <2> QED
    BY <2>1, <2>2, <2>3 DEF RegionsIn
<1>8. IsFile(f)
  <2>1. IsFile(file)
    BY <1>1, WritingIs
  <2> QED
    BY <1>2, <1>4, <1>5, <2>1 DEF IsFile
<1>9. vm \in [Ids -> Regions]
  BY TypesAre
<1>10. Len(f) - 1 = pos + 1 /\ Len(f) - 2 = pos /\ Len(f) >= 3
  BY <1>2, <1>4
<1> QED
  BY <1>2, <1>3, <1>4, <1>5, <1>6, <1>7, <1>8, <1>9, <1>10 DEF GoodImage, f

LEMMA EntryExact ==
  ASSUME Types, Exact, write_entry
  PROVE  Exact'
<1> DEFINE units == IF list = {} THEN <<Tag("context"), Context>> ELSE <<Tag("region")>>
<1>1. pc = "entry" /\ pc \in Writing /\ UNCHANGED vm
  BY DEF write_entry, Writing
<1>2. /\ units \in Seq(Units)
      /\ list = {} => Len(units) = 2 /\ units[1] = Tag("context") /\ units[2] = Context
      /\ list # {} => Len(units) = 1 /\ units[1] = Tag("region")
  BY UnitsAre
<1> HIDE DEF units
<1>3. CASE ~Complete(pos, units)
  <2>1. pc' = "run" /\ UNCHANGED image
    BY <1>3 DEF write_entry, Bad, units
  <2> QED
    BY <1>1, <2>1, BadExact
<1>4. CASE Complete(pos, units) /\ list = {}
  <2>1. pc' = "run" /\ image' = [file |-> Written(pos, units), vm |-> vm, asked |-> asked]
    BY <1>4 DEF write_entry, units
  <2>2. GoodImage(Written(pos, units), vm)
    BY <1>1, <1>2, <1>4, LastEntry DEF Complete
  <2>3. image'.file = Written(pos, units) /\ image'.vm = vm
    BY <2>1
  <2>4. \A r \in Users : PagesInv(r, vm[r]) /\ ProtInv(r, vm[r])
    BY <1>1, WriterIs
  <2> QED
    BY <1>1, <2>1, <2>2, <2>3, <2>4, RunExact
<1>5. CASE Complete(pos, units) /\ list # {}
  <2>1. /\ file' = Written(pos, units) /\ pos' = pos + 1 /\ pc' = "region"
        /\ at' \in list /\ list' = list \ {at'} /\ UNCHANGED image
    BY <1>2, <1>5 DEF write_entry, writeall, units, Complete
  <2>2. /\ WriteInv /\ (\A r \in Users : PagesInv(r, vm[r]) /\ ProtInv(r, vm[r]))
        /\ file \in Seq(Units) /\ Len(file) = pos /\ pos \in Nat /\ pos >= 1
    BY <1>1, WriterIs
  <2>3. /\ file' \in Seq(Units) /\ Len(file') = pos + 1 /\ \A j \in 1 .. pos : file'[j] = file[j]
        /\ \A j \in 1 .. 1 : file'[pos + j] = units[j]
    <3>1. Fit(pos, units) = 1
      BY <1>2, <1>5 DEF Complete
    <3>2. /\ Written(pos, units) \in Seq(Units) /\ Len(Written(pos, units)) = pos + Fit(pos, units)
          /\ \A j \in 1 .. pos : Written(pos, units)[j] = file[j]
          /\ \A j \in 1 .. Fit(pos, units) : Written(pos, units)[pos + j] = units[j]
      BY <1>1, <1>2, <2>2, Appended
    <3> QED
      BY <2>1, <3>1, <3>2
  <2>4. file'[1] = file[1] /\ file'[pos + 1] = Tag("region")
    BY <1>2, <1>5, <2>2, <2>3
  <2>5. MemInv'
    BY <1>1, <2>1, <2>2 DEF MemInv
  <2>6. Front = pos /\ Front' = pos /\ ToDo = list /\ ToDo' = list
    BY <1>1, <2>1, <2>2 DEF Front, ToDo
  <2>7. Entries(file', vm', pos) /\ RegionsIn(file', 0, pos) = RegionsIn(file, 0, pos)
    <3>1. Entries(file, vm, pos)
      BY <2>2, <2>6 DEF WriteInv
    <3> QED
      BY <1>1, <2>2, <2>3, <3>1, EntriesKeep
  <2>8. \A p \in pos + 1 .. Len(file') : ~IsStruct(file', p)
    BY <2>2, <2>3, <2>4, UnitsAre DEF IsStruct
  <2>9. WriteInv'
    BY <1>1, <2>1, <2>2, <2>3, <2>4, <2>6, <2>7, <2>8 DEF WriteInv
  <2> QED
    BY <1>1, <2>1, <2>5, <2>9, WriterExact DEF Writing, InRegion
<1> QED
  BY <1>3, <1>4, <1>5

\* The size of a region's entry, at most.
LEMMA RegionFits ==
  ASSUME Benign, Types, Exact, pc \in Writing, pc # "entry"
  PROVE  /\ Len(vm[at].pages) \in Nat /\ Len(vm[at].pages) >= 1 /\ Len(vm[at].pages) <= NPages
         /\ Front + 2 + 2 * Len(vm[at].pages) <= cap /\ at \in Users /\ at \in SavedIn(vm)
         /\ \A e \in Nat : e <= Front + 2 + 2 * Len(vm[at].pages) =>
                e + RegionSize * Cardinality(list) <= 1 + RegionSize * Len(KindOf)
<1>1. /\ WriteInv /\ (\A r \in Users : PagesInv(r, vm[r])) /\ Front \in Nat
  BY WriterIs
<1>2. /\ ToDo = list \cup {at} /\ at \notin list /\ ToDo \subseteq SavedIn(vm)
      /\ Front + RegionSize * Cardinality(ToDo) <= 1 + RegionSize * Len(KindOf)
  BY <1>1 DEF WriteInv, ToDo
<1>3. at \in SavedIn(vm) /\ at \in Users /\ at \in Ids /\ list \subseteq SavedIn(vm)
  BY <1>2, SavedAre, Constants
<1>4. Len(vm[at].pages) \in Nat /\ Len(vm[at].pages) >= 1 /\ Len(vm[at].pages) <= NPages
  <2>1. vm[at] \in Regions
    BY <1>3, TypesAre
  <2> QED
    BY <1>1, <1>3, <2>1, SomeRegion, Constants DEF PagesInv, Full, SavedIn, Holding
<1>5. Cardinality(list) \in Nat /\ Cardinality(ToDo) = Cardinality(list) + 1
  <2>1. IsFiniteSet(list)
    BY <1>3, SavedAre, FS_Subset
  <2> QED
    BY <1>2, <2>1, FS_AddElement, FS_CardinalityType
<1> DEFINE c == Cardinality(list)
           x == RegionSize * c
           y == RegionSize * Len(KindOf)
           n == Len(vm[at].pages)
<1>6. RegionSize * (c + 1) = x + RegionSize /\ x \in Nat /\ y \in Nat
  BY <1>5, SizeIs, Constants, SMTT(30)
<1>7. Front + x + RegionSize <= 1 + y
  BY <1>1, <1>2, <1>5, <1>6, SizeIs
<1>8. 3 + y <= cap /\ cap \in Nat
  BY RoomIs
<1>9. n \in Nat /\ n >= 1 /\ n <= NPages /\ NPages \in Nat /\ RegionSize = 2 + 2 * NPages /\ Front \in Nat
  BY <1>1, <1>4, SizeIs, Constants
<1> HIDE DEF x, y, n
<1>10. Front + 2 + 2 * n <= cap
  BY <1>6, <1>7, <1>8, <1>9
<1>11. ASSUME NEW e \in Nat, e <= Front + 2 + 2 * n
       PROVE  e + x <= 1 + y
  BY <1>6, <1>7, <1>9, <1>11
<1> QED
  BY <1>3, <1>9, <1>10, <1>11 DEF x, y, n

\* Nothing is dirty before the first page.
LEMMA NoneBefore ==
  ASSUME NEW w
  PROVE  {k \in DirtyIn(w) : k < 1} = {}
BY DEF DirtyIn

\* The struct of a region is appended.
LEMMA WriteRegionExact ==
  ASSUME Benign, Types, OwnInv, Exact, write_vm_region
  PROVE  Exact'
<1> DEFINE n == Len(vm[at].pages)
           d == Cardinality(Dirty(at))
           dirty_only == vm[at].kind \in {"malloc", "cache"} /\ 3 * d < 2 * n + 1
           s == Struct(at, n, dirty_only)
<1>1. pc = "region" /\ pc \in Writing /\ pc # "entry" /\ UNCHANGED <<cap, image>>
  BY WriteRegionIs DEF Writing
<1>2. /\ WriteInv /\ (\A r \in Users : PagesInv(r, vm[r]) /\ ProtInv(r, vm[r]))
      /\ file \in Seq(Units) /\ Len(file) = pos /\ pos \in Nat /\ pos >= 1
      /\ Front \in Nat /\ Front >= 1
  BY <1>1, WriterIs
<1>3. at \in Users /\ at \in Ids /\ n \in Nat /\ n >= 1 /\ n <= NPages /\ at \in SavedIn(vm)
  BY <1>1, RegionFits, Constants
<1>4. vm \in [Ids -> Regions] /\ vm[at] \in Regions /\ d \in Nat /\ d = Cardinality(DirtyIn(vm[at]))
  BY <1>3, TypesAre, DirtyIs
<1>5. /\ s \in Units /\ s.k = "struct" /\ s.n \in Structs /\ s.n.r = at /\ s.n.size = n
      /\ s.n.prot = vm[at].prot /\ s.n.dirty_only = dirty_only /\ s.n.dirtied = d
  <2>1. n \in 0 .. NPages /\ dirty_only \in BOOLEAN
    BY <1>3
  <2> HIDE DEF n, dirty_only
  <2> QED
    BY <1>3, <2>1, StructIs
<1> DEFINE us == <<s>>
<1>6. us \in Seq(Units) /\ Len(us) = 1 /\ us[1] = s
  BY <1>5
<1>7. \/ pc' = "run" /\ UNCHANGED vm
      \/ /\ Fit(pos, us) = 1 /\ file' = Written(pos, us) /\ pos' = pos + 1
         /\ pc' = IF dirty_only THEN "dirty" ELSE "all"
         /\ page' = 1 /\ before' = pos /\ UNCHANGED <<list, at, left>>
         /\ vm' = IF dirty_only \/ vm[at].prot # "none" THEN vm
                  ELSE [vm EXCEPT ![at] = [vm[at] EXCEPT !.prot = "r"]]
  BY WriteRegionIs
<1>8. d <= n
  BY <1>3, DirtyIs
<1> HIDE DEF n, d, s, us
<1>9. CASE pc' = "run" /\ UNCHANGED vm
  BY <1>1, <1>9, BadExact
<1>10. CASE /\ Fit(pos, us) = 1 /\ file' = Written(pos, us) /\ pos' = pos + 1
            /\ pc' = (IF dirty_only THEN "dirty" ELSE "all")
            /\ page' = 1 /\ before' = pos /\ UNCHANGED <<list, at, left>>
            /\ vm' = IF dirty_only \/ vm[at].prot # "none" THEN vm
                     ELSE [vm EXCEPT ![at] = [vm[at] EXCEPT !.prot = "r"]]
  <2>1. /\ file' \in Seq(Units) /\ Len(file') = pos + 1 /\ \A j \in 1 .. pos : file'[j] = file[j]
        /\ \A j \in 1 .. 1 : file'[pos + j] = us[j]
    BY <1>1, <1>2, <1>6, <1>10, Appended
  <2>2. file'[1] = file[1] /\ file'[pos + 1] = s /\ file'[pos] = file[pos]
    BY <1>2, <1>6, <2>1
  <2>3. /\ vm' \in [Ids -> Regions] /\ vm'[at].pages = vm[at].pages /\ vm'[at].here = vm[at].here
        /\ vm'[at].marked = vm[at].marked /\ vm'[at].kind = vm[at].kind
        /\ vm'[at].prot = IF dirty_only \/ vm[at].prot # "none" THEN vm[at].prot ELSE "r"
        /\ \A r \in Users : r # at => vm'[r] = vm[r]
    <3>1. CASE vm' = vm /\ (dirty_only \/ vm[at].prot # "none")
      BY <1>4, <3>1
    <3>2. CASE ~(dirty_only \/ vm[at].prot # "none") /\ vm' = [vm EXCEPT ![at] = [vm[at] EXCEPT !.prot = "r"]]
      <4> DEFINE w == [vm[at] EXCEPT !.prot = "r"]
      <4>1. "r" \in Prots
        BY DEF Prots, Asked
      <4>2. /\ w \in Regions /\ w.pages = vm[at].pages /\ w.here = vm[at].here
            /\ w.marked = vm[at].marked /\ w.kind = vm[at].kind /\ w.prot = "r"
        BY <1>4, <4>1, NewProt
      <4>3. vm' = [vm EXCEPT ![at] = w]
        BY <3>2
      <4> HIDE DEF w
      <4>4. vm' \in [Ids -> Regions] /\ vm'[at] = w /\ \A q \in Ids : q # at => vm'[q] = vm[q]
        BY <1>3, <1>4, <4>2, <4>3, OneRegion
      <4> HIDE DEF dirty_only
      <4> QED
        BY <3>2, <4>2, <4>4, Constants
    <3> HIDE DEF dirty_only
    <3> QED
      BY <1>10, <3>1, <3>2
  <2>4. pc' \in {"dirty", "all"} /\ (pc' = "dirty" <=> dirty_only)
    BY <1>10
  <2>5. dirty_only => vm[at].kind # "plain" /\ 3 * d <= 2 * n
    BY <1>3, <1>4
  <2>6. dirty_only \in BOOLEAN
    OBVIOUS
  <2> HIDE DEF dirty_only
  <2>7. \A r \in Users : vm'[r].pages = vm[r].pages /\ vm'[r].here = vm[r].here
    BY <2>3
  <2>8. SavedIn(vm') = SavedIn(vm)
    BY <2>7, SavedSame
  <2>9. \A r \in Users : PagesInv(r, vm'[r])
    <3>1. PagesInv(at, vm'[at])
      BY <1>2, <1>3, <2>3 DEF PagesInv, Full
    <3> QED
      BY <1>2, <2>3, <3>1
  <2>10. MemInv'
    <3>1. ASSUME NEW r \in Users PROVE ProtInv(r, vm'[r]) \/ (pc' \in {"all", "fix"} /\ r = at')
      <4>1. r # at => ProtInv(r, vm'[r])
        BY <1>2, <2>3
      <4>2. dirty_only => ProtInv(at, vm'[at])
        BY <1>2, <1>3, <2>3 DEF ProtInv
      <4> QED
        BY <1>10, <2>4, <4>1, <4>2
    <3> QED
      BY <2>9, <3>1 DEF MemInv
  <2>11. Front = pos - 1 /\ Front' = pos - 1 /\ ToDo = list \cup {at} /\ ToDo' = list \cup {at}
    BY <1>1, <1>10, <2>4 DEF Front, ToDo
  <2>12. /\ Entries(file', vm', Front) /\ RegionsIn(file', 0, Front) = RegionsIn(file, 0, Front)
    <3>1. Entries(file, vm, Front) /\ RegionsIn(file, 0, Front) = SavedIn(vm) \ ToDo
      BY <1>2 DEF WriteInv
    <3>2. \A r \in RegionsIn(file, 0, Front) : vm'[r] = vm[r]
      BY <2>3, <2>11, <3>1, SavedAre
    <3>3. /\ Front <= Len(file) /\ Front <= Len(file') /\ \A j \in 1 .. Front : file'[j] = file[j]
      BY <1>2, <2>1, <2>11
    <3> QED
      BY <1>2, <2>1, <3>1, <3>2, <3>3, EntriesKeep
  <2>13. \A p \in Front + 1 .. Len(file') : IsStruct(file', p) => p = pos + 1
    <3>1. file[pos] = Tag("region")
      BY <1>1, <1>2, <2>11 DEF WriteInv
    <3>2. ~IsStruct(file', pos)
      BY <2>2, <3>1, UnitsAre DEF IsStruct
    <3> QED
      BY <1>2, <2>1, <2>11, <3>2
  <2>14. WriteInv'
    <3>1. /\ file'[1] = Header(Cardinality(SavedIn(vm')) + 1)
          /\ RegionsIn(file', 0, Front') = SavedIn(vm') \ ToDo' /\ ToDo' \subseteq SavedIn(vm')
          /\ Front' + RegionSize * Cardinality(ToDo') <= 1 + RegionSize * Len(KindOf)
      BY <1>2, <2>2, <2>8, <2>11, <2>12 DEF WriteInv
    <3>2. at' \notin list' /\ file'[Front' + 1] = Tag("region")
      BY <1>1, <1>2, <1>10, <2>2, <2>11 DEF WriteInv
    <3> QED
      BY <1>2, <1>10, <2>1, <2>4, <2>11, <2>12, <2>13, <3>1, <3>2 DEF WriteInv, InRegion
  <2>15. HandInv'
    <3>1. InHand' = s.n /\ before' + 1 = pos'
      BY <1>10, <2>2 DEF InHand
    <3>2. OnlyPages(file', before' + 1, pos')
      BY <1>2, <1>10, <3>1 DEF OnlyPages
    <3>3. ProtInv(at', InHand')
      BY <1>2, <1>3, <1>5, <1>10, <3>1 DEF ProtInv
    <3>4. /\ InHand'.r = at' /\ InHand'.dirty_only = (pc' = "dirty")
          /\ InHand'.size = Len(vm'[at'].pages)
      BY <1>5, <1>10, <2>3, <2>4, <2>6, <3>1 DEF n
    <3> QED
      BY <3>2, <3>3, <3>4 DEF HandInv
  <2>16. pc' = "dirty" => DirtyInv'
    <3> SUFFICES ASSUME pc' = "dirty" PROVE DirtyInv'
      OBVIOUS
    <3> DEFINE m == Cardinality({k \in DirtyIn(vm'[at']) : k < page'})
    <3>0. dirty_only /\ vm' = vm /\ at' = at
      BY <1>10, <2>4
    <3>1. InHand' = s.n /\ before' + 1 = pos'
      BY <1>10, <2>2 DEF InHand
    <3>2. m = 0
      BY <1>10, NoneBefore, FS_EmptySet
    <3> HIDE DEF m
    <3>3. DirtyPages(file', before' + 1, vm'[at'], m, page' - 1)
      BY <1>10, <3>2 DEF DirtyPages, DirtyIn
    <3>4. pos' = before' + 1 + 3 * m
      BY <1>2, <1>10, <3>2
    <3>5. /\ InHand'.prot = vm'[at'].prot /\ vm'[at'].kind # "plain"
          /\ InHand'.dirtied = Cardinality(DirtyIn(vm'[at']))
          /\ 3 * InHand'.dirtied <= PageSize * Len(vm'[at'].pages)
      BY <1>4, <1>5, <2>5, <3>0, <3>1 DEF PageSize, n
    <3> QED
      BY <3>3, <3>4, <3>5 DEF DirtyInv, m
  <2>17. pc' \in {"all", "fix"} => AllInv'
    <3> SUFFICES ASSUME pc' = "all" PROVE AllInv'
      BY <2>4
    <3>1. InHand' = s.n /\ before' + 1 = pos'
      BY <1>10, <2>2 DEF InHand
    <3>2. vm'[at'].prot = IF InHand'.prot = "none" THEN "r" ELSE InHand'.prot
      BY <1>5, <1>10, <2>3, <2>4, <3>1
    <3> QED
      BY <1>2, <1>10, <3>1, <3>2 DEF AllInv, AllPages
  <2> QED
    BY <1>1, <2>4, <2>10, <2>14, <2>15, <2>16, <2>17, WriterExact DEF Writing, InRegion
<1> HIDE DEF dirty_only
<1> QED
  BY <1>7, <1>9, <1>10

\* The pages of the region in hand are all written.
LEMMA RegionDone ==
  ASSUME Benign, Types, Exact, pc \in InRegion, pc' = "entry", UNCHANGED <<pos, list, image>>,
         file' \in Seq(Units), Len(file') = pos, \A j \in 1 .. pos : j # before + 1 => file'[j] = file[j],
         IsStruct(file', before + 1), file'[before + 1].n.r = at,
         \A r \in Users : r # at => vm'[r] = vm[r],
         vm'[at].pages = vm[at].pages, vm'[at].here = vm[at].here,
         \A r \in Users : PagesInv(r, vm'[r]) /\ ProtInv(r, vm'[r]),
         Holds(file', before + 1, vm'[at]), End(file', before + 1) = pos,
         pos <= before + 1 + 2 * Len(vm[at].pages)
  PROVE  Exact'
<1> DEFINE e == Front
<1>1. pc \in Writing /\ pc # "entry" /\ before \in Nat /\ before >= 1
  BY InRegionIs DEF InRegion
<1>2. /\ WriteInv /\ file \in Seq(Units) /\ Len(file) = pos /\ pos \in Nat /\ pos >= 1
      /\ e \in Nat /\ e >= 1 /\ e <= pos
  BY <1>1, WriterIs
<1>3. e = before - 1 /\ e + 2 = before + 1 /\ e + 1 = before /\ ToDo = list \cup {at}
  BY <1>1 DEF Front, ToDo, InRegion
<1>4. at \in Users /\ at \in SavedIn(vm) /\ Len(vm[at].pages) \in Nat
  BY <1>1, RegionFits
<1>5. SavedIn(vm') = SavedIn(vm)
  <2>1. \A r \in Users : vm'[r].pages = vm[r].pages /\ vm'[r].here = vm[r].here
    OBVIOUS
  <2> QED
    BY <2>1, SavedSame
<1>6. /\ Entries(file, vm, e) /\ RegionsIn(file, 0, e) = SavedIn(vm) \ ToDo
      /\ file[e + 1] = Tag("region") /\ at \notin list /\ ToDo \subseteq SavedIn(vm)
      /\ file[1] = Header(Cardinality(SavedIn(vm)) + 1)
      /\ \A p \in e + 1 .. Len(file) : IsStruct(file, p) => p = before + 1
  BY <1>1, <1>2 DEF WriteInv
<1> HIDE DEF e
<1>7. before + 1 <= pos /\ file'[1] = file[1] /\ file'[e + 1] = file[e + 1]
      /\ \A j \in 1 .. e : file'[j] = file[j]
  BY <1>1, <1>2, <1>3 DEF IsStruct
<1>8. Entries(file', vm', e) /\ RegionsIn(file', 0, e) = RegionsIn(file, 0, e)
  <2>1. \A r \in RegionsIn(file, 0, e) : vm'[r] = vm[r]
    BY <1>3, <1>6, SavedAre
  <2> QED
    BY <1>2, <1>6, <1>7, <2>1, EntriesKeep, SMTT(30)
<1>9. RegionAt(file', e)
  BY <1>3, <1>6, <1>7 DEF RegionAt
<1>10. \A p \in e + 1 .. Len(file') : IsStruct(file', p) => p = e + 2
  <2>1. ASSUME NEW p \in e + 1 .. Len(file'), IsStruct(file', p), p # before + 1 PROVE FALSE
    <3>1. p \in 1 .. pos /\ p \in e + 1 .. Len(file)
      BY <1>2
    <3>2. file'[p] = file[p]
      BY <2>1, <3>1
    <3>3. IsStruct(file, p)
      BY <1>2, <2>1, <3>1, <3>2 DEF IsStruct
    <3> QED
      BY <1>6, <2>1, <3>1, <3>3
  <2> QED
    BY <1>3, <2>1
<1>11. Entries(file', vm', pos) /\ RegionsIn(file', 0, pos) = RegionsIn(file', 0, e) \cup {at}
  <2>1. at \notin RegionsIn(file', 0, e)
    BY <1>3, <1>6, <1>8
  <2>2. /\ file'[e + 2].n.r = at /\ Holds(file', e + 2, vm'[at]) /\ End(file', e + 2) = Len(file')
    BY <1>3
  <2> QED
    BY <1>2, <1>4, <1>8, <1>9, <1>10, <2>1, <2>2, EntryDone
<1>12. RegionsIn(file', 0, pos) = SavedIn(vm') \ list
  BY <1>3, <1>4, <1>5, <1>6, <1>8, <1>11
<1>13. pos + RegionSize * Cardinality(list) <= 1 + RegionSize * Len(KindOf)
  <2>1. pos <= Front + 2 + 2 * Len(vm[at].pages)
    BY <1>2, <1>3, <1>4 DEF e
  <2> QED
    BY <1>1, <1>2, <2>1, RegionFits
<1>14. Front' = pos /\ ToDo' = list
  BY DEF Front, ToDo
<1>15. WriteInv'
  BY <1>2, <1>3, <1>5, <1>6, <1>7, <1>11, <1>12, <1>13, <1>14 DEF WriteInv
<1>16. MemInv'
  BY DEF MemInv
<1> QED
  BY <1>15, <1>16, WriterExact DEF Writing, InRegion

\* Pages are appended to the region in hand.
LEMMA GrowExact ==
  ASSUME Types, Exact, pc \in {"dirty", "all"}, pc' \in InRegion, pc' = "dirty" <=> pc = "dirty",
         UNCHANGED <<vm, list, at, before, image>>,
         file' \in Seq(Units), pos' \in Nat, Len(file') = pos', pos <= pos',
         \A j \in 1 .. pos : file'[j] = file[j], \A j \in pos + 1 .. pos' : file'[j].k \in {"data", "page"}
  PROVE  MemInv' /\ WriteInv' /\ HandInv' /\ InHand' = InHand
<1>1. pc \in Writing /\ pc \in InRegion /\ before \in Nat /\ before >= 1
  BY InRegionIs DEF InRegion
<1>2. /\ WriteInv /\ file \in Seq(Units) /\ Len(file) = pos /\ pos \in Nat /\ pos >= 1
      /\ Front \in Nat /\ Front >= 1 /\ Front <= pos
  BY <1>1, WriterIs
<1>3. pos >= before + 1
  BY TypesAre DEF PlaceType
<1>4. Front = before - 1 /\ Front' = Front /\ ToDo = list \cup {at} /\ ToDo' = ToDo
  BY <1>1 DEF Front, ToDo, InRegion
<1>5. InHand' = InHand
  BY <1>1, <1>3 DEF InHand
<1>6. MemInv'
  BY <1>1 DEF Exact, MemInv, Writing, InRegion
<1>7. HandInv'
  <2>1. HandInv
    BY <1>1 DEF Exact
  <2>2. OnlyPages(file', before + 1, pos')
    <3> SUFFICES ASSUME NEW x \in before + 1 + 1 .. pos' PROVE file'[x].k \in {"data", "page"}
      BY DEF OnlyPages
    <3>1. CASE x <= pos
      BY <1>1, <1>2, <2>1, <3>1 DEF HandInv, OnlyPages
    <3>2. CASE x > pos
      BY <1>1, <1>2, <3>2
    <3> QED
      BY <1>1, <1>2, <3>1, <3>2
  <2> QED
    BY <1>5, <2>1, <2>2 DEF HandInv
<1>8. Entries(file', vm', Front) /\ RegionsIn(file', 0, Front) = RegionsIn(file, 0, Front)
  <2>1. Entries(file, vm, Front)
    BY <1>2 DEF WriteInv
  <2>2. Front <= Len(file) /\ Front <= Len(file') /\ \A j \in 1 .. Front : file'[j] = file[j]
    BY <1>2
  <2> QED
    BY <1>2, <2>1, <2>2, EntriesKeep
<1>9. \A p \in Front + 1 .. Len(file') : IsStruct(file', p) => p = before + 1
  <2> SUFFICES ASSUME NEW p \in Front + 1 .. Len(file'), IsStruct(file', p) PROVE p = before + 1
    OBVIOUS
  <2>1. CASE p <= pos
    <3>1. p \in Front + 1 .. Len(file) /\ file'[p] = file[p] /\ p \in 1 .. Len(file)
      BY <1>2, <2>1
    <3>2. IsStruct(file, p)
      BY <3>1 DEF IsStruct
    <3> QED
      BY <1>2, <3>1, <3>2 DEF WriteInv
  <2>2. CASE p > pos
    BY <1>2, <2>2 DEF IsStruct
  <2> QED
    BY <1>2, <2>1, <2>2
<1>10. file'[1] = file[1] /\ file'[Front + 1] = file[Front + 1]
  BY <1>1, <1>2, <1>3, <1>4
<1>11. WriteInv'
  <2>1. /\ file[1] = Header(Cardinality(SavedIn(vm)) + 1)
        /\ RegionsIn(file, 0, Front) = SavedIn(vm) \ ToDo /\ ToDo \subseteq SavedIn(vm)
        /\ at \notin list /\ file[Front + 1] = Tag("region")
        /\ Front + RegionSize * Cardinality(ToDo) <= 1 + RegionSize * Len(KindOf)
    BY <1>1, <1>2 DEF WriteInv, InRegion
  <2> QED
    BY <1>2, <1>4, <1>8, <1>9, <1>10, <2>1 DEF WriteInv
<1> QED
  BY <1>5, <1>6, <1>7, <1>11

LEMMA DirtyMore ==
  ASSUME NEW f, NEW p \in Nat, NEW w, NEW n \in Nat, NEW m \in Nat, DirtyPages(f, p, w, n, m),
         m + 1 \in DirtyIn(w), PageIs(f, p + 3 * n, w, m + 1), DirtyIn(w) \subseteq Nat
  PROVE  DirtyPages(f, p, w, n + 1, m + 1)
<1>1. \A i \in 0 .. (n + 1) - 1 : \E k \in DirtyIn(w) : PageIs(f, p + 3 * i, w, k)
  <2>1. \A i \in 0 .. (n + 1) - 1 : i \in 0 .. n - 1 \/ i = n
    OBVIOUS
  <2> QED
    BY <2>1 DEF DirtyPages
<1>2. ASSUME NEW k \in DirtyIn(w), k <= m + 1
      PROVE  \E i \in 0 .. (n + 1) - 1 : f[p + 3 * i + 1] = PageAt(k)
  <2>1. CASE k <= m
    <3>1. PICK i \in 0 .. n - 1 : f[p + 3 * i + 1] = PageAt(k)
      BY <2>1 DEF DirtyPages
    <3>2. i \in 0 .. (n + 1) - 1
      OBVIOUS
    <3> QED
      BY <3>1, <3>2
  <2>2. CASE k = m + 1
    <3>1. f[p + 3 * n + 1] = PageAt(k) /\ n \in 0 .. (n + 1) - 1
      BY <2>2 DEF PageIs
    <3> QED
      BY <3>1
  <2>3. k <= m \/ k = m + 1
    BY <1>2
  <2> QED
    BY <2>1, <2>2, <2>3
<1> QED
  BY <1>1, <1>2 DEF DirtyPages

LEMMA AllMore ==
  ASSUME NEW f, NEW p \in Nat, NEW w, NEW n \in Nat, AllPages(f, p, w, n),
         IsData(f, p + 2 * n + 1, w.pages[n + 1].val), IsData(f, p + 2 * n + 2, w.pages[n + 1].val)
  PROVE  AllPages(f, p, w, n + 1)
<1>1. SUFFICES ASSUME NEW k \in 1 .. n + 1
               PROVE  IsData(f, p + 2 * k - 1, w.pages[k].val) /\ IsData(f, p + 2 * k, w.pages[k].val)
  BY DEF AllPages
<1>2. CASE k <= n
  BY <1>2 DEF AllPages
<1>3. CASE k = n + 1
  <2>1. p + 2 * k - 1 = p + 2 * n + 1 /\ p + 2 * k = p + 2 * n + 2
    BY <1>3
  <2> QED
    BY <1>3, <2>1
<1> QED
  BY <1>2, <1>3

LEMMA SeqEqual ==
  ASSUME NEW f \in Seq(Units), NEW g \in Seq(Units), Len(f) = Len(g),
         \A j \in 1 .. Len(f) : f[j] = g[j]
  PROVE  f = g
<1>1. f \in [1 .. Len(f) -> Units] /\ g \in [1 .. Len(f) -> Units]
  OBVIOUS
<1> QED
  BY <1>1

LEMMA Appending ==
  ASSUME Types, pc \in Writing, Len(file) = pos, NEW units \in Seq(Units), NEW n \in Nat,
         Fit(pos, units) = n, file' = Written(pos, units)
  PROVE  /\ file' \in Seq(Units) /\ Len(file') = pos + n
         /\ \A j \in 1 .. pos : file'[j] = file[j]
         /\ \A j \in 1 .. n : file'[pos + j] = units[j]
<1>1. /\ Written(pos, units) \in Seq(Units) /\ Len(Written(pos, units)) = pos + Fit(pos, units)
      /\ \A j \in 1 .. pos : Written(pos, units)[j] = file[j]
      /\ \A j \in 1 .. Fit(pos, units) : Written(pos, units)[pos + j] = units[j]
  BY Appended
<1> QED
  BY <1>1

LEMMA DirtyExact ==
  ASSUME Benign, Types, Exact, write_vm_region_dirty
  PROVE  Exact'
<1> DEFINE units == <<PageAt(page)>> \o Data(vm[at].pages[page].val)
           w == vm[at]
           D == DirtyIn(w)
           Before(k) == {j \in D : j < k}
           n == Cardinality(Before(page))
           b == before + 1
<1>1. /\ pc = "dirty" /\ pc \in Writing /\ pc \in InRegion /\ pc # "entry"
      /\ UNCHANGED <<vm, writes, gen, cap, image>>
  BY DirtyStepIs DEF Writing, InRegion
<1>2. /\ WriteInv /\ (\A r \in Users : PagesInv(r, vm[r]) /\ ProtInv(r, vm[r]))
      /\ file \in Seq(Units) /\ Len(file) = pos /\ pos \in Nat /\ pos >= 1
  BY <1>1, WriterIs
<1>3. /\ at \in Users /\ at \in Ids /\ Len(w.pages) \in Nat /\ Len(w.pages) >= 1 /\ Len(w.pages) <= NPages
      /\ page \in Nat /\ page >= 1 /\ b \in Nat /\ b >= 1 /\ before \in Nat
  BY <1>1, InRegionIs, RegionFits, Constants
<1>4. /\ D \subseteq 1 .. Len(w.pages) /\ D \subseteq Nat /\ IsFiniteSet(D) /\ Cardinality(D) \in Nat
      /\ Dirty(at) = D
  <2>1. Dirty(at) = D /\ IsFiniteSet(D)
    BY <1>3, DirtyIs
  <2>2. D \subseteq 1 .. Len(w.pages)
    BY DEF DirtyIn
  <2>3. D \subseteq Nat
    BY <2>2
  <2> QED
    BY <2>1, <2>2, <2>3, FS_CardinalityType
<1>5. HandInv /\ DirtyInv
  BY <1>1 DEF Exact
<1>6. /\ InHand.prot = w.prot /\ w.kind # "plain" /\ InHand.dirtied = Cardinality(D)
      /\ 3 * InHand.dirtied <= 2 * Len(w.pages)
      /\ pos = b + 3 * n /\ DirtyPages(file, b, w, n, page - 1)
  BY <1>5 DEF DirtyInv, PageSize
<1>7. \A k : IsFiniteSet(Before(k)) /\ Cardinality(Before(k)) \in Nat
  BY <1>4, FS_Subset, FS_CardinalityType
\* The next page.
<1>8. ASSUME pc' = "dirty", UNCHANGED <<list, at, before, left>>, page' = page + 1,
             file' \in Seq(Units), pos' \in Nat, Len(file') = pos', pos <= pos',
             \A j \in 1 .. pos : file'[j] = file[j],
             \A j \in pos + 1 .. pos' : file'[j].k \in {"data", "page"},
             pos' = b + 3 * Cardinality(Before(page + 1)),
             DirtyPages(file', b, w, Cardinality(Before(page + 1)), page)
      PROVE  Exact'
  <2>1. MemInv' /\ WriteInv' /\ HandInv' /\ InHand' = InHand
    BY <1>1, <1>8, GrowExact DEF InRegion
  <2> DEFINE m == Cardinality(Before(page + 1))
  <2>2. m = Cardinality({k \in DirtyIn(vm'[at']) : k < page'})
    BY <1>1, <1>8
  <2> HIDE DEF m
  <2>3. page' - 1 = page /\ before' + 1 = b
    BY <1>3, <1>8
  <2>4. /\ InHand'.prot = vm'[at'].prot /\ vm'[at'].kind # "plain"
        /\ InHand'.dirtied = Cardinality(DirtyIn(vm'[at']))
        /\ 3 * InHand'.dirtied <= PageSize * Len(vm'[at'].pages)
    BY <1>1, <1>6, <1>8, <2>1 DEF PageSize
  <2>5. pos' = before' + 1 + 3 * m /\ DirtyPages(file', before' + 1, vm'[at'], m, page' - 1)
    BY <1>1, <1>8, <2>3 DEF m
  <2>6. DirtyInv'
    BY <2>2, <2>4, <2>5 DEF DirtyInv
  <2> QED
    BY <1>1, <1>8, <2>1, <2>6, WriterExact DEF Writing, InRegion
<1>9. CASE /\ page \in 1 .. Len(w.pages) /\ page \notin D
           /\ page' = page + 1 /\ UNCHANGED <<pc, file, pos, list, at, before, left>>
  <2>1. Before(page + 1) = Before(page)
    BY <1>3, <1>4, <1>9
  <2>2. \A k \in D : k <= page => k <= page - 1
    BY <1>3, <1>4, <1>9
  <2>3. DirtyPages(file, b, w, n, page)
    BY <1>6, <2>2 DEF DirtyPages
  <2>4. \A j \in pos + 1 .. pos' : FALSE
    BY <1>2, <1>9
  <2>5. /\ pos' = b + 3 * Cardinality(Before(page + 1))
        /\ DirtyPages(file', b, w, Cardinality(Before(page + 1)), page)
    BY <1>6, <1>9, <2>1, <2>3
  <2>6. /\ pc' = "dirty" /\ file' \in Seq(Units) /\ pos' \in Nat /\ Len(file') = pos' /\ pos <= pos'
        /\ \A j \in 1 .. pos : file'[j] = file[j]
    BY <1>1, <1>2, <1>9
  <2> HIDE DEF Before, w, b
  <2> QED
    BY <1>8, <1>9, <2>4, <2>5, <2>6
<1>10. CASE /\ page \in 1 .. Len(w.pages) /\ page \in D /\ Fit(pos, units) = 3
            /\ file' = Written(pos, units) /\ pos' = pos + 3
            /\ page' = page + 1 /\ UNCHANGED <<pc, list, at, before, left>>
  <2>1. Before(page + 1) = Before(page) \cup {page} /\ page \notin Before(page)
    BY <1>3, <1>4, <1>10
  <2>2. Cardinality(Before(page + 1)) = n + 1 /\ n \in Nat
    <3> DEFINE B == Before(page)
               C == Before(page + 1)
    <3>1. C = B \cup {page} /\ page \notin B /\ IsFiniteSet(B) /\ Cardinality(B) \in Nat /\ n = Cardinality(B)
      BY <1>7, <2>1
    <3> HIDE DEF B, C
    <3>2. Cardinality(C) = Cardinality(B) + 1
      BY <3>1, FS_AddElement
    <3> QED
      BY <3>1, <3>2 DEF C
  <2>3. /\ units \in Seq(Units) /\ Len(units) = 3 /\ units[1] = PageAt(page)
        /\ units[2] = [k |-> "data", n |-> w.pages[page].val]
        /\ units[3] = [k |-> "data", n |-> w.pages[page].val]
    <3>1. page \in PageNo
      BY <1>3, <1>10, Constants
    <3>2. w.pages[page].val \in -1 .. MaxWrites
      BY <1>10, TypesAre, SomeRegion
    <3> QED
      BY <3>1, <3>2, PageUnits
  <2> HIDE DEF units, n, Before
  <2>4. /\ file' \in Seq(Units) /\ Len(file') = pos + 3 /\ \A j \in 1 .. pos : file'[j] = file[j]
        /\ \A j \in 1 .. 3 : file'[pos + j] = units[j]
    BY <1>1, <1>2, <1>10, <2>3, Appending
  <2>5. /\ file'[pos + 1] = PageAt(page) /\ file'[pos + 2] = [k |-> "data", n |-> w.pages[page].val]
        /\ file'[pos + 3] = [k |-> "data", n |-> w.pages[page].val]
    BY <2>3, <2>4
  <2>6. PageIs(file', pos, w, page)
    BY <2>5 DEF PageIs, IsData
  <2>7. \A j \in pos + 1 .. pos' : file'[j].k \in {"data", "page"}
    <3>1. /\ file'[pos + 1].k = "page" /\ file'[pos + 2].k = "data" /\ file'[pos + 3].k = "data"
      BY <2>5 DEF PageAt
    <3> QED
      BY <1>2, <1>10, <3>1
  <2>8. DirtyPages(file', b, w, n + 1, page)
    <3>1. DirtyPages(file, b, w, n, page - 1)
      BY <1>6 DEF n, Before
    <3>2. pos = b + 3 * n
      BY <1>6 DEF n, Before
    <3>3. \A j \in b + 1 .. b + 3 * n : file'[j] = file[j]
      BY <1>2, <1>3, <2>4, <3>2
    <3>4. DirtyPages(file', b, w, n, page - 1)
      BY <1>3, <2>2, <3>1, <3>3, DirtyPagesKeep
    <3> DEFINE m == page - 1
    <3>5. m \in Nat /\ m + 1 = page
      BY <1>3
    <3>6. DirtyPages(file', b, w, n, m) /\ m + 1 \in D /\ PageIs(file', b + 3 * n, w, m + 1)
      BY <1>10, <2>6, <3>2, <3>4, <3>5
    <3> HIDE DEF m, D, b, w
    <3>7. DirtyPages(file', b, w, n + 1, m + 1)
      BY <1>3, <1>4, <2>2, <3>5, <3>6, DirtyMore DEF D
    <3> QED
      BY <3>5, <3>7
  <2>9. pos' = b + 3 * (n + 1)
    <3>1. pos = b + 3 * n
      BY <1>6 DEF n, Before
    <3> QED
      BY <1>2, <1>3, <1>10, <2>2, <3>1
  <2> QED
    BY <1>1, <1>2, <1>8, <1>10, <2>2, <2>4, <2>7, <2>8, <2>9 DEF n, Before
<1>11. CASE /\ page = Len(w.pages) + 1
            /\ pc' = "entry" /\ UNCHANGED <<file, pos, list, at, page, before, left>>
  <2>1. Before(page) = D
    BY <1>3, <1>4, <1>11
  <2>2. pos = b + 3 * InHand.dirtied
    BY <1>6, <2>1
  <2>3. IsStruct(file, b) /\ InHand = file[b].n
    BY <1>1, InRegionIs DEF InHand
  <2>4. /\ file[b].n.r = at /\ file[b].n.dirty_only /\ file[b].n.size = Len(w.pages)
        /\ file[b].n.prot = w.prot /\ file[b].n.dirtied = Cardinality(D) /\ OnlyPages(file, b, pos)
    BY <1>1, <1>5, <1>6, <2>3 DEF HandInv
  <2>5. End(file, b) = pos
    BY <2>2, <2>3, <2>4 DEF End
  <2>6. DirtyPages(file, b, w, Cardinality(D), NPages)
    <3>1. \A k \in D : k <= page - 1
      BY <1>3, <1>4, <1>11
    <3> QED
      BY <1>6, <2>1, <3>1 DEF DirtyPages
  <2>7. \A k \in 1 .. Len(w.pages) : w.pages[k].st # "bad"
    BY <1>2, <1>3, <1>6, SMTT(30) DEF PagesInv, Full
  <2> HIDE DEF w, D, b, Before
  <2>8. Holds(file, b, w)
    BY <1>3, <1>6, <2>4, <2>5, <2>6, <2>7 DEF Holds
  <2>9. pos <= b + 2 * Len(w.pages)
    BY <1>3, <1>4, <1>6, <2>2, <2>4
  <2> QED
    BY <1>1, <1>2, <1>11, <2>3, <2>4, <2>5, <2>8, <2>9, RegionDone DEF w, b
<1>12. CASE pc' = "run"
  BY <1>1, <1>12, BadExact
<1> HIDE DEF units
<1> QED
  BY <1>4, <1>9, <1>10, <1>11, <1>12, DirtyStepIs DEF units

LEMMA AllExact ==
  ASSUME Benign, Types, Exact, write_vm_region_all_pages
  PROVE  Exact'
<1> DEFINE units == Data(vm[at].pages[page].val)
           w == vm[at]
           b == before + 1
<1>1. /\ pc = "all" /\ pc \in Writing /\ pc \in InRegion /\ pc # "entry"
      /\ UNCHANGED <<vm, cap, list, at, before, left, image>>
  BY AllStepIs DEF Writing, InRegion
<1>2. /\ file \in Seq(Units) /\ Len(file) = pos /\ pos \in Nat /\ pos >= 1 /\ cap \in Nat
  BY <1>1, WriterIs, WritingIs
<1>3. /\ at \in Users /\ Len(w.pages) \in Nat /\ Len(w.pages) <= NPages
      /\ page \in Nat /\ page >= 1 /\ b \in Nat /\ b >= 1 /\ before \in Nat
  BY <1>1, InRegionIs, RegionFits
<1>4. AllInv
  BY <1>1 DEF Exact
<1>5. CASE /\ page = Len(w.pages) + 1
              \/ (page \in 1 .. Len(w.pages) /\ w.pages[page].st = "bad")
           /\ file' = Written(pos, <<>>)
           /\ pos' = pos /\ pc' = "fix" /\ UNCHANGED page
  <2>1. file' = file
    <3> DEFINE none == <<>>
    <3>1. none \in Seq(Units) /\ Len(none) = 0 /\ file' = Written(pos, none)
      BY <1>5
    <3> HIDE DEF none
    <3>2. /\ file' \in Seq(Units) /\ Fit(pos, none) \in 0 .. Len(none)
          /\ Len(file') = pos + Fit(pos, none) /\ \A j \in 1 .. pos : file'[j] = file[j]
      BY <1>1, <1>2, <3>1, Appended
    <3>3. Len(file') = Len(file) /\ \A j \in 1 .. Len(file) : file'[j] = file[j]
      BY <1>2, <3>1, <3>2
    <3> QED
      BY <1>2, <3>2, <3>3, SeqEqual
  <2>2. \A j \in pos + 1 .. pos' : FALSE
    BY <1>2, <1>5
  <2>3. MemInv' /\ WriteInv' /\ HandInv' /\ InHand' = InHand
    BY <1>1, <1>2, <1>5, <2>1, <2>2, GrowExact DEF InRegion
  <2>4. AllInv'
    BY <1>1, <1>4, <1>5, <2>1, <2>3 DEF AllInv
  <2> QED
    BY <1>1, <1>5, <2>3, <2>4, WriterExact DEF Writing, InRegion
<1>6. CASE /\ page \in 1 .. Len(w.pages) /\ w.pages[page].st # "bad"
           /\ file' = Written(pos, units)
           /\ \/ Fit(pos, units) = 2 /\ pos' = pos + 2 /\ page' = page + 1 /\ UNCHANGED pc
              \/ Fit(pos, units) # 2 /\ pos' = pos - Fit(pos, units) /\ pc' = "fix" /\ UNCHANGED page
  <2>1. /\ units \in Seq(Units) /\ Len(units) = 2
        /\ units[1] = [k |-> "data", n |-> w.pages[page].val]
        /\ units[2] = [k |-> "data", n |-> w.pages[page].val]
    <3>1. w.pages[page].val \in -1 .. MaxWrites
      BY <1>6, TypesAre, SomeRegion
    <3> QED
      BY <3>1, UnitsAre
  <2> HIDE DEF units
  <2>2. pos = b + 2 * (page - 1)
    BY <1>4 DEF AllInv
  <2>3. pos + 2 <= cap
    <3>1. Front = before - 1 /\ Front + 2 + 2 * Len(w.pages) <= cap
      BY <1>1, RegionFits DEF Front
    <3> DEFINE l == Len(w.pages)
    <3>2. l \in Nat /\ page \in 1 .. l /\ Front = before - 1 /\ Front + 2 + 2 * l <= cap
      BY <1>3, <1>6, <3>1
    <3> HIDE DEF l
    <3> QED
      BY <1>2, <1>3, <2>2, <3>2
  <2>4. Fit(pos, units) = 2
    BY <2>1, <2>3 DEF Fit
  <2>5. pos' = pos + 2 /\ page' = page + 1 /\ pc' = "all"
    BY <1>1, <1>6, <2>4
  <2>6. /\ file' \in Seq(Units) /\ Len(file') = pos + 2 /\ \A j \in 1 .. pos : file'[j] = file[j]
        /\ \A j \in 1 .. 2 : file'[pos + j] = units[j]
    BY <1>1, <1>2, <1>6, <2>1, <2>4, Appending
  <2>7. /\ file'[pos + 1] = [k |-> "data", n |-> w.pages[page].val]
        /\ file'[pos + 2] = [k |-> "data", n |-> w.pages[page].val]
    BY <2>1, <2>6
  <2>8. \A j \in pos + 1 .. pos' : file'[j].k \in {"data", "page"}
    <3>1. file'[pos + 1].k = "data" /\ file'[pos + 2].k = "data"
      BY <2>7
    <3> QED
      BY <1>2, <2>5, <3>1
  <2>9. MemInv' /\ WriteInv' /\ HandInv' /\ InHand' = InHand
    BY <1>1, <1>2, <2>5, <2>6, <2>8, GrowExact DEF InRegion
  <2> DEFINE m == page - 1
  <2>10. m \in Nat /\ m + 1 = page /\ pos = b + 2 * m
    BY <1>3, <2>2
  <2>11. AllPages(file', b, w, page)
    <3>1. AllPages(file, b, w, m)
      BY <1>4 DEF AllInv
    <3> HIDE DEF m
    <3>2. \A j \in b + 1 .. b + 2 * m : file'[j] = file[j]
      BY <1>2, <1>3, <2>6, <2>10
    <3>3. AllPages(file', b, w, m)
      BY <1>3, <2>10, <3>1, <3>2, AllPagesKeep
    <3>4. /\ IsData(file', b + 2 * m + 1, w.pages[m + 1].val)
          /\ IsData(file', b + 2 * m + 2, w.pages[m + 1].val)
      BY <2>7, <2>10 DEF IsData
    <3>5. AllPages(file', b, w, m + 1)
      BY <1>3, <2>10, <3>3, <3>4, AllMore
    <3> QED
      BY <2>10, <3>5
  <2>12. AllInv'
    <3>1. page' - 1 = page /\ before' + 1 = b /\ w = vm'[at']
      BY <1>1, <1>3, <2>5
    <3>2. \A k \in 1 .. page : w.pages[k].st # "bad"
      <4>1. \A k \in 1 .. page : k \in 1 .. page - 1 \/ k = page
        BY <1>3
      <4> QED
        BY <1>4, <1>6, <4>1 DEF AllInv
    <3>3. pos' = before' + 1 + 2 * (page' - 1)
      BY <1>2, <1>3, <2>2, <2>5, <3>1
    <3>4. vm'[at'].prot = IF InHand'.prot = "none" THEN "r" ELSE InHand'.prot
      BY <1>1, <1>4, <2>9 DEF AllInv
    <3> HIDE DEF w, b
    <3> QED
      BY <2>5, <2>11, <3>1, <3>2, <3>3, <3>4 DEF AllInv
  <2> QED
    BY <1>1, <2>5, <2>9, <2>12, WriterExact DEF Writing, InRegion
<1> HIDE DEF units
<1> QED
  BY <1>5, <1>6, AllStepIs DEF units

LEMMA FixExact ==
  ASSUME Benign, Types, Exact, write_vm_region_fix
  PROVE  /\ Exact'
         /\ \A r \in Users : r # at => vm'[r] = vm[r]
         /\ at \in Users /\ vm'[at].here = vm[at].here /\ vm'[at].prot = InHand.prot
<1> DEFINE w == vm[at]
           b == before + 1
           l == Len(w.pages)
<1>1. /\ pc = "fix" /\ pc \in Writing /\ pc \in InRegion /\ pc # "entry" /\ pc' = "entry"
      /\ UNCHANGED <<pos, list, at, page, before, image>>
  BY FixIs DEF Writing, InRegion, loopVars
<1>2. /\ (\A r \in Users : PagesInv(r, vm[r])) /\ (\A r \in Users : r # at => ProtInv(r, vm[r]))
      /\ file \in Seq(Units) /\ Len(file) = pos /\ pos \in Nat /\ pos >= 1
  BY <1>1, WriterIs
<1>3. /\ at \in Users /\ at \in Ids /\ l \in Nat /\ l >= 1 /\ l <= NPages
      /\ page \in Nat /\ page >= 1 /\ b \in Nat /\ b >= 1 /\ before \in Nat
      /\ vm \in [Ids -> Regions] /\ w \in Regions /\ IsStruct(file, b)
  <2>1. at \in Users /\ l \in Nat /\ l >= 1 /\ l <= NPages
    BY <1>1, RegionFits
  <2>2. page \in Nat /\ page >= 1 /\ before \in Nat /\ IsStruct(file, before + 1)
    BY <1>1, InRegionIs, TypesAre
  <2>3. vm \in [Ids -> Regions] /\ w \in Regions /\ at \in Ids
    BY TypesAre
  <2> QED
    BY <2>1, <2>2, <2>3
<1>4. HandInv /\ AllInv
  BY <1>1 DEF Exact
<1>5. /\ file[b].n.r = at /\ ~file[b].n.dirty_only /\ file[b].n.size = l
      /\ OnlyPages(file, b, pos) /\ ProtInv(at, file[b].n) /\ file[b].n \in Structs
  BY <1>1, <1>2, <1>3, <1>4, StructAt DEF HandInv, InHand
<1>6. /\ w.prot = (IF file[b].n.prot = "none" THEN "r" ELSE file[b].n.prot)
      /\ pos = b + 2 * (page - 1) /\ AllPages(file, b, w, page - 1)
      /\ \A k \in 1 .. page - 1 : w.pages[k].st # "bad"
      /\ page = l + 1 \/ w.pages[page].st = "bad"
  BY <1>1, <1>4 DEF AllInv, InHand
\* A region that is cut off is plain, and the program has kept its access.
<1>7. page \in 1 .. l => KindOf[at] = "plain" /\ page >= 2 /\ file[b].n.prot # "none"
  <2> SUFFICES ASSUME page \in 1 .. l PROVE KindOf[at] = "plain" /\ page >= 2 /\ file[b].n.prot # "none"
    OBVIOUS
  <2>1. w.pages[page].st = "bad" /\ PagesInv(at, w)
    BY <1>2, <1>3, <1>6
  <2>2. KindOf[at] = "plain" /\ page # 1 /\ "truncate" \in Faults[at]
    BY <2>1 DEF PagesInv, Full
  <2>3. "protect" \notin Faults[at]
    BY <1>3, <2>2, TameIs
  <2> QED
    BY <1>3, <1>5, <2>2, <2>3 DEF ProtInv
<1> DEFINE s == page - 1
<1>8. /\ file' \in Seq(Units) /\ Len(file') = pos /\ \A j \in 1 .. pos : j # b => file'[j] = file[j]
      /\ IsStruct(file', b) /\ file'[b].n.r = at /\ ~file'[b].n.dirty_only /\ file'[b].n.size = s
      /\ file'[b].n.prot = file[b].n.prot
  <2>1. CASE page = l + 1 /\ file' = file
    BY <1>2, <1>3, <1>5, <2>1
  <2>2. CASE s \in 0 .. NPages /\ file' = Cut(file, b, s)
    <3> HIDE DEF s, b
    <3>1. /\ file' \in Seq(Units) /\ Len(file') = Len(file)
          /\ \A j \in 1 .. Len(file) : j # b => file'[j] = file[j]
          /\ file'[b].k = "struct" /\ file'[b].n = Sized(file[b].n, s)
      BY <1>2, <1>3, <2>2, CutIs
    <3>2. /\ Sized(file[b].n, s).r = file[b].n.r /\ Sized(file[b].n, s).size = s
          /\ Sized(file[b].n, s).prot = file[b].n.prot
          /\ Sized(file[b].n, s).dirty_only = file[b].n.dirty_only
      BY <1>5, <2>2, SizedIs
    <3>3. IsStruct(file', b)
      BY <1>3, <3>1 DEF IsStruct
    <3> QED
      BY <1>2, <1>5, <3>1, <3>2, <3>3
  <2> HIDE DEF s, l, b
  <2> QED
    BY <2>1, <2>2, FixIs DEF s, l, b
\* The protection is what it was.
<1>9. /\ \A r \in Users : r # at => vm'[r] = vm[r]
      /\ vm'[at].pages = w.pages /\ vm'[at].here = w.here /\ vm'[at].marked = w.marked
      /\ vm'[at].kind = w.kind /\ vm'[at].prot = file[b].n.prot
  <2>1. CASE file[b].n.prot # "none" /\ vm' = vm
    BY <1>6, <2>1
  <2>2. CASE file[b].n.prot = "none" /\ page = l + 1 /\ vm' = [vm EXCEPT ![at] = [vm[at] EXCEPT !.prot = "none"]]
    <3> DEFINE x == [vm[at] EXCEPT !.prot = "none"]
    <3>1. "none" \in Prots
      BY DEF Prots, Asked
    <3>2. /\ x \in Regions /\ x.pages = w.pages /\ x.here = w.here /\ x.marked = w.marked
          /\ x.kind = w.kind /\ x.prot = "none"
      BY <1>3, <3>1, NewProt
    <3>3. vm' = [vm EXCEPT ![at] = x]
      BY <2>2
    <3> HIDE DEF x
    <3>4. vm'[at] = x /\ \A q \in Ids : q # at => vm'[q] = vm[q]
      BY <1>3, <3>2, <3>3, OneRegion
    <3>5. file[b].n.prot = "none"
      BY <2>2
    <3> QED
      BY <3>2, <3>4, <3>5, Constants
  <2>3. CASE file[b].n.prot = "none" /\ page \in 1 .. l
    BY <1>7, <2>3
  <2> QED
    BY <2>1, <2>2, <2>3, FixIs
<1> HIDE DEF l, s
<1>10. \A r \in Users : PagesInv(r, vm'[r]) /\ ProtInv(r, vm'[r])
  <2>1. PagesInv(at, vm'[at])
    BY <1>2, <1>3, <1>9 DEF PagesInv, Full
  <2>2. ProtInv(at, vm'[at])
    BY <1>5, <1>9 DEF ProtInv
  <2> QED
    BY <1>2, <1>9, <2>1, <2>2
<1>11. s \in Nat /\ s >= 1 /\ s <= l /\ pos = b + 2 * s
  <2>1. page = l + 1 \/ page \in 1 .. l
    BY <1>1, <1>3, InRegionIs DEF l
  <2> QED
    BY <1>3, <1>6, <1>7, <2>1 DEF s
<1>12. End(file', b) = pos
  BY <1>8, <1>11 DEF End
<1>13. Holds(file', b, vm'[at])
  <2>1. \A k \in 1 .. l : w.pages[k].st # "bad" <=> k <= s
    <3>1. \A k \in 1 .. l : k <= s => w.pages[k].st # "bad"
      BY <1>3, <1>6, <1>11 DEF s
    <3>2. ASSUME NEW k \in 1 .. l, k > s PROVE w.pages[k].st = "bad"
      <4>1. page \in 1 .. l /\ page <= k
        BY <1>3, <1>11, <3>2 DEF s
      <4>2. w.pages[page].st = "bad" /\ KindOf[at] = "plain"
        BY <1>3, <1>6, <1>7, <4>1
      <4>3. PagesInv(at, w)
        BY <1>2, <1>3
      <4> QED
        BY <4>1, <4>2, <4>3 DEF PagesInv, Full, l
    <3> QED
      BY <1>11, <3>1, <3>2
  <2>2. AllPages(file', b, w, s)
    <3>1. \A j \in b + 1 .. b + 2 * s : file'[j] = file[j]
      BY <1>2, <1>3, <1>8, <1>11
    <3>2. AllPages(file, b, w, s)
      BY <1>6 DEF s
    <3> QED
      BY <1>3, <1>11, <3>1, <3>2, AllPagesKeep
  <2>3. AllPages(file', b, vm'[at], s)
    BY <1>9, <2>2 DEF AllPages
  <2>4. OnlyPages(file', b, pos)
    BY <1>2, <1>3, <1>5, <1>8 DEF OnlyPages
  <2>5. Len(vm'[at].pages) = l
    BY <1>9 DEF l
  <2> QED
    BY <1>8, <1>9, <1>11, <1>12, <2>1, <2>3, <2>4, <2>5 DEF Holds
<1>14. pos <= b + 2 * Len(vm[at].pages)
  BY <1>3, <1>11 DEF l
<1>15. Exact'
  BY <1>1, <1>8, <1>9, <1>10, <1>12, <1>13, <1>14, RegionDone
<1> QED
  BY <1>3, <1>9, <1>15 DEF InHand

-----------------------------------------------------------------------------
(* The reader *)

LEMMA ReaderExact ==
  ASSUME Exact, pc' \in Reading, UNCHANGED image, ReadInv',
         pc' \in {"r_dirty", "r_all"} => HandReadInv',
         pc' = "r_dirty" => DirtyReadInv', pc' = "r_all" => AllReadInv'
  PROVE  Exact'
BY DEF Exact, MemInv, Writing, InRegion, Reading

\* What is being read.
LEMMA ReaderIs ==
  ASSUME Types, Exact, pc \in Reading
  PROVE  /\ ReadInv /\ file = image.file /\ GoodImage(file, image.vm) /\ IsFile(file)
         /\ file \in Seq(Units) /\ Len(file) \in Nat /\ Len(file) >= 3
         /\ Entries(file, image.vm, Len(file) - 2) /\ image.vm \in [Ids -> Regions]
         /\ RegionsIn(file, 0, Len(file)) = SavedIn(image.vm)
         /\ \A r \in Users : PagesInv(r, image.vm[r]) /\ ProtInv(r, image.vm[r])
         /\ file[Len(file) - 1] = Tag("context") /\ file[Len(file)] = Context
         /\ ~IsStruct(file, 1) /\ ~IsStruct(file, Len(file) - 1) /\ ~IsStruct(file, Len(file))
         /\ pos \in Nat /\ pos <= Len(file) /\ left[1] \in Nat /\ left[2] \in Nat
<1>1. ReadInv /\ file = image.file /\ GoodImage(file, image.vm)
  BY DEF Exact, ReadInv
<1>2. IsFile(file) /\ file \in Seq(Units) /\ Len(file) \in Nat
  BY <1>1 DEF GoodImage, IsFile
<1>3. /\ Len(file) >= 3 /\ Entries(file, image.vm, Len(file) - 2) /\ image.vm \in [Ids -> Regions]
      /\ RegionsIn(file, 0, Len(file)) = SavedIn(image.vm)
      /\ \A r \in Users : PagesInv(r, image.vm[r]) /\ ProtInv(r, image.vm[r])
      /\ file[Len(file) - 1] = Tag("context") /\ file[Len(file)] = Context
  BY <1>1 DEF GoodImage
<1>4. ~IsStruct(file, 1) /\ ~IsStruct(file, Len(file) - 1) /\ ~IsStruct(file, Len(file))
  BY <1>2, <1>3, UnitsAre DEF IsStruct, IsFile
<1>5. pos \in Nat /\ pos <= Len(file) /\ left[1] \in Nat /\ left[2] \in Nat
  BY TypesAre
<1> QED
  BY <1>1, <1>2, <1>3, <1>4, <1>5

\* A region struct of the image.
LEMMA ImageStruct ==
  ASSUME Types, Exact, pc \in Reading, NEW p, IsStruct(file, p)
  PROVE  /\ p \in Nat /\ p >= 3 /\ p <= Len(file) - 2 /\ file[p].n.r \in Users
         /\ End(file, p) \in Nat /\ End(file, p) >= p /\ End(file, p) <= Len(file) - 2
         /\ RegionAt(file, End(file, p)) \/ ContextAt(file, End(file, p))
         /\ Holds(file, p, image.vm[file[p].n.r])
         /\ \A q : IsStruct(file, q) /\ file[q].n.r = file[p].n.r => q = p
         /\ file[p].n \in Structs
<1>1. /\ file \in Seq(Units) /\ Len(file) \in Nat /\ Len(file) >= 3
      /\ Entries(file, image.vm, Len(file) - 2)
      /\ file[Len(file) - 1] = Tag("context") /\ file[Len(file)] = Context
      /\ ~IsStruct(file, Len(file) - 1) /\ ~IsStruct(file, Len(file))
  BY ReaderIs
<1> DEFINE e == Len(file) - 2
<1>2. \A q : IsStruct(file, q) => q \in 1 .. e
  <2> SUFFICES ASSUME NEW q, IsStruct(file, q) PROVE q \in 1 .. e
    OBVIOUS
  <2>1. q \in 1 .. Len(file) /\ q # Len(file) - 1 /\ q # Len(file)
    BY <1>1 DEF IsStruct
  <2> QED
    BY <1>1, <2>1
<1>3. EntryAt(file, image.vm, e, p)
  BY <1>1, <1>2, EntriesAre
<1>4. /\ p \in Nat /\ End(file, p) \in Nat /\ End(file, p) >= p /\ file[p].n \in Structs
  BY <1>1, StructAt
<1>5. RegionAt(file, End(file, p)) \/ ContextAt(file, End(file, p))
  <2>1. CASE End(file, p) = e
    BY <1>1, <2>1 DEF ContextAt
  <2> QED
    BY <1>3, <2>1 DEF EntryAt
<1>6. \A q : IsStruct(file, q) /\ file[q].n.r = file[p].n.r => q = p
  BY <1>1, <1>2, EntriesAre
<1> QED
  BY <1>1, <1>2, <1>3, <1>4, <1>5, <1>6 DEF EntryAt

\* Regions of a file lie ahead or behind.
LEMMA RegionsFinite ==
  ASSUME NEW f, NEW a, NEW e
  PROVE  /\ IsFiniteSet(RegionsIn(f, a, e)) /\ Cardinality(RegionsIn(f, a, e)) \in Nat
<1>1. IsFiniteSet(Users)
  BY Constants, FS_Interval
<1>2. RegionsIn(f, a, e) \subseteq Users
  BY DEF RegionsIn
<1> QED
  BY <1>1, <1>2, FS_Subset, FS_CardinalityType

\* Where there is no struct, no region is passed.
NoStruct(f, a, b) == \A p \in a + 1 .. b : ~IsStruct(f, p)

LEMMA NoStructAhead ==
  ASSUME NEW f, NEW a \in Nat, NEW b \in Nat, a <= b, NEW e \in Nat, NoStruct(f, a, b)
  PROVE  RegionsIn(f, a, e) = RegionsIn(f, b, e)
<1>1. \A p \in a + 1 .. e : IsStruct(f, p) => p \in b + 1 .. e
  BY DEF NoStruct
<1>2. \A p \in b + 1 .. e : p \in a + 1 .. e
  OBVIOUS
<1> QED
  BY <1>1, <1>2 DEF RegionsIn

LEMMA NoStructBehind ==
  ASSUME NEW f, NEW a \in Nat, NEW b \in Nat, a <= b, NoStruct(f, a, b)
  PROVE  RegionsIn(f, 0, a) = RegionsIn(f, 0, b)
<1>1. \A p \in 0 + 1 .. b : IsStruct(f, p) => p \in 0 + 1 .. a
  BY DEF NoStruct
<1>2. \A p \in 0 + 1 .. a : p \in 0 + 1 .. b
  OBVIOUS
<1> QED
  BY <1>1, <1>2 DEF RegionsIn

LEMMA RestartExact ==
  ASSUME Types, Exact, restart
  PROVE  Exact'
<1> DEFINE f == image.file
           c == Cardinality(SavedIn(image.vm))
<1>1. /\ image # NoImage /\ file' = f /\ pos' = 1 /\ left' = <<f[1].n, 0>> /\ pc' = "r_entry"
      /\ UNCHANGED image /\ IsFile(f)
      /\ \E marked \in BOOLEAN : vm' = Emptied(marked)
  BY RestartIs
<1>2. GoodImage(f, image.vm)
  BY <1>1 DEF Exact
<1>3. /\ Len(f) >= 3 /\ Len(f) \in Nat /\ f[1] = Header(c + 1) /\ f[1].k = "header"
      /\ f[Len(f) - 1] = Tag("context") /\ f[Len(f)] = Context
      /\ Entries(f, image.vm, Len(f) - 2) /\ RegionsIn(f, 0, Len(f)) = SavedIn(image.vm)
  BY <1>1, <1>2 DEF GoodImage, IsFile
<1>4. ~IsStruct(f, 1)
  BY <1>3 DEF IsStruct
<1>5. RegionsIn(f, 1, Len(f)) = SavedIn(image.vm)
  <2>1. NoStruct(f, 0, 1)
    BY <1>4 DEF NoStruct
  <2>2. RegionsIn(f, 0, Len(f)) = RegionsIn(f, 1, Len(f))
    BY <1>3, <2>1, NoStructAhead
  <2> QED
    BY <1>3, <2>2
<1>6. left'[1] = c + 1
  <2>1. left'[1] = f[1].n
    BY <1>1
  <2> QED
    BY <1>3, <2>1, UnitsAre, SavedAre
<1>7. RegionAt(f, 1) \/ ContextAt(f, 1)
  <2>1. CASE Len(f) - 2 = 1
    BY <1>3, <2>1 DEF ContextAt
  <2>2. CASE RegionAt(f, 1)
    BY <2>2
  <2> QED
    BY <1>3, <2>1, <2>2 DEF Entries
<1>8. \A r \in Users : vm'[r] = Untouched(r)
  BY <1>1, EmptiedIs DEF Untouched
<1> HIDE DEF f, c
<1>9. RFront' = 1 /\ Ahead' = RegionsIn(f, 1, Len(f))
  BY <1>1 DEF RFront, Ahead
<1>10. ReadInv'
  <2>1. image' # NoImage /\ file' = image'.file
    BY <1>1 DEF f
  <2>2. \A p \in 1 .. RFront' : ~IsStruct(file', p)
    BY <1>1, <1>4, <1>9
  <2>3. (RegionAt(file', pos') \/ ContextAt(file', pos')) /\ left'[1] = Cardinality(Ahead') + 1
    BY <1>1, <1>5, <1>6, <1>7, <1>9 DEF c
  <2> QED
    BY <1>1, <1>8, <2>1, <2>2, <2>3 DEF ReadInv
<1> QED
  BY <1>1, <1>10, ReaderExact DEF Reading

LEMMA ReadEntryExact ==
  ASSUME Types, Exact, read_entry
  PROVE  Exact'
<1> DEFINE f == file
           A(p) == RegionsIn(f, p, Len(f))
<1>1. pc = "r_entry" /\ pc \in Reading /\ UNCHANGED <<file, vm, before, image>>
  BY DEF read_entry, ReadFails, Reading
<1>2. /\ ReadInv /\ f \in Seq(Units) /\ Len(f) \in Nat /\ Len(f) >= 3
      /\ pos \in Nat /\ pos <= Len(f) /\ left[1] \in Nat
  BY <1>1, ReaderIs
<1>3. RFront = pos /\ Ahead = A(pos) /\ Cardinality(A(pos)) \in Nat
  BY <1>1, RegionsFinite DEF RFront, Ahead
<1>4. /\ image # NoImage /\ f = image.file
      /\ \A p \in 1 .. pos : IsStruct(f, p) => Back(f[p].n.r, vm[f[p].n.r], image.vm[f[p].n.r])
      /\ \A r \in Users : r \notin RegionsIn(f, 0, pos) => vm[r] = Untouched(r)
  BY <1>1, <1>2, <1>3 DEF ReadInv
\* The reader goes on past something that is not a struct.
<1>5. ASSUME NEW q \in Nat, q >= pos, q <= Len(f), \A p \in pos + 1 .. q : ~IsStruct(f, p)
      PROVE  /\ \A p \in 1 .. q : IsStruct(f, p) => Back(f[p].n.r, vm[f[p].n.r], image.vm[f[p].n.r])
             /\ \A r \in Users : r \notin RegionsIn(f, 0, q) => vm[r] = Untouched(r)
             /\ A(q) = A(pos) /\ RegionsIn(f, 0, q) = RegionsIn(f, 0, pos)
  <2>1. A(q) = A(pos) /\ RegionsIn(f, 0, q) = RegionsIn(f, 0, pos)
    <3>1. NoStruct(f, pos, q)
      BY <1>5 DEF NoStruct
    <3> QED
      BY <1>2, <1>5, <3>1, NoStructAhead, NoStructBehind
  <2>2. \A p \in 1 .. q : IsStruct(f, p) => p \in 1 .. pos
    BY <1>2, <1>5
  <2> QED
    BY <1>4, <2>1, <2>2
<1>6. CASE pos = Len(f) /\ left[1] = 0
  <2>1. pc' = "resumed" /\ UNCHANGED <<vm, pos, at, page, left>>
    BY <1>1, <1>6 DEF read_entry
  <2>2. RFront' = pos
    BY <2>1 DEF RFront
  <2>3. ReadInv'
    BY <1>1, <1>4, <1>6, <2>1, <2>2 DEF ReadInv
  <2> QED
    BY <1>1, <2>1, <2>3, ReaderExact DEF Reading
<1>7. CASE RegionAt(f, pos) /\ left[1] = Cardinality(A(pos)) + 1
  <2>1. IsStruct(f, pos + 2) /\ f[pos + 1] = Tag("region") /\ pos + 2 <= Len(f) /\ left[1] > 0
    BY <1>2, <1>3, <1>7, StructAt DEF RegionAt
  <2>2. Unit(pos + 1) = Tag("region")
    BY <1>2, <2>1, UnitAt
  <2>3. pc' = "r_region" /\ pos' = pos + 1 /\ left' = <<left[1] - 1, 0>>
    BY <1>1, <2>1, <2>2, UnitsAre DEF read_entry
  <2>4. left'[1] = Cardinality(A(pos))
    BY <1>2, <1>3, <1>7, <2>3
  <2>5. ~IsStruct(f, pos + 1)
    BY <2>1, UnitsAre DEF IsStruct
  <2>6. A(pos + 1) = A(pos)
    <3>1. \A p \in pos + 1 .. pos + 1 : ~IsStruct(f, p)
      BY <1>2, <2>5
    <3> QED
      BY <1>2, <1>5, <2>1, <3>1
  <2>7. RFront' = pos /\ Ahead' = A(pos + 1) /\ pos' - 1 = pos /\ pos' >= 2
    <3>1. pos >= 1
      <4>1. pos # 0
        BY <2>5, <2>1, <1>1, ReaderIs, UnitsAre DEF IsFile
      <4> QED
        BY <1>2, <4>1
    <3> QED
      BY <1>1, <1>2, <2>3, <3>1 DEF RFront, Ahead
  <2>8. ReadInv'
    BY <1>1, <1>4, <1>7, <2>3, <2>4, <2>6, <2>7 DEF ReadInv
  <2> QED
    BY <1>1, <2>3, <2>8, ReaderExact DEF Reading
<1>8. CASE ContextAt(f, pos) /\ left[1] = Cardinality(A(pos)) + 1
  <2>1. Len(f) = pos + 2 /\ f[pos + 1] = Tag("context") /\ f[pos + 2] = Context /\ left[1] > 0
    BY <1>2, <1>3, <1>8 DEF ContextAt
  <2>2. Unit(pos + 1) = Tag("context") /\ Unit(pos + 2) = Context
    BY <1>2, <2>1, UnitAt
  <2>3. pos' = pos + 2 /\ left' = <<left[1] - 1, 0>> /\ UNCHANGED pc
    BY <2>1, <2>2, UnitsAre DEF read_entry
  <2>4. \A p \in pos + 1 .. pos + 2 : ~IsStruct(f, p)
    <3>1. ~IsStruct(f, pos + 1) /\ ~IsStruct(f, pos + 2)
      BY <2>1, UnitsAre DEF IsStruct
    <3> QED
      BY <1>2, <3>1
  <2>5. A(pos + 2) = A(pos) /\ RegionsIn(f, 0, pos + 2) = RegionsIn(f, 0, pos)
        /\ \A p \in 1 .. pos + 2 : IsStruct(f, p) => Back(f[p].n.r, vm[f[p].n.r], image.vm[f[p].n.r])
        /\ \A r \in Users : r \notin RegionsIn(f, 0, pos + 2) => vm[r] = Untouched(r)
    BY <1>2, <1>5, <2>1, <2>4
  <2>6. left'[1] = 0
    <3>1. \A p \in pos + 2 + 1 .. Len(f) : FALSE
      BY <1>2, <2>1
    <3>2. A(pos + 2) = {}
      BY <3>1 DEF RegionsIn
    <3>3. Cardinality(A(pos)) = 0
      BY <2>5, <3>2, FS_EmptySet
    <3> QED
      BY <1>2, <1>8, <2>3, <3>3
  <2>7. RFront' = pos + 2
    BY <1>1, <2>3 DEF RFront
  <2> HIDE DEF A
  <2>8. ReadInv'
    BY <1>1, <1>4, <2>1, <2>3, <2>5, <2>6, <2>7 DEF ReadInv
  <2> QED
    BY <1>1, <2>3, <2>8, ReaderExact DEF Reading
<1> QED
  BY <1>1, <1>2, <1>3, <1>6, <1>7, <1>8 DEF ReadInv

LEMMA RestoreRegionExact ==
  ASSUME Types, Exact, ckpt_vm_restore_region
  PROVE  Exact'
<1> DEFINE f == file
           b == pos + 1
           s == file[pos + 1].n
           v == image.vm[s.r]
<1>1. pc = "r_region" /\ pc \in Reading /\ UNCHANGED <<file, image>>
  BY RestoreRegionIs DEF Reading
<1>2. /\ ReadInv /\ f \in Seq(Units) /\ Len(f) \in Nat /\ pos \in Nat /\ left[1] \in Nat
  BY <1>1, ReaderIs
<1>3. RFront = pos - 1 /\ Ahead = RegionsIn(f, pos, Len(f))
  BY <1>1 DEF RFront, Ahead
<1>4. /\ image # NoImage /\ f = image.file /\ RegionAt(f, pos - 1) /\ pos >= 2
      /\ left[1] = Cardinality(Ahead)
      /\ \A p \in 1 .. pos - 1 : IsStruct(f, p) => Back(f[p].n.r, vm[f[p].n.r], image.vm[f[p].n.r])
      /\ \A r \in Users : r \notin RegionsIn(f, 0, pos - 1) => vm[r] = Untouched(r)
  BY <1>1, <1>2, <1>3 DEF ReadInv
<1>5. IsStruct(f, b)
  <2>1. pos - 1 + 2 = b
    BY <1>2
  <2> QED
    BY <1>4, <2>1 DEF RegionAt
<1>6. /\ s.r \in Users /\ s \in Structs /\ Holds(f, b, v) /\ b <= Len(f) - 2 /\ b \in Nat
      /\ \A q : IsStruct(f, q) /\ f[q].n.r = s.r => q = b
  BY <1>1, <1>5, ImageStruct
<1>7. /\ s.size \in Nat /\ s.size >= 1 /\ s.size <= NPages /\ s.dirty_only \in BOOLEAN /\ s.dirtied \in Nat
      /\ s.r \in Ids /\ s.size \in 0 .. NPages
  <2>1. s.size # 0
    <3> DEFINE l == Len(v.pages)
    <3>1. s.size \in 1 .. l
      BY <1>6 DEF Holds
    <3> HIDE DEF l, s
    <3> QED
      BY <3>1
  <2> QED
    BY <1>6, <2>1, SomeStruct, Constants
<1>8. /\ pc' = (IF s.dirty_only THEN "r_dirty" ELSE "r_all")
      /\ vm' = (IF s.dirty_only /\ Kind(s.r) = "cache" THEN vm
                ELSE [vm EXCEPT ![s.r] = Fresh(s.r, s.size)])
      /\ at' = s.r /\ page' = 1 /\ pos' = b /\ before' = pos
      /\ left' = <<left[1], IF s.dirty_only THEN s.dirtied ELSE s.size>>
  <2>1. s.size # 0
    BY <1>7
  <2> QED
    BY <1>5, <2>1, RestoreRegionIs
<1>9. Kind(s.r) = KindOf[s.r] /\ vm \in [Ids -> Regions]
  BY <1>6, Constants, TypesAre
<1>10. \A p \in 1 .. pos - 1 : IsStruct(f, p) => f[p].n.r # s.r
  BY <1>2, <1>6
<1> HIDE DEF s
\* The region before anything is read into it.
<1>11. /\ vm'[s.r].here /\ ~vm'[s.r].marked /\ vm'[s.r].kind = KindOf[s.r]
       /\ Len(vm'[s.r].pages) \in Nat /\ Len(vm'[s.r].pages) >= s.size
       /\ \A k \in 1 .. Len(vm'[s.r].pages) : vm'[s.r].pages[k] = FreshPage
       /\ ~s.dirty_only => Len(vm'[s.r].pages) = s.size
       /\ \A r \in Users : r # s.r => vm'[r] = vm[r]
  <2>1. CASE s.dirty_only /\ Kind(s.r) = "cache"
    <3>1. vm' = vm /\ "cache" \in Kinds
      BY <1>8, <2>1 DEF Kinds
    <3>2. s.r \notin RegionsIn(f, 0, pos - 1)
      BY <1>10 DEF RegionsIn
    <3>3. vm[s.r] = Region("cache")
      BY <1>4, <1>6, <1>9, <2>1, <3>2 DEF Untouched
    <3>4. /\ Region("cache").here /\ ~Region("cache").marked /\ Region("cache").kind = "cache"
          /\ Len(Region("cache").pages) = NPages
          /\ \A k \in 1 .. NPages : Region("cache").pages[k] = FreshPage
      BY <3>1, RegionIs
    <3> QED
      BY <1>7, <1>9, <2>1, <3>1, <3>3, <3>4, Constants
  <2>2. CASE ~(s.dirty_only /\ Kind(s.r) = "cache")
    <3> DEFINE w == Fresh(s.r, s.size)
    <3>1. /\ w \in Regions /\ w.here /\ ~w.marked /\ w.kind = Kind(s.r) /\ Len(w.pages) = s.size
          /\ \A k \in 1 .. s.size : w.pages[k] = FreshPage
      BY <1>7, FreshRegion
    <3>2. vm' = [vm EXCEPT ![s.r] = w]
      BY <1>8, <2>2
    <3> HIDE DEF w
    <3>3. vm'[s.r] = w /\ \A q \in Ids : q # s.r => vm'[q] = vm[q]
      BY <1>7, <1>9, <3>1, <3>2, OneRegion
    <3> QED
      BY <1>7, <1>9, <3>1, <3>3, Constants
  <2> QED
    BY <2>1, <2>2
<1>12. Cardinality(Ahead) = Cardinality(RegionsIn(f, b, Len(f))) + 1
  <2> DEFINE R == RegionsIn(f, b, Len(f))
  <2>1. s.r \notin R
    <3>1. \A p \in b + 1 .. Len(f) : p # b
      BY <1>6
    <3> QED
      BY <1>6, <3>1 DEF RegionsIn
  <2>2. Ahead = R \cup {s.r}
    <3>1. \A p \in pos + 1 .. Len(f) : p = b \/ p \in b + 1 .. Len(f)
      BY <1>2
    <3>2. b \in pos + 1 .. Len(f) /\ \A p \in b + 1 .. Len(f) : p \in pos + 1 .. Len(f)
      BY <1>2, <1>6
    <3>3. f[b].n.r = s.r
      BY DEF s
    <3> HIDE DEF b
    <3> QED
      BY <1>3, <1>5, <1>6, <3>1, <3>2, <3>3 DEF RegionsIn
  <2>3. IsFiniteSet(R)
    BY RegionsFinite
  <2> HIDE DEF R
  <2>4. Cardinality(Ahead) = Cardinality(R) + 1
    BY <2>1, <2>2, <2>3, FS_AddElement
  <2> QED
    BY <2>4 DEF R
<1>13. /\ pc' \in {"r_dirty", "r_all"} /\ (pc' = "r_dirty" <=> s.dirty_only) /\ RFront' = pos - 1
       /\ Ahead' = RegionsIn(f, b, Len(f)) /\ InHand' = s /\ left'[1] = left[1]
       /\ left'[2] = IF s.dirty_only THEN s.dirtied ELSE s.size
  BY <1>1, <1>7, <1>8 DEF RFront, Ahead, InHand, s
<1>14. ReadInv'
  <2>1. ASSUME NEW p \in 1 .. pos - 1, IsStruct(f, p)
        PROVE  Back(f[p].n.r, vm'[f[p].n.r], image.vm[f[p].n.r])
    <3>1. f[p].n.r # s.r
      BY <1>10, <2>1
    <3>2. f[p].n.r \in Users
      BY <1>1, <2>1, ImageStruct
    <3> QED
      BY <1>4, <1>11, <2>1, <3>1, <3>2
  <2>2. \A r \in Users : r \notin RegionsIn(f, 0, pos - 1) => vm'[r] = Untouched(r) \/ r = at'
    BY <1>4, <1>8, <1>11
  <2>3. before' >= 1 /\ RegionAt(f, before' - 1) /\ left'[1] = Cardinality(Ahead') + 1
    <3>1. before' >= 1 /\ RegionAt(f, before' - 1)
      BY <1>2, <1>4, <1>8
    <3>2. Cardinality(Ahead') + 1 = Cardinality(Ahead)
      BY <1>12, <1>13
    <3> QED
      BY <1>4, <1>13, <3>1, <3>2
  <2> QED
    BY <1>1, <1>4, <1>13, <2>1, <2>2, <2>3 DEF ReadInv
<1>15. HandReadInv'
  <2>1. InHand'.dirty_only = (pc' = "r_dirty")
    BY <1>7, <1>13
  <2> QED
    BY <1>8, <1>11, <1>13, <2>1 DEF HandReadInv
<1>16. ASSUME pc' = "r_dirty" PROVE DirtyReadInv'
  <2>1. left'[2] = s.dirtied /\ pos' = before' + 1
    BY <1>8, <1>13, <1>16
  <2>2. s.dirtied - left'[2] = 0 /\ \A i \in 0 .. s.dirtied - left'[2] - 1 : FALSE
    BY <1>7, <2>1
  <2>3. pos' = before' + 1 + 3 * (s.dirtied - left'[2])
    BY <1>2, <1>8, <2>1, <2>2
  <2>4. /\ InHand' = s /\ at' = s.r /\ s.dirtied \in Nat /\ left'[2] <= s.dirtied
        /\ Len(vm'[at'].pages) >= s.size
        /\ \A k \in 1 .. Len(vm'[at'].pages) : vm'[at'].pages[k] = FreshPage
    BY <1>7, <1>8, <1>11, <1>13, <2>1
  <2> QED
    BY <2>2, <2>3, <2>4 DEF DirtyReadInv
<1>17. ASSUME pc' = "r_all" PROVE AllReadInv'
  <2>1. left'[2] = s.size /\ ~s.dirty_only
    BY <1>13, <1>17
  <2>2. pos' = before' + 1 + 2 * (page' - 1) /\ page' + left'[2] = s.size + 1
    BY <1>2, <1>7, <1>8, <2>1
  <2>3. Len(vm'[at'].pages) = s.size
    BY <1>8, <1>11, <2>1
  <2>4. \A k \in 1 .. s.size : ~(k < page') /\ vm'[at'].pages[k] = FreshPage
    BY <1>7, <1>8, <1>11, <2>3
  <2> QED
    BY <1>13, <2>2, <2>3, <2>4 DEF AllReadInv
<1> QED
  BY <1>1, <1>13, <1>14, <1>15, <1>16, <1>17, ReaderExact DEF Reading

\* The region into which the reader puts pages.
LEMMA HandIs ==
  ASSUME Types, Exact, pc \in {"r_dirty", "r_all"}
  PROVE  /\ pc \in Reading /\ ReadInv /\ HandReadInv /\ before \in Nat /\ before >= 1
         /\ RegionAt(file, before - 1) /\ IsStruct(file, before + 1) /\ InHand = file[before + 1].n
         /\ at \in Users /\ at \in Ids /\ InHand.r = at /\ InHand \in Structs
         /\ InHand.size \in Nat /\ InHand.size <= NPages /\ InHand.dirtied \in Nat
         /\ InHand.dirty_only = (pc = "r_dirty")
         /\ Holds(file, before + 1, image.vm[at])
         /\ End(file, before + 1) \in Nat /\ End(file, before + 1) <= Len(file) - 2
         /\ \A p : IsStruct(file, p) /\ file[p].n.r = at => p = before + 1
<1>1. pc \in Reading /\ ReadInv /\ HandReadInv
  BY DEF Exact, Reading
<1>2. before \in Nat /\ before >= 1 /\ RegionAt(file, before - 1) /\ IsStruct(file, before + 1)
  BY <1>1, TypesAre DEF ReadInv, PlaceType
<1>3. InHand = file[before + 1].n /\ InHand.r = at /\ InHand.dirty_only = (pc = "r_dirty")
  BY <1>1 DEF HandReadInv, InHand
<1>4. /\ at \in Users /\ InHand \in Structs
      /\ Holds(file, before + 1, image.vm[at])
      /\ End(file, before + 1) \in Nat /\ End(file, before + 1) <= Len(file) - 2
      /\ \A p : IsStruct(file, p) /\ file[p].n.r = at => p = before + 1
  BY <1>1, <1>2, <1>3, ImageStruct
<1>5. InHand.size \in Nat /\ InHand.size <= NPages /\ InHand.dirtied \in Nat /\ at \in Ids
  BY <1>4, SomeStruct, Constants
<1> QED
  BY <1>1, <1>2, <1>3, <1>4, <1>5

\* Pages of the region in hand change.
LEMMA HandStep ==
  ASSUME Types, Exact, pc \in {"r_dirty", "r_all"}, UNCHANGED <<pc, file, at, before, image>>,
         left'[1] = left[1], NEW w \in Regions, vm' = [vm EXCEPT ![at] = w],
         w.here = vm[at].here, w.marked = vm[at].marked, w.kind = vm[at].kind
  PROVE  ReadInv' /\ HandReadInv' /\ InHand' = InHand /\ vm'[at'] = w
<1>1. /\ ReadInv /\ HandReadInv /\ at \in Users /\ at \in Ids /\ before \in Nat /\ pc \in Reading
      /\ \A p : IsStruct(file, p) /\ file[p].n.r = at => p = before + 1
  BY HandIs
<1>2. vm \in [Ids -> Regions] /\ vm'[at] = w /\ \A q \in Ids : q # at => vm'[q] = vm[q]
  BY <1>1, TypesAre, OneRegion
<1>3. InHand' = InHand /\ RFront' = RFront /\ Ahead' = Ahead /\ RFront = before - 1
  BY DEF InHand, RFront, Ahead
<1>4. HandReadInv'
  BY <1>1, <1>2, <1>3 DEF HandReadInv
<1>5. \A p \in 1 .. RFront' : IsStruct(file, p) => Back(file[p].n.r, vm'[file[p].n.r], image.vm[file[p].n.r])
  <2> SUFFICES ASSUME NEW p \in 1 .. RFront, IsStruct(file, p)
               PROVE  Back(file[p].n.r, vm'[file[p].n.r], image.vm[file[p].n.r])
    BY <1>3
  <2>1. file[p].n.r # at
    BY <1>1, <1>3
  <2>2. file[p].n.r \in Ids
    BY <1>1, ImageStruct, Constants
  <2> QED
    BY <1>1, <1>2, <2>1, <2>2 DEF ReadInv
<1>6. \A r \in Users : r \notin RegionsIn(file, 0, RFront') => vm'[r] = Untouched(r) \/ r = at
  BY <1>1, <1>2, <1>3, Constants DEF ReadInv
<1>7. ReadInv'
  BY <1>1, <1>3, <1>5, <1>6 DEF ReadInv
<1> QED
  BY <1>2, <1>3, <1>4, <1>7

\* The content of a page that was saved.
LEMMA PageReadData ==
  ASSUME Types, NEW p \in Nat, p + 2 <= Len(file), NEW val, IsData(file, p + 1, val),
         IsData(file, p + 2, val)
  PROVE  PageRead(p) = val
<1>1. Unit(p + 1) = file[p + 1] /\ Unit(p + 2) = file[p + 2]
  BY TypesAre, UnitAt, SMTT(30)
<1> QED
  BY <1>1 DEF IsData, PageRead

LEMMA ReadAllExact ==
  ASSUME Types, Exact, read_region_page
  PROVE  Exact'
<1> DEFINE b == before + 1
           v == image.vm[at]
           val == v.pages[page].val
           x == [val |-> val, st |-> "dirty"]
           w == [vm[at] EXCEPT !.pages = WithPage(vm[at].pages, page, x)]
<1>1. /\ pc = "r_all" /\ pc \in {"r_dirty", "r_all"} /\ left[2] > 0
      /\ UNCHANGED <<file, before, image>>
  BY DEF read_region_page
<1>2. /\ before \in Nat /\ Holds(file, b, v) /\ InHand = file[b].n /\ InHand.size \in Nat
      /\ ~InHand.dirty_only /\ End(file, b) <= Len(file) - 2
  BY <1>1, HandIs
<1>3. AllReadInv
  BY <1>1 DEF Exact
<1>4. /\ pos = b + 2 * (page - 1) /\ page + left[2] = InHand.size + 1 /\ Len(vm[at].pages) = InHand.size
      /\ \A k \in 1 .. InHand.size : vm[at].pages[k] = IF k < page THEN [val |-> v.pages[k].val, st |-> "dirty"]
                                                       ELSE FreshPage
  BY <1>3 DEF AllReadInv
<1>5. /\ pos \in Nat /\ Len(file) \in Nat /\ left[1] \in Nat /\ left[2] \in Nat
      /\ page \in Nat /\ page >= 1 /\ vm \in [Ids -> Regions] /\ vm[at] \in Regions
  BY TypesAre
<1>6. page \in 1 .. InHand.size /\ page <= InHand.size
  <2> DEFINE z == InHand.size
             l == left[2]
  <2>1. z \in Nat /\ l \in Nat /\ l > 0 /\ page \in Nat /\ page >= 1 /\ page + l = z + 1
    BY <1>1, <1>2, <1>4, <1>5
  <2> HIDE DEF z, l
  <2>2. page \in 1 .. z /\ page <= z
    BY <2>1
  <2> QED
    BY <2>2 DEF z
<1>7. pos + 2 <= Len(file)
  <2>1. End(file, b) = b + 2 * InHand.size
    BY <1>2 DEF End
  <2> QED
    BY <1>2, <1>4, <1>5, <1>6, <2>1, SMTT(30)
<1>8. PageRead(pos) = val
  <2>1. AllPages(file, b, v, InHand.size)
    BY <1>2 DEF Holds
  <2>2. IsData(file, b + 2 * page - 1, val) /\ IsData(file, b + 2 * page, val)
    BY <1>6, <2>1 DEF AllPages
  <2>3. b + 2 * page - 1 = pos + 1 /\ b + 2 * page = pos + 2
    BY <1>2, <1>4, <1>5
  <2> HIDE DEF val
  <2> QED
    BY <1>5, <1>7, <2>2, <2>3, PageReadData
<1>9. Unit(pos + 2).k # "eof"
  BY <1>5, <1>7, UnitAt
<1>10. /\ vm' = [vm EXCEPT ![at].pages[page] = [val |-> PageRead(pos), st |-> "dirty"]]
       /\ pos' = pos + 2 /\ page' = page + 1 /\ left' = <<left[1], left[2] - 1>>
       /\ UNCHANGED <<pc, at>>
  BY <1>9 DEF read_region_page, PageSize
<1>11. w \in Regions /\ vm' = [vm EXCEPT ![at] = w]
  <2>1. ReadPage(pos) = x
    BY <1>8 DEF ReadPage
  <2>2. LET y == [vm[at] EXCEPT !.pages = WithPage(vm[at].pages, page, ReadPage(pos))]
        IN y \in Regions /\ vm' = [vm EXCEPT ![at] = y]
    BY <1>5, <1>10, ReadPageIs
  <2> QED
    BY <2>1, <2>2
<1>12. /\ w.here = vm[at].here /\ w.marked = vm[at].marked /\ w.kind = vm[at].kind
       /\ Len(w.pages) = Len(vm[at].pages)
       /\ \A i \in 1 .. Len(vm[at].pages) : w.pages[i] = IF i = page THEN x ELSE vm[at].pages[i]
  <2> DEFINE s == WithPage(vm[at].pages, page, x)
  <2>1. vm[at].pages \in PageSeq /\ x \in Pages
    <3>1. ReadPage(pos) \in Pages
      BY <1>5, PageReadIs DEF ReadPage, Pages
    <3> QED
      BY <1>5, <1>8, <3>1 DEF Regions, ReadPage
  <2> HIDE DEF x
  <2>2. /\ s \in PageSeq /\ Len(s) = Len(vm[at].pages)
        /\ \A i \in 1 .. Len(vm[at].pages) : s[i] = IF i = page THEN x ELSE vm[at].pages[i]
    BY <2>1, OnePage
  <2> HIDE DEF s
  <2>3. /\ w.pages = s /\ w.here = vm[at].here /\ w.marked = vm[at].marked /\ w.kind = vm[at].kind
    BY <1>5, <2>2, NewPages DEF s
  <2> HIDE DEF w
  <2> QED
    BY <2>2, <2>3
<1> HIDE DEF w
<1>13. left'[1] = left[1] /\ left'[2] = left[2] - 1
  BY <1>10
<1>14. ReadInv' /\ HandReadInv' /\ InHand' = InHand /\ vm'[at'] = w
  BY <1>1, <1>10, <1>11, <1>12, <1>13, HandStep
<1>15. AllReadInv'
  <2>1. /\ pos' = before' + 1 + 2 * (page' - 1) /\ page' + left'[2] = InHand'.size + 1
        /\ Len(vm'[at'].pages) = InHand'.size
    <3>1. pos' = before' + 1 + 2 * (page' - 1)
      BY <1>1, <1>2, <1>4, <1>5, <1>10
    <3> DEFINE z == InHand.size
               l == left[2]
    <3>2. z \in Nat /\ l \in Nat /\ page + l = z + 1 /\ page' = page + 1 /\ left'[2] = l - 1
      BY <1>2, <1>4, <1>5, <1>10, <1>13
    <3> HIDE DEF z, l
    <3>3. page' + left'[2] = z + 1
      BY <1>5, <3>2
    <3>4. InHand'.size = z
      BY <1>14 DEF z
    <3>5. Len(vm'[at'].pages) = z
      BY <1>4, <1>12, <1>14 DEF z
    <3> QED
      BY <3>1, <3>3, <3>4, <3>5
  <2>2. ASSUME NEW k \in 1 .. InHand.size
        PROVE  w.pages[k] = IF k < page + 1 THEN [val |-> v.pages[k].val, st |-> "dirty"] ELSE FreshPage
    <3>1. CASE k = page
      BY <1>4, <1>5, <1>12, <3>1
    <3>2. CASE k # page
      <4>1. k < page + 1 <=> k < page
        BY <1>2, <1>5, <3>2
      <4>2. w.pages[k] = vm[at].pages[k]
        BY <1>4, <1>12, <3>2
      <4> QED
        BY <1>4, <4>1, <4>2
    <3> QED
      BY <3>1, <3>2
  <2>3. \A k \in 1 .. InHand'.size :
          vm'[at'].pages[k] = IF k < page' THEN [val |-> image'.vm[at'].pages[k].val, st |-> "dirty"]
                              ELSE FreshPage
    BY <1>1, <1>10, <1>14, <2>2
  <2> QED
    BY <2>1, <2>3 DEF AllReadInv
<1> QED
  BY <1>1, <1>10, <1>14, <1>15, ReaderExact DEF Reading

LEMMA PageAtIs == \A i, j : PageAt(i) = PageAt(j) => i = j
BY DEF PageAt

LEMMA ReadDirtyExact ==
  ASSUME Benign, Types, Exact, ckpt_vm_page_restore
  PROVE  Exact'
<1> DEFINE b == before + 1
           v == image.vm[at]
           d == InHand.dirtied
           n == d - left[2]
<1>1. /\ pc = "r_dirty" /\ pc \in {"r_dirty", "r_all"} /\ left[2] > 0
      /\ UNCHANGED <<file, before, image>>
  BY DEF ckpt_vm_page_restore
<1>2. /\ before \in Nat /\ Holds(file, b, v) /\ InHand = file[b].n /\ InHand.size \in Nat
      /\ InHand.dirty_only /\ End(file, b) <= Len(file) - 2 /\ d \in Nat /\ at \in Users /\ at \in Ids
  BY <1>1, HandIs
<1>3. DirtyReadInv
  BY <1>1 DEF Exact
<1>4. /\ left[2] <= d /\ pos = b + 3 * n /\ Len(vm[at].pages) >= InHand.size
      /\ \A k \in 1 .. Len(vm[at].pages) :
           \/ vm[at].pages[k] = FreshPage
           \/ k \in DirtyIn(v) /\ vm[at].pages[k] = [val |-> v.pages[k].val, st |-> "dirty"]
      /\ \A i \in 0 .. n - 1 : \A k \in DirtyIn(v) :
           file[b + 3 * i + 1] = PageAt(k) => vm[at].pages[k].st = "dirty"
  BY <1>3 DEF DirtyReadInv
<1>5. /\ pos \in Nat /\ Len(file) \in Nat /\ left[1] \in Nat /\ left[2] \in Nat
      /\ vm \in [Ids -> Regions] /\ vm[at] \in Regions
  BY TypesAre
<1>6. n \in 0 .. d - 1 /\ n \in Nat /\ n + 1 = d - (left[2] - 1) /\ n + 1 <= d
  <2> DEFINE l == left[2]
  <2>1. d \in Nat /\ l \in Nat /\ l > 0 /\ l <= d
    BY <1>1, <1>2, <1>4, <1>5
  <2> HIDE DEF d, l
  <2>2. d - l \in 0 .. d - 1 /\ d - l \in Nat /\ (d - l) + 1 = d - (l - 1) /\ (d - l) + 1 <= d
    BY <2>1
  <2> QED
    BY <2>2 DEF l
<1> HIDE DEF n
<1>7. pos + 3 <= Len(file)
  <2>1. End(file, b) = b + 3 * d
    BY <1>2 DEF End
  <2> QED
    BY <1>2, <1>4, <1>5, <1>6, <2>1, SMTT(30)
<1>8. PICK k \in DirtyIn(v) : PageIs(file, pos, v, k)
  <2>1. DirtyPages(file, b, v, d, NPages)
    BY <1>2 DEF Holds
  <2>2. \E k \in DirtyIn(v) : PageIs(file, b + 3 * n, v, k)
    BY <1>6, <2>1 DEF DirtyPages
  <2> QED
    BY <1>4, <2>2
<1> DEFINE val == v.pages[k].val
           x == [val |-> val, st |-> "dirty"]
           w == [vm[at] EXCEPT !.pages = WithPage(vm[at].pages, k, x)]
<1>9. k \in 1 .. Len(vm[at].pages)
  <2>1. k \in 1 .. Len(v.pages) /\ v.pages[k].st # "bad"
    BY <1>8 DEF DirtyIn
  <2>2. k <= InHand.size
    BY <1>2, <2>1 DEF Holds
  <2>3. k \in Nat /\ Len(vm[at].pages) \in Nat
    BY <1>5, <2>1, SomeRegion, Constants
  <2> QED
    BY <1>2, <1>4, <2>1, <2>2, <2>3, SMTT(30)
<1>10. Unit(pos + 1) = PageAt(k) /\ Unit(pos + 1).k = "page" /\ Unit(pos + 1).n = k /\ Unit(pos + 3).k # "eof"
  <2>1. Unit(pos + 1) = PageAt(k)
    BY <1>5, <1>7, <1>8, UnitAt DEF PageIs
  <2>2. Unit(pos + 3).k # "eof"
    BY <1>5, <1>7, UnitAt
  <2> QED
    BY <2>1, <2>2 DEF PageAt
<1>11. PageRead(pos + 1) = val
  <2> DEFINE p == pos + 1
  <2>1. p \in Nat /\ p + 2 <= Len(file) /\ p + 1 = pos + 2 /\ p + 2 = pos + 3
    BY <1>5, <1>7
  <2>2. IsData(file, p + 1, val) /\ IsData(file, p + 2, val)
    BY <1>8, <2>1 DEF PageIs
  <2> HIDE DEF p, val
  <2>3. PageRead(p) = val
    BY <2>1, <2>2, PageReadData
  <2> QED
    BY <2>3 DEF p
<1>12. ~(Kind(at) = "cache" /\ "efault" \in Faults[at])
  BY <1>2, TameIs, Constants
<1>13. /\ vm' = [vm EXCEPT ![at].pages[k] = [val |-> PageRead(pos + 1), st |-> "dirty"]]
       /\ pos' = pos + 3 /\ left' = <<left[1], left[2] - 1>>
       /\ UNCHANGED <<pc, at>>
  <2>1. /\ vm' = [vm EXCEPT ![at].pages[Unit(pos + 1).n] = [val |-> PageRead(pos + 1), st |-> "dirty"]]
        /\ pos' = pos + PageStruct + PageSize /\ left' = <<left[1], left[2] - 1>> /\ UNCHANGED <<pc, at>>
    BY <1>10, <1>12 DEF ckpt_vm_page_restore
  <2>2. pos' = pos + 3
    BY <1>5, <2>1 DEF PageStruct, PageSize
  <2> DEFINE u == Unit(pos + 1).n
  <2>3. u = k /\ vm' = [vm EXCEPT ![at].pages[u] = [val |-> PageRead(pos + 1), st |-> "dirty"]]
    BY <1>10, <2>1
  <2> HIDE DEF u
  <2>4. vm' = [vm EXCEPT ![at].pages[k] = [val |-> PageRead(pos + 1), st |-> "dirty"]]
    BY <2>3
  <2> QED
    BY <2>1, <2>2, <2>4
<1>14. w \in Regions /\ vm' = [vm EXCEPT ![at] = w]
  <2> DEFINE p == pos + 1
  <2>1. ReadPage(p) = x /\ p \in Nat /\ vm' = [vm EXCEPT ![at].pages[k] = [val |-> PageRead(p), st |-> "dirty"]]
    BY <1>5, <1>11, <1>13 DEF ReadPage
  <2> HIDE DEF p, x
  <2>2. LET y == [vm[at] EXCEPT !.pages = WithPage(vm[at].pages, k, ReadPage(p))]
        IN y \in Regions /\ vm' = [vm EXCEPT ![at] = y]
    BY <2>1, ReadPageIs
  <2> QED
    BY <2>1, <2>2
<1>15. /\ w.here = vm[at].here /\ w.marked = vm[at].marked /\ w.kind = vm[at].kind
       /\ Len(w.pages) = Len(vm[at].pages)
       /\ \A i \in 1 .. Len(vm[at].pages) : w.pages[i] = IF i = k THEN x ELSE vm[at].pages[i]
  <2> DEFINE s == WithPage(vm[at].pages, k, x)
  <2>1. vm[at].pages \in PageSeq /\ x \in Pages
    <3>1. pos + 1 \in Nat
      BY <1>5
    <3>2. val \in -1 .. MaxWrites
      BY <3>1, <1>11, PageReadIs
    <3> QED
      BY <1>5, <3>2 DEF Regions, Pages
  <2> HIDE DEF x
  <2>2. /\ s \in PageSeq /\ Len(s) = Len(vm[at].pages)
        /\ \A i \in 1 .. Len(vm[at].pages) : s[i] = IF i = k THEN x ELSE vm[at].pages[i]
    BY <2>1, OnePage
  <2> HIDE DEF s
  <2>3. /\ w.pages = s /\ w.here = vm[at].here /\ w.marked = vm[at].marked /\ w.kind = vm[at].kind
    BY <1>5, <2>2, NewPages DEF s
  <2> HIDE DEF w
  <2> QED
    BY <2>2, <2>3
<1> HIDE DEF w
<1>16. left'[1] = left[1] /\ left'[2] = left[2] - 1
  BY <1>13
<1>17. ReadInv' /\ HandReadInv' /\ InHand' = InHand /\ vm'[at'] = w
  BY <1>1, <1>13, <1>14, <1>15, <1>16, HandStep
<1>18. DirtyReadInv'
  <2>1. /\ left'[2] <= InHand'.dirtied /\ InHand'.dirtied - left'[2] = n + 1
        /\ pos' = before' + 1 + 3 * (n + 1) /\ Len(vm'[at'].pages) >= InHand'.size
    <3> DEFINE l == left[2]
    <3>1. l \in Nat /\ l <= d /\ d \in Nat /\ n = d - l /\ left'[2] = l - 1 /\ InHand'.dirtied = d
      BY <1>2, <1>4, <1>5, <1>16, <1>17 DEF n
    <3> HIDE DEF d, l
    <3>2. left'[2] <= InHand'.dirtied /\ InHand'.dirtied - left'[2] = n + 1
      BY <3>1
    <3>3. pos' = before' + 1 + 3 * (n + 1)
      <4>1. pos' = pos + 3 /\ before' = before /\ pos = before + 1 + 3 * n /\ before \in Nat /\ n \in Nat
        BY <1>1, <1>2, <1>4, <1>6, <1>13
      <4> QED
        BY <4>1
    <3>4. Len(vm'[at'].pages) >= InHand'.size
      BY <1>4, <1>15, <1>17
    <3> QED
      BY <3>2, <3>3, <3>4
  <2>2. \A j \in 1 .. Len(w.pages) :
          \/ w.pages[j] = FreshPage
          \/ j \in DirtyIn(v) /\ w.pages[j] = [val |-> v.pages[j].val, st |-> "dirty"]
    BY <1>4, <1>8, <1>15
  <2>3. ASSUME NEW i \in 0 .. n, NEW j \in DirtyIn(v), file[b + 3 * i + 1] = PageAt(j)
        PROVE  w.pages[j].st = "dirty"
    <3>1. CASE j = k
      BY <1>9, <1>15, <3>1
    <3>2. CASE i = n /\ j # k
      <4>1. file[b + 3 * n + 1] = PageAt(k)
        BY <1>4, <1>8 DEF PageIs
      <4> QED
        BY <2>3, <3>2, <4>1, PageAtIs
    <3>3. CASE i # n /\ j # k
      <4>1. i \in 0 .. n - 1
        BY <1>6, <3>3
      <4>2. vm[at].pages[j].st = "dirty"
        BY <1>4, <2>3, <4>1
      <4>3. j \in 1 .. Len(vm[at].pages)
        <5>1. j \in 1 .. Len(v.pages) /\ v.pages[j].st # "bad"
          BY DEF DirtyIn
        <5>2. j <= InHand.size
          BY <1>2, <5>1 DEF Holds
        <5>3. j \in Nat /\ Len(vm[at].pages) \in Nat
          BY <1>5, <5>1, SomeRegion, Constants
        <5> DEFINE l == Len(vm[at].pages)
                   z == InHand.size
        <5>4. j >= 1 /\ j <= z /\ z \in Nat /\ l >= z
          BY <1>2, <1>4, <5>1, <5>2
        <5> HIDE DEF l, z
        <5>5. j \in 1 .. l
          BY <5>3, <5>4 DEF l
        <5> QED
          BY <5>5 DEF l
      <4> QED
        BY <1>15, <3>3, <4>2, <4>3
    <3> QED
      BY <3>1, <3>2, <3>3
  <2>4. (n + 1) - 1 = n
    BY <1>6
  <2>5. v = image'.vm[at'] /\ b = before' + 1 /\ file' = file
    BY <1>1, <1>13
  <2> HIDE DEF v, b
  <2>6. \A i \in 0 .. InHand'.dirtied - left'[2] - 1 : \A j \in DirtyIn(v) :
          file'[b + 3 * i + 1] = PageAt(j) => vm'[at'].pages[j].st = "dirty"
    BY <1>17, <2>1, <2>3, <2>4, <2>5
  <2>7. pos' = before' + 1 + 3 * (InHand'.dirtied - left'[2])
    BY <2>1
  <2> QED
    BY <1>17, <2>1, <2>2, <2>5, <2>6, <2>7 DEF DirtyReadInv
<1> QED
  BY <1>1, <1>13, <1>17, <1>18, ReaderExact DEF Reading

\* Memory w has what was readable of v.
Filled(w, v) ==
  \A k \in 1 .. Len(v.pages) : v.pages[k].st # "bad" =>
    k \in 1 .. Len(w.pages) /\ w.pages[k].val = v.pages[k].val

\* The dirty pages of a region are all read.
LEMMA DirtyBack ==
  ASSUME Types, Exact, pc = "r_dirty", left[2] = 0
  PROVE  /\ pos = End(file, before + 1) /\ PagesInv(at, vm[at]) /\ Filled(vm[at], image.vm[at])
<1> DEFINE b == before + 1
           v == image.vm[at]
           w == vm[at]
           d == InHand.dirtied
<1>1. /\ pc \in Reading /\ HandReadInv /\ before \in Nat /\ Holds(file, b, v) /\ InHand = file[b].n
      /\ InHand.size \in Nat /\ InHand.dirty_only /\ d \in Nat /\ at \in Users /\ at \in Ids
  BY HandIs
<1>2. DirtyReadInv
  BY DEF Exact
<1>3. d - left[2] = d
  BY <1>1
<1> HIDE DEF d
<1>4. /\ pos = b + 3 * d /\ Len(w.pages) >= InHand.size
      /\ \A k \in 1 .. Len(w.pages) :
           \/ w.pages[k] = FreshPage
           \/ k \in DirtyIn(v) /\ w.pages[k] = [val |-> v.pages[k].val, st |-> "dirty"]
      /\ \A i \in 0 .. d - 1 : \A k \in DirtyIn(v) :
           file[b + 3 * i + 1] = PageAt(k) => w.pages[k].st = "dirty"
  BY <1>2, <1>3 DEF DirtyReadInv, d
<1>5. /\ PagesInv(at, v) /\ v \in Regions /\ v.kind # "plain" /\ KindOf[at] # "plain"
  <2>1. PagesInv(at, v) /\ v \in Regions
    BY <1>1, ReaderIs
  <2>2. v.kind # "plain"
    BY <1>1 DEF Holds
  <2> QED
    BY <2>1, <2>2 DEF PagesInv, Full
<1>6. /\ Len(w.pages) \in Nat /\ Len(v.pages) \in Nat /\ Len(v.pages) <= NPages
      /\ w.here /\ ~w.marked /\ w.kind = KindOf[at]
  <2>1. w \in Regions
    BY <1>1, TypesAre
  <2>2. Len(w.pages) \in 0 .. NPages /\ Len(v.pages) \in 0 .. NPages
    BY <1>5, <2>1, SomeRegion
  <2>3. w.here /\ ~w.marked /\ w.kind = KindOf[at]
    BY <1>1 DEF HandReadInv
  <2> QED
    BY <2>2, <2>3, Constants
<1>7. InHand.size >= 1 /\ \A k \in 1 .. Len(v.pages) : v.pages[k].st # "bad" <=> k <= InHand.size
  BY <1>1, <1>6 DEF Holds
<1>8. pos = End(file, b)
  BY <1>1, <1>4 DEF End, d
<1>9. PagesInv(at, w)
  <2>1. ASSUME NEW k \in 1 .. Len(w.pages)
        PROVE  w.pages[k].st = "dirty" \/ (w.pages[k].st = "clean" /\ w.pages[k].val = 0)
    <3> DEFINE x == [val |-> v.pages[k].val, st |-> "dirty"]
    <3>1. x.st = "dirty"
      OBVIOUS
    <3>2. w.pages[k] = FreshPage \/ w.pages[k] = x
      BY <1>4
    <3> HIDE DEF x
    <3> QED
      BY <3>1, <3>2, FreshIs
  <2>2. Len(w.pages) >= 1
    BY <1>1, <1>4, <1>6, <1>7
  <2> QED
    BY <1>5, <1>6, <2>1, <2>2 DEF PagesInv, Full
<1>10. ASSUME NEW k \in 1 .. Len(v.pages), v.pages[k].st # "bad"
       PROVE  k \in 1 .. Len(w.pages) /\ w.pages[k].val = v.pages[k].val
  <2>1. k \in 1 .. Len(w.pages)
    <3>1. k <= InHand.size
      BY <1>7, <1>10
    <3> QED
      BY <1>1, <1>4, <1>6, <3>1
  <2>2. CASE k \in DirtyIn(v)
    <3>1. DirtyPages(file, b, v, d, NPages)
      BY <1>1 DEF Holds, d
    <3>2. k <= NPages
      BY <1>6, Constants
    <3>3. \E i \in 0 .. d - 1 : file[b + 3 * i + 1] = PageAt(k)
      BY <2>2, <3>1, <3>2 DEF DirtyPages
    <3>4. w.pages[k].st = "dirty"
      BY <1>4, <2>2, <3>3
    <3>5. w.pages[k] # FreshPage
      BY <3>4, FreshIs
    <3>6. w.pages[k] = [val |-> v.pages[k].val, st |-> "dirty"]
      BY <1>4, <2>1, <3>5
    <3> QED
      BY <2>1, <3>6
  <2>3. CASE k \notin DirtyIn(v)
    <3>1. w.pages[k].val = 0
      BY <1>4, <2>1, <2>3, FreshIs
    <3>2. v.pages[k].val = 0
      BY <1>5, <2>3 DEF PagesInv, Full, DirtyIn
    <3> QED
      BY <2>1, <3>1, <3>2
  <2> QED
    BY <2>2, <2>3
<1> QED
  BY <1>8, <1>9, <1>10 DEF Filled

\* All pages of a region are read.
LEMMA AllBack ==
  ASSUME Types, Exact, pc = "r_all", left[2] = 0
  PROVE  /\ pos = End(file, before + 1) /\ PagesInv(at, vm[at]) /\ Filled(vm[at], image.vm[at])
<1> DEFINE b == before + 1
           v == image.vm[at]
           w == vm[at]
           z == InHand.size
<1>1. /\ pc \in Reading /\ HandReadInv /\ before \in Nat /\ Holds(file, b, v) /\ InHand = file[b].n
      /\ z \in Nat /\ ~InHand.dirty_only /\ at \in Users /\ at \in Ids
  BY HandIs
<1>2. AllReadInv
  BY DEF Exact
<1>3. page = z + 1 /\ pos = b + 2 * (page - 1)
  <2>1. page + left[2] = z + 1 /\ page \in Nat /\ pos = b + 2 * (page - 1)
    BY <1>2, TypesAre DEF AllReadInv
  <2> HIDE DEF z
  <2> QED
    BY <1>1, <2>1
<1>4. Len(w.pages) = z /\ \A k \in 1 .. z : w.pages[k] = [val |-> v.pages[k].val, st |-> "dirty"]
  <2>1. /\ Len(w.pages) = z
        /\ \A k \in 1 .. z : w.pages[k] = IF k < page THEN [val |-> v.pages[k].val, st |-> "dirty"]
                                          ELSE FreshPage
    BY <1>2 DEF AllReadInv
  <2> HIDE DEF z
  <2>2. \A k \in 1 .. z : k < page
    BY <1>1, <1>3
  <2> QED
    BY <2>1, <2>2
<1>5. /\ z >= 1 /\ \A k \in 1 .. Len(v.pages) : v.pages[k].st # "bad" <=> k <= z
  <2>1. z \in 1 .. Len(v.pages) /\ \A k \in 1 .. Len(v.pages) : v.pages[k].st # "bad" <=> k <= z
    BY <1>1 DEF Holds
  <2> QED
    BY <1>1, <2>1
<1>6. pos = End(file, b)
  <2>1. End(file, b) = b + 2 * z
    BY <1>1 DEF End
  <2> HIDE DEF z
  <2> QED
    BY <1>1, <1>3, <2>1
<1> HIDE DEF z
<1>7. PagesInv(at, w)
  <2>1. w.here /\ ~w.marked /\ w.kind = KindOf[at] /\ Len(w.pages) >= 1
    BY <1>1, <1>4, <1>5 DEF HandReadInv
  <2>2. ASSUME NEW k \in 1 .. Len(w.pages) PROVE w.pages[k].st = "dirty"
    <3> DEFINE x == [val |-> v.pages[k].val, st |-> "dirty"]
    <3>1. x.st = "dirty"
      OBVIOUS
    <3>2. w.pages[k] = x
      BY <1>4
    <3> HIDE DEF x
    <3> QED
      BY <3>1, <3>2
  <2>3. 1 \in 1 .. Len(w.pages)
    BY <1>1, <1>4, <1>5
  <2> QED
    BY <2>1, <2>2, <2>3 DEF PagesInv, Full
<1>8. ASSUME NEW k \in 1 .. Len(v.pages), v.pages[k].st # "bad"
      PROVE  k \in 1 .. Len(w.pages) /\ w.pages[k].val = v.pages[k].val
  <2>1. k \in 1 .. z
    <3>1. k <= z
      BY <1>5, <1>8
    <3> QED
      BY <1>1, <3>1
  <2> DEFINE x == [val |-> v.pages[k].val, st |-> "dirty"]
  <2>2. x.val = v.pages[k].val
    OBVIOUS
  <2>3. w.pages[k] = x
    BY <1>4, <2>1
  <2> HIDE DEF x
  <2> QED
    BY <1>4, <2>1, <2>2, <2>3
<1> QED
  BY <1>6, <1>7, <1>8 DEF Filled

LEMMA RefreshExact ==
  ASSUME Types, Exact, ckpt_vm_refresh_region
  PROVE  Exact'
<1> DEFINE f == file
           b == before + 1
           v == image.vm[at]
           x == file[before + 1].n.prot
           w == [vm[at] EXCEPT !.prot = x]
<1>1. /\ pc \in {"r_dirty", "r_all"} /\ left[2] = 0 /\ pc' = "r_entry"
      /\ UNCHANGED <<file, pos, at, before, left, image>> /\ vm' = [vm EXCEPT ![at] = w] /\ x \in Prots
  BY RefreshIs, SomeStruct
<1>2. /\ pc \in Reading /\ ReadInv /\ before \in Nat /\ before >= 1 /\ RegionAt(f, before - 1)
      /\ IsStruct(f, b) /\ at \in Users /\ at \in Ids /\ f[b].n.r = at /\ Holds(f, b, v)
      /\ \A p : IsStruct(f, p) /\ f[p].n.r = at => p = b
  BY <1>1, HandIs
<1>3. pos = End(f, b) /\ PagesInv(at, vm[at]) /\ Filled(vm[at], v)
  BY <1>1, DirtyBack, AllBack
<1>4. /\ b \in Nat /\ pos \in Nat /\ pos >= b /\ pos <= Len(f) - 2 /\ Len(f) \in Nat
      /\ RegionAt(f, pos) \/ ContextAt(f, pos)
  <2>1. End(f, b) \in Nat /\ End(f, b) >= b /\ End(f, b) <= Len(f) - 2
        /\ (RegionAt(f, End(f, b)) \/ ContextAt(f, End(f, b)))
    BY <1>2, ImageStruct
  <2> QED
    BY <1>2, <1>3, <2>1, TypesAre
<1>5. NoStruct(f, b, pos)
  <2>1. OnlyPages(f, b, pos)
    BY <1>2, <1>3 DEF Holds
  <2> QED
    BY <2>1 DEF OnlyPages, NoStruct, IsStruct
<1>6. NoStruct(f, before - 1, before)
  <2>1. f[before - 1 + 1] = Tag("region") /\ before - 1 + 1 = before
    BY <1>2 DEF RegionAt
  <2>2. ~IsStruct(f, before)
    BY <2>1, UnitsAre DEF IsStruct
  <2>3. \A p \in before - 1 + 1 .. before : p = before
    BY <1>2
  <2> QED
    BY <2>2, <2>3 DEF NoStruct
\* Every struct so far is one of before or the one in hand.
<1>7. ASSUME NEW p \in 1 .. pos, IsStruct(f, p)
      PROVE  p = b \/ (p \in 1 .. before - 1 /\ f[p].n.r # at)
  <2>1. ~(p \in b + 1 .. pos)
    BY <1>5, <1>7 DEF NoStruct
  <2>2. p # before
    <3>1. before \in before - 1 + 1 .. before
      BY <1>2
    <3> QED
      BY <1>6, <1>7, <3>1 DEF NoStruct
  <2>3. p = b \/ p \in 1 .. before - 1
    BY <1>2, <1>4, <2>1, <2>2
  <2>4. p \in 1 .. before - 1 => p # b
    BY <1>2
  <2> QED
    BY <1>2, <1>7, <2>3, <2>4
<1>8. RFront = before - 1 /\ Ahead = RegionsIn(f, b, Len(f))
  BY <1>1 DEF RFront, Ahead
<1>9. /\ image # NoImage /\ f = image.file /\ left[1] = Cardinality(Ahead) + 1
      /\ \A p \in 1 .. before - 1 : IsStruct(f, p) => Back(f[p].n.r, vm[f[p].n.r], image.vm[f[p].n.r])
      /\ \A r \in Users : r \notin RegionsIn(f, 0, before - 1) => vm[r] = Untouched(r) \/ r = at
  BY <1>1, <1>2, <1>8 DEF ReadInv
<1>10. RFront' = pos /\ Ahead' = RegionsIn(f, pos, Len(f))
  BY <1>1 DEF RFront, Ahead
<1>11. RegionsIn(f, b, Len(f)) = RegionsIn(f, pos, Len(f))
  BY <1>4, <1>5, NoStructAhead
<1>12. /\ w \in Regions /\ w.pages = vm[at].pages /\ w.here = vm[at].here /\ w.marked = vm[at].marked
       /\ w.kind = vm[at].kind /\ w.prot = x /\ vm \in [Ids -> Regions]
  <2>1. vm \in [Ids -> Regions] /\ vm[at] \in Regions
    BY TypesAre
  <2> HIDE DEF x
  <2> QED
    BY <1>1, <2>1, NewProt
<1> HIDE DEF w
<1>13. vm'[at] = w /\ \A q \in Ids : q # at => vm'[q] = vm[q]
  BY <1>1, <1>2, <1>12, OneRegion
<1>14. Back(at, w, v)
  <2>1. PagesInv(at, w)
    BY <1>3, <1>12 DEF PagesInv, Full
  <2>2. x = v.prot
    BY <1>2 DEF Holds
  <2> QED
    BY <1>3, <1>12, <2>1, <2>2 DEF Back, Filled
<1>15. ReadInv'
  <2>1. ASSUME NEW p \in 1 .. pos, IsStruct(f, p)
        PROVE  Back(f[p].n.r, vm'[f[p].n.r], image.vm[f[p].n.r])
    <3>1. CASE p = b
      BY <1>2, <1>13, <1>14, <3>1
    <3>2. CASE p \in 1 .. before - 1 /\ f[p].n.r # at
      <4>1. f[p].n.r \in Ids
        BY <1>2, <2>1, ImageStruct, Constants
      <4>2. vm'[f[p].n.r] = vm[f[p].n.r]
        BY <1>13, <3>2, <4>1
      <4> QED
        BY <1>9, <2>1, <3>2, <4>2
    <3> QED
      BY <1>7, <2>1, <3>1, <3>2
  <2>2. ASSUME NEW r \in Users, r \notin RegionsIn(f, 0, pos)
        PROVE  vm'[r] = Untouched(r)
    <3>1. \A p \in 0 + 1 .. pos : ~(IsStruct(f, p) /\ f[p].n.r = r)
      BY <2>2 DEF RegionsIn
    <3>2. b \in 0 + 1 .. pos /\ \A p \in 0 + 1 .. before - 1 : p \in 0 + 1 .. pos
      BY <1>2, <1>4
    <3>3. r # at
      BY <1>2, <3>1, <3>2
    <3>4. r \notin RegionsIn(f, 0, before - 1)
      BY <3>1, <3>2 DEF RegionsIn
    <3>5. r \in Ids
      BY Constants
    <3> QED
      BY <1>9, <1>13, <2>2, <3>3, <3>4, <3>5
  <2>3. (RegionAt(f, pos) \/ ContextAt(f, pos)) /\ left[1] = Cardinality(Ahead') + 1
    BY <1>4, <1>8, <1>9, <1>10, <1>11
  <2> QED
    BY <1>1, <1>9, <1>10, <2>1, <2>2, <2>3 DEF ReadInv
<1> QED
  BY <1>1, <1>15, ReaderExact DEF Reading

\* When the image is read to its end, every region is as it was saved, or it is
\* one of those that no image has to hold.
LEMMA ResumedIs ==
  ASSUME Benign, Types, Exact, pc = "resumed", NEW r \in Users
  PROVE  \/ Back(r, vm[r], image.vm[r]) /\ image.vm[r].here
         \/ /\ vm[r] = Absent /\ KindOf[r] \in {"dyld", "skipped"}
            /\ ~Holding(r, image.vm[r])
<1> DEFINE f == file
           v == image.vm[r]
<1>1. /\ ReadInv /\ RegionsIn(f, 0, Len(f)) = SavedIn(image.vm) /\ v \in Regions
      /\ PagesInv(r, v) /\ ProtInv(r, v)
  BY ReaderIs, Constants DEF Reading
<1>2. pos = Len(f) /\ RFront = Len(f)
  BY <1>1 DEF ReadInv, RFront
<1>3. CASE r \in RegionsIn(f, 0, Len(f))
  <2>1. PICK p \in 0 + 1 .. Len(f) : IsStruct(f, p) /\ f[p].n.r = r
    BY <1>3 DEF RegionsIn
  <2>2. p \in 1 .. RFront
    BY <1>2, <2>1
  <2>3. v.here
    BY <1>1, <1>3 DEF SavedIn, Holding
  <2> QED
    BY <1>1, <2>1, <2>2, <2>3 DEF ReadInv
<1>4. CASE r \notin RegionsIn(f, 0, Len(f))
  <2>0. vm[r] = Untouched(r) /\ ~Holding(r, v)
    BY <1>1, <1>2, <1>4 DEF ReadInv, SavedIn
  <2>1. \/ KindOf[r] = "cache" /\ DirtyIn(v) = {} /\ Full(r, v)
        \/ KindOf[r] \in {"dyld", "skipped"}
    BY <1>1, <2>0, Constants DEF Holding, PagesInv, Full, Kinds
  <2>2. CASE KindOf[r] = "cache" /\ DirtyIn(v) = {} /\ Full(r, v)
    <3>1. vm[r] = Region("cache")
      BY <2>0, <2>2 DEF Untouched
    <3>2. v.prot = "rw"
      BY <1>1, <2>2, TameIs DEF ProtInv
    <3>3. /\ \A k \in 1 .. Len(v.pages) : v.pages[k].val = 0
          /\ Len(v.pages) \in Nat /\ Len(v.pages) <= NPages
      <4>1. \A k \in 1 .. Len(v.pages) : v.pages[k].st # "dirty"
        BY <2>2 DEF DirtyIn
      <4>2. \A k \in 1 .. Len(v.pages) : v.pages[k].val = 0
        BY <2>2, <4>1 DEF Full
      <4>3. Len(v.pages) \in 0 .. NPages
        BY <1>1, SomeRegion
      <4> QED
        BY <4>2, <4>3, Constants
    <3> DEFINE w == Region("cache")
    <3>4. /\ w.here /\ ~w.marked /\ w.kind = "cache" /\ w.prot = "rw" /\ Len(w.pages) = NPages
          /\ \A k \in 1 .. NPages : w.pages[k] = FreshPage
      BY RegionIs DEF Kinds
    <3> HIDE DEF w
    <3>5. PagesInv(r, w)
      BY <2>2, <3>4, Constants, FreshIs DEF PagesInv, Full
    <3>6. \A k \in 1 .. Len(v.pages) : k \in 1 .. Len(w.pages) /\ w.pages[k].val = 0
      BY <3>3, <3>4, Constants, FreshIs
    <3>7. Back(r, w, v)
      BY <3>2, <3>3, <3>4, <3>5, <3>6 DEF Back
    <3>8. v.here
      BY <2>2 DEF Full
    <3> QED
      BY <3>1, <3>7, <3>8 DEF w
  <2>3. CASE KindOf[r] \in {"dyld", "skipped"}
    BY <2>0, <2>3 DEF Untouched
  <2> QED
    BY <2>1, <2>2, <2>3
<1> QED
  BY <1>3, <1>4

LEMMA ResumeExact ==
  ASSUME Benign, Types, Exact, xnd_setcontext
  PROVE  Exact'
<1>1. pc = "resumed" /\ pc' = "run" /\ UNCHANGED <<vm, image>>
  BY DEF xnd_setcontext
<1>2. \A r \in Users : PagesInv(r, vm[r]) /\ ProtInv(r, vm[r])
  <2> SUFFICES ASSUME NEW r \in Users PROVE PagesInv(r, vm[r]) /\ ProtInv(r, vm[r])
    OBVIOUS
  <2>1. CASE Back(r, vm[r], image.vm[r])
    <3>1. ProtInv(r, image.vm[r])
      BY <1>1, ReaderIs DEF Reading
    <3> QED
      BY <2>1, <3>1 DEF Back, ProtInv
  <2>2. CASE vm[r] = Absent /\ KindOf[r] \in {"dyld", "skipped"}
    BY <2>2 DEF Absent, PagesInv, ProtInv
  <2> QED
    BY <1>1, <2>1, <2>2, ResumedIs
<1>3. image # NoImage => GoodImage(image.file, image.vm)
  BY DEF Exact
<1> QED
  BY <1>1, <1>2, <1>3, RunExact

LEMMA ExactHolds == Init => Exact
<1> SUFFICES ASSUME Init PROVE Exact
  OBVIOUS
<1>1. /\ pc = "run" /\ image = NoImage
      /\ vm = [r \in Ids |-> IF r = Own THEN Absent ELSE Region(KindOf[r])]
  BY DEF Init
<1>2. ASSUME NEW r \in Users PROVE PagesInv(r, vm[r]) /\ ProtInv(r, vm[r])
  <2>1. r \in Ids /\ r # Own /\ KindOf[r] \in Kinds
    BY Constants
  <2> DEFINE w == Region(KindOf[r])
  <2>2. vm[r] = w
    BY <1>1, <2>1
  <2>3. /\ w.here /\ ~w.marked /\ w.kind = KindOf[r] /\ w.prot = "rw" /\ Len(w.pages) = NPages
        /\ \A k \in 1 .. NPages : w.pages[k] = FreshPage
    BY <2>1, RegionIs
  <2> HIDE DEF w
  <2>4. \A k \in 1 .. Len(w.pages) : w.pages[k].st = "clean" /\ w.pages[k].val = 0
    BY <2>3, FreshIs
  <2>5. 1 \in 1 .. Len(w.pages) /\ Len(w.pages) >= 1
    BY <2>3, Constants
  <2> QED
    BY <2>2, <2>3, <2>4, <2>5 DEF PagesInv, Full, ProtInv
<1> QED
  BY <1>1, <1>2 DEF Exact, MemInv, Writing, InRegion, Reading

LEMMA ExactStutters == Exact /\ UNCHANGED vars => Exact'
<1> SUFFICES ASSUME Exact, UNCHANGED vars PROVE Exact'
  OBVIOUS
<1>1. UNCHANGED <<pc, vm, file, pos, list, at, page, before, left, image>>
  BY DEF vars, fileVars, loopVars
<1>2. UNCHANGED <<Front, ToDo, InHand, RFront, Ahead>>
  BY <1>1 DEF Front, ToDo, InHand, RFront, Ahead
<1>3. MemInv => MemInv'
  BY <1>1 DEF MemInv
<1>4. WriteInv => WriteInv'
  BY <1>1, <1>2 DEF WriteInv
<1>5. HandInv => HandInv'
  BY <1>1, <1>2 DEF HandInv
<1>6. DirtyInv => DirtyInv'
  BY <1>1, <1>2 DEF DirtyInv
<1>7. AllInv => AllInv'
  BY <1>1, <1>2 DEF AllInv
<1>8. ReadInv => ReadInv'
  BY <1>1, <1>2 DEF ReadInv
<1>9. HandReadInv => HandReadInv'
  BY <1>1, <1>2 DEF HandReadInv
<1>10. DirtyReadInv => DirtyReadInv'
  BY <1>1, <1>2 DEF DirtyReadInv
<1>11. AllReadInv => AllReadInv'
  BY <1>1, <1>2 DEF AllReadInv
<1> QED
  BY <1>1, <1>3, <1>4, <1>5, <1>6, <1>7, <1>8, <1>9, <1>10, <1>11 DEF Exact

LEMMA ExactKept ==
  ASSUME Benign
  PROVE  Types /\ OwnInv /\ Exact /\ [Next]_vars => Exact'
<1> SUFFICES ASSUME Types, OwnInv, Exact, [Next]_vars PROVE Exact'
  OBVIOUS
<1>1. CASE UNCHANGED vars
  BY <1>1, ExactStutters
<1>2. ASSUME NEW r \in Users, Protects(r) PROVE Exact'
  <2>1. 1 \in PageNo
    BY Constants
  <2> QED
    BY <1>2, <2>1, ProgramExact
<1>3. ASSUME NEW r \in Users, NEW k \in PageNo, Touch(r, k) \/ Truncate(r, k) \/ PageOut(r, k)
      PROVE  Exact'
  BY <1>3, ProgramExact
<1>4. CASE xnd_checkpoint \/ write_entry \/ write_vm_region \/ write_vm_region_dirty
           \/ write_vm_region_all_pages \/ write_vm_region_fix
  BY <1>4, CheckpointExact, EntryExact, WriteRegionExact, DirtyExact, AllExact, FixExact
<1>5. CASE restart \/ read_entry \/ ckpt_vm_restore_region \/ ckpt_vm_refresh_region
           \/ read_region_page \/ ckpt_vm_page_restore \/ xnd_setcontext
  BY <1>5, RestartExact, ReadEntryExact, RestoreRegionExact, RefreshExact, ReadAllExact,
     ReadDirtyExact, ResumeExact
<1>6. CASE xnd_abort
  BY <1>6 DEF xnd_abort, Exact, MemInv, Writing, InRegion, Reading
<1> QED
  BY <1>1, <1>2, <1>3, <1>4, <1>5, <1>6 DEF Next, Protects, Asked

\* The files and the memory of every run, if marking works, the disk has room
\* and the program does not do what Tame excludes.
LEMMA ExactAlways ==
  ASSUME Benign
  PROVE  Spec => [](Types /\ Exact)
<1>1. Init => Types /\ OwnInv /\ Exact
  BY TypesHold, OwnHolds, ExactHolds
<1>2. Types /\ OwnInv /\ Exact /\ [Next]_vars => (Types /\ OwnInv /\ Exact)'
  <2>1. ~MarkFails
    BY DEF Benign
  <2> QED
    BY <2>1, TypesKept, OwnKept, ExactKept
<1> QED
  BY <1>1, <1>2, PTL DEF Spec

-----------------------------------------------------------------------------
(* The protections *)

\* What the program asked for is what its regions have, but for the one that is
\* being copied, whose struct has it; it is in the image, and comes from there.
AskedInv ==
  /\ pc \in {"run"} \cup Writing => \A r \in Users : vm[r].here =>
       vm[r].prot = asked[r] \/ (pc \in {"all", "fix"} /\ r = at)
  /\ pc \in {"all", "fix"} => InHand.prot = asked[at]
  /\ \A r \in Users : image.vm[r].here => image.vm[r].prot = image.asked[r]
  /\ pc \in Reading => asked = image.asked

LEMMA AskedHolds == Init => AskedInv
<1> SUFFICES ASSUME Init PROVE AskedInv
  OBVIOUS
<1>1. \A r \in Users : vm[r].prot = asked[r] /\ ~image.vm[r].here
  BY Constants DEF Init, Region, NoImage, Absent, Writable
<1> QED
  BY <1>1 DEF Init, AskedInv, Reading

\* Steps of the program.
LEMMA ProgramAsked ==
  ASSUME Benign, Types, AskedType, Exact, AskedInv, NEW r \in Users, NEW k \in PageNo,
         Touch(r, k) \/ Truncate(r, k) \/ PageOut(r, k) \/ Protects(r)
  PROVE  AskedInv'
<1>1. pc = "run" /\ pc' = "run" /\ UNCHANGED image
  BY DEF Touch, Truncate, PageOut, Protects, Mprotect
<1>2. vm[r] \in Regions /\ r \in Ids /\ vm \in [Ids -> Regions] /\ Users \subseteq Ids
  BY TypesAre, Constants
<1>3. \A q \in Users : vm[q].here => vm[q].prot = asked[q]
  BY <1>1 DEF AskedInv
<1>4. \A q \in Users : vm'[q].here => vm'[q].prot = asked'[q]
  <2>1. CASE Protects(r)
    <3>1. PICK p \in Asked : /\ Mprotect(r, p) /\ p \in Prots
                             /\ vm' = [vm EXCEPT ![r] = [vm[r] EXCEPT !.prot = p]]
      BY <2>1, MprotectIs
    <3> DEFINE w == [vm[r] EXCEPT !.prot = p]
    <3>2. w \in Regions /\ w.prot = p
      BY <1>2, <3>1, NewProt
    <3>3. vm' = [vm EXCEPT ![r] = w] /\ asked' = [asked EXCEPT ![r] = p]
      BY <3>1 DEF Mprotect
    <3> HIDE DEF w
    <3> QED
      BY <1>2, <1>3, <3>2, <3>3, OneRegion DEF AskedType
  <2>2. CASE Touch(r, k) \/ Truncate(r, k) \/ PageOut(r, k)
    <3>1. PICK s \in PageSeq : vm' = [vm EXCEPT ![r] = [vm[r] EXCEPT !.pages = s]]
      BY <2>2, ProgramPages
    <3> DEFINE w == [vm[r] EXCEPT !.pages = s]
    <3>2. w \in Regions /\ w.prot = vm[r].prot /\ w.here = vm[r].here
      BY <1>2, NewPages
    <3>3. vm' = [vm EXCEPT ![r] = w] /\ asked' = asked
      BY <2>2, <3>1 DEF Touch, Truncate, PageOut
    <3> HIDE DEF w
    <3> QED
      BY <1>2, <1>3, <3>2, <3>3, OneRegion
  <2> QED
    BY <2>1, <2>2
<1> QED
  BY <1>1, <1>4 DEF AskedInv, Reading

\* The struct of a region is written, and the region made readable.
LEMMA WriteRegionAsked ==
  ASSUME Benign, Types, Exact, AskedInv, write_vm_region
  PROVE  AskedInv'
<1> DEFINE n == Len(vm[at].pages)
           d == Cardinality(Dirty(at))
           dirty_only == vm[at].kind \in {"malloc", "cache"} /\ 3 * d < 2 * n + 1
           s == Struct(at, n, dirty_only)
<1>1. pc = "region" /\ pc \in Writing /\ pc # "entry" /\ UNCHANGED <<asked, image>>
  BY DEF write_vm_region, Writing
<1>2. /\ at \in Users /\ at \in Ids /\ vm[at] \in Regions /\ vm \in [Ids -> Regions]
      /\ n \in Nat /\ n <= NPages /\ Len(file) = pos /\ pos \in Nat /\ vm[at].here
  BY <1>1, RegionFits, WriterIs, TypesAre, Constants DEF SavedIn, Holding
<1>3. \A r \in Users : vm[r].here => vm[r].prot = asked[r]
  BY <1>1 DEF AskedInv, Writing
<1>4. s \in Units /\ s.n.prot = vm[at].prot
  <2>1. n \in 0 .. NPages /\ dirty_only \in BOOLEAN
    BY <1>2
  <2> HIDE DEF n, dirty_only
  <2> QED
    BY <1>2, <2>1, StructIs
<1> DEFINE us == <<s>>
<1>5. us \in Seq(Units) /\ Len(us) = 1 /\ us[1] = s
  BY <1>4
<1>6. \/ pc' = "run" /\ UNCHANGED vm
      \/ /\ Fit(pos, us) = 1 /\ file' = Written(pos, us)
         /\ pc' \in {"dirty", "all"} /\ before' = pos /\ at' = at
         /\ \/ vm' = vm
            \/ pc' = "all" /\ vm' = [vm EXCEPT ![at] = [vm[at] EXCEPT !.prot = "r"]]
  <2> HIDE DEF n
  <2> QED
    BY WriteRegionIs DEF n
<1> HIDE DEF us, s
<1>7. CASE pc' = "run" /\ UNCHANGED vm
  BY <1>1, <1>3, <1>7 DEF AskedInv, Reading
<1>8. CASE /\ Fit(pos, us) = 1 /\ file' = Written(pos, us)
           /\ pc' \in {"dirty", "all"} /\ before' = pos /\ at' = at
           /\ \/ vm' = vm
              \/ pc' = "all" /\ vm' = [vm EXCEPT ![at] = [vm[at] EXCEPT !.prot = "r"]]
  <2>1. file'[pos + 1] = s
    <3>1. \A j \in 1 .. 1 : file'[pos + j] = us[j]
      BY <1>1, <1>2, <1>5, <1>8, Appended
    <3> QED
      BY <1>5, <3>1
  <2>2. InHand'.prot = asked'[at']
    BY <1>1, <1>2, <1>3, <1>4, <1>8, <2>1 DEF InHand
  <2>3. \A r \in Users : r # at => vm'[r] = vm[r]
    BY <1>2, <1>8, Constants
  <2>4. pc' = "dirty" => vm' = vm
    BY <1>8
  <2> QED
    BY <1>1, <1>3, <1>8, <2>2, <2>3, <2>4 DEF AskedInv, Reading
<1> QED
  BY <1>6, <1>7, <1>8

\* A page of a region that is written as a whole.
LEMMA AllAsked ==
  ASSUME Benign, Types, Exact, AskedInv, write_vm_region_all_pages
  PROVE  AskedInv'
<1>1. /\ pc = "all" /\ pc \in Writing /\ pc \in InRegion /\ pc # "entry" /\ pc' \in {"all", "fix"}
      /\ UNCHANGED <<vm, asked, at, before, image>>
  BY DEF write_vm_region_all_pages, Writing, InRegion
<1>2. /\ IsStruct(file, before + 1) /\ file \in Seq(Units) /\ Len(file) = pos /\ before \in Nat
  BY <1>1, InRegionIs, WriterIs, TypesAre
<1>3. before + 1 \in 1 .. pos
  BY <1>2, StructAt
<1>4. PICK units \in Seq(Units) : file' = Written(pos, units)
  <2>1. CASE file' = Written(pos, <<>>)
    <3> DEFINE none == <<>>
    <3>1. none \in Seq(Units) /\ file' = Written(pos, none)
      BY <2>1
    <3> HIDE DEF none
    <3> QED
      BY <3>1
  <2>2. CASE /\ page \in 1 .. Len(vm[at].pages)
             /\ file' = Written(pos, Data(vm[at].pages[page].val))
    <3>1. vm[at].pages[page].val \in -1 .. MaxWrites
      BY <2>2, TypesAre, SomeRegion
    <3> QED
      BY <2>2, <3>1, UnitsAre
  <2> QED
    BY <2>1, <2>2, AllStepIs
<1>5. file'[before + 1] = file[before + 1]
  BY <1>1, <1>2, <1>3, <1>4, Appended
<1>6. InHand' = InHand
  BY <1>1, <1>5 DEF InHand
<1> QED
  BY <1>1, <1>6 DEF AskedInv, Writing, Reading

\* When the process goes on, what it asked for came with the image.
LEMMA ResumeAsked ==
  ASSUME Benign, Types, Exact, AskedInv, xnd_setcontext
  PROVE  AskedInv'
<1>1. pc = "resumed" /\ pc' = "run" /\ UNCHANGED <<vm, asked, image>> /\ asked = image.asked
  BY DEF xnd_setcontext, AskedInv, Reading
<1>2. ASSUME NEW r \in Users, vm[r].here PROVE vm[r].prot = asked[r]
  <2>1. vm[r] # Absent
    BY <1>2 DEF Absent
  <2>2. Back(r, vm[r], image.vm[r]) /\ image.vm[r].here
    BY <1>1, <2>1, ResumedIs
  <2> QED
    BY <1>1, <2>2 DEF Back, AskedInv
<1> QED
  BY <1>1, <1>2 DEF AskedInv, Reading

LEMMA AskedKept ==
  ASSUME Benign
  PROVE  Types /\ AskedType /\ Exact /\ AskedInv /\ [Next]_vars => AskedInv'
<1> SUFFICES ASSUME Types, AskedType, Exact, AskedInv, [Next]_vars PROVE AskedInv'
  OBVIOUS
<1>1. CASE UNCHANGED vars
  BY <1>1 DEF vars, fileVars, loopVars, AskedInv, InHand
<1>2. ASSUME NEW r \in Users, Protects(r) PROVE AskedInv'
  <2>1. 1 \in PageNo
    BY Constants
  <2> QED
    BY <1>2, <2>1, ProgramAsked
<1>3. ASSUME NEW r \in Users, NEW k \in PageNo, Touch(r, k) \/ Truncate(r, k) \/ PageOut(r, k)
      PROVE  AskedInv'
  BY <1>3, ProgramAsked
<1>4. CASE xnd_checkpoint \/ write_vm_region_dirty
  <2>1. /\ pc \in {"run", "dirty"} /\ pc' \in {"run", "entry", "dirty"}
        /\ UNCHANGED <<vm, asked, image>>
    BY <1>4 DEF xnd_checkpoint, write_vm_region_dirty, Bad
  <2> QED
    BY <2>1 DEF AskedInv, Writing, Reading
<1>5. CASE write_entry
  <2>1. /\ pc = "entry" /\ pc' \in {"run", "region"} /\ UNCHANGED <<vm, asked>>
        /\ UNCHANGED image \/ (image'.vm = vm /\ image'.asked = asked)
    BY <1>5 DEF write_entry, Bad
  <2> QED
    BY <2>1 DEF AskedInv, Writing, Reading
<1>6. CASE write_vm_region \/ write_vm_region_all_pages
  BY <1>6, WriteRegionAsked, AllAsked
<1>7. CASE write_vm_region_fix
  <2>1. pc = "fix" /\ pc' = "entry" /\ UNCHANGED <<asked, image>>
    BY <1>7 DEF write_vm_region_fix
  <2>2. /\ \A r \in Users : r # at => vm'[r] = vm[r]
        /\ at \in Users /\ vm'[at].prot = InHand.prot
    BY <1>7, FixExact
  <2> QED
    BY <2>1, <2>2 DEF AskedInv, Writing, Reading
<1>8. CASE \/ restart \/ read_entry \/ ckpt_vm_restore_region \/ ckpt_vm_refresh_region
           \/ read_region_page \/ ckpt_vm_page_restore \/ xnd_abort
  <2>1. /\ UNCHANGED image
        /\ pc' \in Reading => asked' = image.asked
        /\ pc' \in Reading \cup {"failed", "aborted"}
    BY <1>8 DEF restart, read_entry, ckpt_vm_restore_region, ckpt_vm_refresh_region, ReadFails,
       read_region_page, ckpt_vm_page_restore, xnd_abort, Reading, AskedInv
  <2> QED
    BY <2>1 DEF AskedInv, Writing, Reading
<1>9. CASE xnd_setcontext
  BY <1>9, ResumeAsked
<1> QED
  BY <1>1, <1>2, <1>3, <1>4, <1>5, <1>6, <1>7, <1>8, <1>9 DEF Next, Protects, Asked

\* write_vm_region gives back the protection it took from a region for the
\* time of the copy, and ckpt_vm_refresh_region gives a restored one what it
\* had: after a checkpoint, complete or not, and after a restart every region
\* has the protection the program asked for last.
THEOREM ProtectionsAreKept ==
  ASSUME Benign
  PROVE  Spec => []ProtectionsKept
<1>1. Init => AskedType /\ AskedInv
  BY AskedTypeHolds, AskedHolds
<1>2. /\ Types /\ Exact /\ AskedType /\ AskedInv /\ [Next]_vars => (AskedType /\ AskedInv)'
  BY AskedTypeKept, AskedKept
<1>3. AskedInv => ProtectionsKept
  BY DEF AskedInv, ProtectionsKept
<1> QED
  BY <1>1, <1>2, <1>3, ExactAlways, PTL DEF Spec

\* An image that write_ckpt took for complete is read by read_ckpt to its
\* context, entry by entry and page by page, without an error.
THEOREM ImagesAreReadable ==
  ASSUME Benign
  PROVE  Spec => []ImageReadable
<1>1. Exact => ImageReadable
  BY DEF Exact, ImageReadable
<1> QED
  BY <1>1, ExactAlways, PTL

\* What xnd_restart_internal has made of the address space when it sets the
\* context is the memory at the checkpoint, as far as ckpt_vm_valid_region
\* saves it: every such region has its protection and every page that could be
\* read its content, whether the region was written as a whole, by its dirty
\* pages, in part, or, the shared cache, not at all.
THEOREM MemoryIsRestored ==
  ASSUME Benign
  PROVE  Spec => []RestoredExactly
<1>1. Types /\ Exact => RestoredExactly
  <2> SUFFICES ASSUME Types, Exact, pc = "resumed", NEW r \in Users, Returns(r)
               PROVE  /\ vm[r].prot = image.vm[r].prot
                      /\ \A k \in DOMAIN image.vm[r].pages : image.vm[r].pages[k].st # "bad" =>
                           k \in DOMAIN vm[r].pages /\ vm[r].pages[k].val = image.vm[r].pages[k].val
    BY DEF RestoredExactly
  <2>1. vm[r] \in Regions /\ image.vm[r] \in Regions /\ PagesInv(r, image.vm[r])
    BY TypesAre, ReaderIs, Constants DEF Reading
  <2>2. /\ DOMAIN vm[r].pages = 1 .. Len(vm[r].pages)
        /\ DOMAIN image.vm[r].pages = 1 .. Len(image.vm[r].pages)
    BY <2>1, SomeRegion
  <2>3. Holding(r, image.vm[r]) \/ KindOf[r] \notin {"dyld", "skipped"}
    <3>1. Full(r, image.vm[r])
      BY <2>1 DEF Returns, PagesInv
    <3>2. \A k \in 1 .. Len(image.vm[r].pages) : KindOf[r] = "dyld" /\ image.vm[r].pages[k].val # 0 =>
            image.vm[r].pages[k].st = "dirty"
      BY <3>1 DEF Full
    <3> QED
      BY <2>2, <3>1, <3>2 DEF Returns, Full, Holding, DirtyIn
  <2>4. Back(r, vm[r], image.vm[r])
    BY <2>3, ResumedIs
  <2> QED
    BY <2>2, <2>4 DEF Back
<1> QED
  BY <1>1, ExactAlways, PTL
=============================================================================
