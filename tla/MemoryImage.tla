----------------------------- MODULE MemoryImage -----------------------------
(***************************************************************************)
(* The image of one process: what of its memory is written, how, and what  *)
(* xnd_restart_internal makes of it (vm_checkpoint.c, writeckpt.c,         *)
(* readckpt.c, vm_restore.c, xnd_restart_internal.c).                      *)
(*                                                                         *)
(* The address space is a few regions of a few pages; the content of a     *)
(* page is the number of times it was written, 0 being what a fresh        *)
(* mapping or the shared cache holds.  The file is a sequence of units: a  *)
(* header, entry tags, region and page structs are one unit each, the data *)
(* of a page two, so that a full disk can cut a page in half.              *)
(*                                                                         *)
(* Not all memory is saved: the kind of a region stands for its user_tag   *)
(* and address, as far as ckpt_vm_valid_region tells them apart.           *)
(***************************************************************************)
EXTENDS Integers, Sequences, FiniteSets

CONSTANTS
  KindOf,      \* the kind of each user region, a sequence over Kinds
  NPages,      \* pages in a region
  MaxWrites,   \* how many page writes the program makes
  Restarts,    \* how often it is restarted
  Caps,        \* file sizes at which the disk can be full
  Faults,      \* what else can happen to each region: sets of FaultKinds
  MarkFails    \* mach_vm_inherit or mach_vm_behavior_set can fail

Kinds == {"plain",    \* saved always: mapped files, stacks, other malloc zones
          "malloc",   \* saved always, if shorter only its dirty pages
          "cache",    \* of the shared cache: saved if dirty, its dirty pages
          "dyld",     \* of the dynamic loader: saved if resident and dirty
          "skipped"}  \* never saved: tags REALLOC, GUARD, SHARED_PMAP and
                      \* UNSHARED_PMAP, UBC after the shared cache, no access at all

FaultKinds == {"truncate",   \* a mapped file is truncated to one page or more
               "empty",      \* ... to nothing
               "protect",    \* the program changes the protection of a region
               "seal",       \* ... for good: the maximum loses write access
               "pageout",    \* the kernel compresses a page
               "efault"}     \* a page of the shared cache is not accessible

Users  == 1 .. Len(KindOf)
Own    == 0                  \* the regions of xnd_restart_internal
Ids    == Users \cup {Own}
PageNo == 1 .. NPages

ASSUME ConstantsAssumption ==
  /\ KindOf \in Seq(Kinds)
  /\ NPages \in Nat \ {0}
  /\ MaxWrites \in Nat /\ Restarts \in Nat
  /\ Caps \subseteq Nat
  /\ Faults \in [Users -> SUBSET FaultKinds]
  /\ MarkFails \in BOOLEAN

VARIABLES
  pc,      \* what the process is doing
  vm,      \* its address space, by region
  asked,   \* history: the protection the program gave each region last
  writes,  \* how many page writes were made
  gen,     \* how often the process was restarted
  \* --- the file being written or read ---
  file, pos, cap,
  \* --- the loop over the regions and over the pages of one ---
  list,    \* the regions to write
  at,      \* the region in hand
  page,    \* its next page
  before,  \* where its struct was written
  left,    \* entries, or pages, still to read
  \* --- history ---
  image    \* the last file that write_ckpt said was complete, the memory, asked

fileVars == <<file, pos, cap>>
loopVars == <<list, at, page, before, left>>
vars == <<pc, vm, asked, writes, gen, fileVars, loopVars, image>>

FreshPage == [val |-> 0, st |-> "clean"]

Kind(r) == IF r = Own THEN "plain" ELSE KindOf[r]

Region(kind) == [here |-> TRUE, kind |-> kind, marked |-> FALSE, prot |-> "rw",
                 pages |-> [k \in PageNo |-> FreshPage]]

Absent == [here |-> FALSE, kind |-> "plain", marked |-> FALSE, prot |-> "rw", pages |-> <<>>]

Writable == [r \in Users |-> "rw"]

NoImage == [file |-> <<>>, vm |-> [r \in Ids |-> Absent], asked |-> Writable]

Init ==
  /\ pc = "run"
  /\ vm = [r \in Ids |-> IF r = Own THEN Absent ELSE Region(KindOf[r])]
  /\ asked = Writable
  /\ writes = 0 /\ gen = 0
  /\ file = <<>> /\ pos = 0 /\ cap \in Caps
  /\ list = {} /\ at = 0 /\ page = 1 /\ before = 0 /\ left = <<0, 0>>
  /\ image = NoImage

-----------------------------------------------------------------------------
(* The program and the kernel                                              *)

\* The program writes a page.
Touch(r, k) ==
  /\ pc = "run" /\ writes < MaxWrites
  /\ vm[r].prot = "rw" /\ k \in DOMAIN vm[r].pages /\ vm[r].pages[k].st # "bad"
  /\ writes' = writes + 1
  /\ vm' = [vm EXCEPT ![r].pages[k] = [val |-> writes + 1, st |-> "dirty"]]
  /\ UNCHANGED <<pc, asked, gen, fileVars, loopVars, image>>

\* The file behind a mapping is truncated; the pages after its end are there
\* but cannot be accessed.
Truncate(r, k) ==
  /\ pc = "run" /\ vm[r].kind = "plain"
  /\ IF k = 1 THEN "empty" \in Faults[r] ELSE "truncate" \in Faults[r]
  /\ k \in DOMAIN vm[r].pages /\ vm[r].pages[k].st # "bad"
  /\ vm' = [vm EXCEPT ![r].pages = [j \in DOMAIN @ |-> IF j < k THEN @[j]
                                                       ELSE [val |-> 0, st |-> "bad"]]]
  /\ UNCHANGED <<pc, asked, writes, gen, fileVars, loopVars, image>>

\* The program changes a protection: "r" and "none" can be taken back, after
\* "sealed" (read access, and no more at most) nothing can.
Mprotect(r, p) ==
  /\ pc = "run" /\ vm[r].here
  /\ vm[r].prot \notin {p, "sealed"}
  /\ IF p = "sealed" THEN "seal" \in Faults[r] ELSE "protect" \in Faults[r]
  /\ vm' = [vm EXCEPT ![r].prot = p]
  /\ asked' = [asked EXCEPT ![r] = p]
  /\ UNCHANGED <<pc, writes, gen, fileVars, loopVars, image>>

\* A page in the compressor is not reported as dirty.
PageOut(r, k) ==
  /\ pc = "run" /\ "pageout" \in Faults[r]
  /\ k \in DOMAIN vm[r].pages /\ vm[r].pages[k].st = "dirty"
  /\ vm' = [vm EXCEPT ![r].pages[k].st = "out"]
  /\ UNCHANGED <<pc, asked, writes, gen, fileVars, loopVars, image>>

-----------------------------------------------------------------------------
(* Writing: xnd_checkpoint, write_ckpt, write_vm_region                    *)

Dirty(r) == {k \in DOMAIN vm[r].pages : vm[r].pages[k].st = "dirty"}

\* Mutant of ckpt_vm_valid_region: the restart program's regions are saved.
ckpt_vm_valid_region_own(r) ==
  /\ vm[r].here /\ vm[r].kind # "skipped"
  /\ vm[r].kind \in {"cache", "dyld"} => Dirty(r) # {}

\* What is worth saving: not a region of the restart program, of the shared
\* cache and the dynamic loader only what was written to (a dirty page is
\* resident: one in the compressor counts as neither), of some tags nothing.
ckpt_vm_valid_region(r) ==
  /\ vm[r].here /\ ~vm[r].marked /\ vm[r].kind # "skipped"
  /\ vm[r].kind \in {"cache", "dyld"} => Dirty(r) # {}

\* ... and the assertion there: what the dynamic loader wrote to is writable.
DyldWritable == \A r \in Users : vm[r].kind = "dyld" /\ Dirty(r) # {} => vm[r].prot # "sealed"

ONLY_SAVE_DIRTY_PAGES(r) == vm[r].kind \in {"malloc", "cache"}

StructSize == 1
PageStruct == 1
PageSize   == 2

Header(n)  == [k |-> "header", n |-> n]
Tag(t)     == [k |-> "tag", n |-> t]
Struct(r, n, dirty_only) ==
  [k |-> "struct", n |-> [r |-> r, size |-> n, prot |-> vm[r].prot,
                          dirty_only |-> dirty_only, dirtied |-> Cardinality(Dirty(r))]]
PageAt(k)  == [k |-> "page", n |-> k]
Data(v)    == <<[k |-> "data", n |-> v], [k |-> "data", n |-> v]>>
Context    == [k |-> "context", n |-> 0]

\* writeall at an offset: as many of the units as the disk has room for.
Fit(p, units) == IF p + Len(units) <= cap THEN Len(units)
                 ELSE IF cap > p THEN cap - p ELSE 0

Written(p, units) ==
  LET n == Fit(p, units)
      m == IF p + n > Len(file) THEN p + n ELSE Len(file)
  IN [j \in 1 .. m |-> IF j > p /\ j <= p + n THEN units[j - p] ELSE file[j]]

writeall(p, units) == file' = Written(p, units) /\ pos' = p + Fit(p, units)

Complete(p, units) == Fit(p, units) = Len(units)

\* The locals of a call that returned.
Forget == /\ file' = <<>> /\ pos' = 0 /\ list' = {}
          /\ at' = 0 /\ page' = 1 /\ before' = 0 /\ left' = <<0, 0>>

\* write_ckpt gives up; the caller does not look at its result and the program
\* goes on.  What was written of the image is not one.
Bad == pc' = "run" /\ Forget

\* ckpt_vm_save_regions, xnd_ckptfile_write_header, and the header.
xnd_checkpoint ==
  /\ pc = "run" /\ DyldWritable
  /\ LET saved == {r \in Ids : ckpt_vm_valid_region(r)}
     IN /\ list' = saved
        /\ file' = <<Header(Cardinality(saved) + 1)>>
  /\ pos' = 1
  /\ pc' = "entry"
  /\ UNCHANGED <<vm, asked, writes, gen, cap, at, page, before, left, image>>

\* ckpt_vm_save_regions when the assertion fails: the process is gone.
xnd_abort ==
  /\ pc = "run" /\ ~DyldWritable
  /\ pc' = "aborted"
  /\ UNCHANGED <<vm, asked, writes, gen, fileVars, loopVars, image>>

\* The next entry of the loop in write_ckpt, the regions in the order of their
\* addresses; the context is the last.
write_entry ==
  /\ pc = "entry"
  /\ LET units == IF list = {} THEN <<Tag("context"), Context>> ELSE <<Tag("region")>>
     IN IF ~Complete(pos, units)
        THEN Bad /\ UNCHANGED image
        ELSE IF list = {}
        THEN /\ image' = [file |-> Written(pos, units), vm |-> vm, asked |-> asked]
             /\ pc' = "run" /\ Forget
        ELSE /\ writeall(pos, units)
             /\ pc' = "region"
             /\ at' \in list /\ (\A r \in list : at' <= r) /\ list' = list \ {at'}
             /\ UNCHANGED <<page, before, left, image>>
  /\ UNCHANGED <<vm, asked, writes, gen, cap>>

\* write_vm_region: dirty pages only, if that is shorter, or all of them; the
\* region is made readable for the time of the copy.
write_vm_region ==
  /\ pc = "region"
  /\ LET n == Len(vm[at].pages)
         d == Cardinality(Dirty(at))
         dirty_only == ONLY_SAVE_DIRTY_PAGES(at)
                       /\ d * (PageStruct + PageSize) < n * PageSize + StructSize
         units == <<Struct(at, n, dirty_only)>>
     IN IF Complete(pos, units)
        THEN /\ writeall(pos, units)
             /\ pc' = IF dirty_only THEN "dirty" ELSE "all"
             /\ page' = 1 /\ before' = pos
             /\ vm' = IF dirty_only \/ vm[at].prot # "none" THEN vm
                      ELSE [vm EXCEPT ![at].prot = "r"]
             /\ UNCHANGED <<list, at, left>>
        ELSE Bad /\ UNCHANGED vm
  /\ UNCHANGED <<asked, writes, gen, cap, image>>

\* Mutant of write_vm_region_dirty: pg->offset is not set.
write_vm_region_dirty_first ==
  /\ pc = "dirty"
  /\ IF page \in DOMAIN vm[at].pages
     THEN /\ page' = page + 1
          /\ IF page \in Dirty(at)
             THEN writeall(pos, <<PageAt(1)>> \o Data(vm[at].pages[page].val))
             ELSE UNCHANGED <<file, pos>>
          /\ UNCHANGED <<pc, list, at, before>>
     ELSE pc' = "entry" /\ UNCHANGED <<file, pos, list, at, page, before>>
  /\ UNCHANGED <<vm, asked, writes, gen, cap, left, image>>

\* write_vm_region_dirty and write_vm_page, one page.  A page without read
\* access cannot be written.
write_vm_region_dirty ==
  /\ pc = "dirty"
  /\ IF page \in DOMAIN vm[at].pages
     THEN LET units == <<PageAt(page)>> \o Data(vm[at].pages[page].val)
          IN IF page \notin Dirty(at)
             THEN page' = page + 1 /\ UNCHANGED <<pc, file, pos, list, at, before, left>>
             ELSE IF vm[at].prot = "none" \/ ~Complete(pos, units)
             THEN Bad
             ELSE /\ writeall(pos, units)
                  /\ page' = page + 1
                  /\ UNCHANGED <<pc, list, at, before, left>>
     ELSE pc' = "entry" /\ UNCHANGED <<file, pos, list, at, page, before, left>>
  /\ UNCHANGED <<vm, asked, writes, gen, cap, image>>

\* write_vm_region_all_pages, one page.  A page that cannot be accessed, or
\* does not fit on the disk, ends the region; after a partial write the offset
\* is moved back, from where the page began, by what was written.
write_vm_region_all_pages ==
  /\ pc = "all"
  /\ LET more  == page \in DOMAIN vm[at].pages
         units == IF more /\ vm[at].pages[page].st # "bad"
                  THEN Data(vm[at].pages[page].val) ELSE <<>>
         n     == Fit(pos, units)
     IN /\ file' = Written(pos, units)
        /\ IF n = PageSize
           THEN pos' = pos + n /\ page' = page + 1 /\ UNCHANGED pc
           ELSE pos' = pos - n /\ pc' = "fix" /\ UNCHANGED page
  /\ UNCHANGED <<vm, asked, writes, gen, cap, list, at, before, left, image>>

\* Mutant of write_vm_region_fix: the struct keeps the size of the region.
write_vm_region_fix_size ==
  /\ pc = "fix"
  /\ vm' = [vm EXCEPT ![at].prot = file[before + 1].n.prot]
  /\ pc' = "entry"
  /\ UNCHANGED <<asked, writes, gen, fileVars, loopVars, image>>

\* Mutant of write_vm_region_fix: the region gets the default protection.
write_vm_region_fix_prot ==
  /\ pc = "fix"
  /\ file' = IF page \in DOMAIN vm[at].pages
             THEN [file EXCEPT ![before + 1].n.size = page - 1] ELSE file
  /\ vm' = IF file[before + 1].n.prot # "none" THEN vm
           ELSE [vm EXCEPT ![at].prot = "rw"]
  /\ pc' = "entry"
  /\ UNCHANGED <<asked, writes, gen, pos, cap, loopVars, image>>

\* The rest of write_vm_region: a region that was cut short gets its size
\* corrected in the file, and the protection is restored, for that size: the
\* pages after it keep what they have ("mixed").
write_vm_region_fix ==
  /\ pc = "fix"
  /\ file' = IF page \in DOMAIN vm[at].pages
             THEN [file EXCEPT ![before + 1].n.size = page - 1] ELSE file
  /\ vm' = IF file[before + 1].n.prot # "none" THEN vm
           ELSE [vm EXCEPT ![at].prot = IF page \in DOMAIN vm[at].pages
                                        THEN "mixed" ELSE "none"]
  /\ pc' = "entry"
  /\ UNCHANGED <<asked, writes, gen, pos, cap, loopVars, image>>

-----------------------------------------------------------------------------
(* Reading: xnd_restart_internal, read_ckpt, ckpt_vm_restore_region        *)

\* main, jump and restart up to the loop of read_ckpt: what is mapped now is
\* marked, so that no later image holds it (a failure is only a warning), and
\* the shared cache is there as it came.
restart ==
  /\ image # NoImage /\ gen < Restarts
  /\ gen' = gen + 1
  /\ \E marked \in IF MarkFails THEN BOOLEAN ELSE {TRUE} :
       vm' = [r \in Ids |-> IF r = Own THEN [Region("plain") EXCEPT !.marked = marked]
                            ELSE IF Kind(r) = "cache" THEN Region("cache") ELSE Absent]
  /\ asked' = image.asked
  /\ file' = image.file /\ pos' = 1
  /\ list' = {} /\ at' = 0 /\ page' = 1 /\ before' = 0
  /\ left' = <<image.file[1].n, 0>>
  /\ pc' = "r_entry"
  /\ UNCHANGED <<writes, cap, image>>

Unit(p) == IF p \in DOMAIN file THEN file[p] ELSE [k |-> "eof", n |-> 0]

\* What a read of a page gets: its content, or a mixture.
PageRead(p) == IF Unit(p + 1) = Unit(p + 2) /\ Unit(p + 1).k = "data" THEN Unit(p + 1).n
               ELSE -1

ReadFails == pc' = "failed" /\ UNCHANGED <<vm, pos, at, page, left>>

\* The next entry: a region, the context, or nothing that is known.
read_entry ==
  /\ pc = "r_entry"
  /\ \/ /\ left[1] = 0
        /\ pc' = "resumed"
        /\ UNCHANGED <<vm, pos, at, page, left>>
     \/ /\ left[1] > 0 /\ Unit(pos + 1) = Tag("region")
        /\ pc' = "r_region" /\ pos' = pos + 1 /\ left' = <<left[1] - 1, 0>>
        /\ UNCHANGED <<vm, at, page>>
     \/ /\ left[1] > 0 /\ Unit(pos + 1) = Tag("context") /\ Unit(pos + 2) = Context
        /\ pos' = pos + 2 /\ left' = <<left[1] - 1, 0>>
        /\ UNCHANGED <<pc, vm, at, page>>
     \/ /\ left[1] > 0 /\ Unit(pos + 1) # Tag("region")
        /\ Unit(pos + 1) # Tag("context") \/ Unit(pos + 2) # Context
        /\ ReadFails
  /\ UNCHANGED <<asked, writes, gen, file, cap, list, before, image>>

\* Mutant of ckpt_vm_restore_region: one page too many is mapped.
ckpt_vm_restore_region_long ==
  /\ pc = "r_region"
  /\ LET s == Unit(pos + 1).n
         fresh == [Region(Kind(s.r)) EXCEPT !.pages = [k \in 1 .. s.size + 1 |-> FreshPage]]
     IN /\ pc' = IF s.dirty_only THEN "r_dirty" ELSE "r_all"
        /\ vm' = [vm EXCEPT ![s.r] = fresh]
        /\ at' = s.r /\ page' = 1 /\ pos' = pos + 1
        /\ left' = <<left[1], IF s.dirty_only THEN s.dirtied ELSE s.size>>
        /\ before' = pos
  /\ UNCHANGED <<asked, writes, gen, file, cap, list, image>>

\* read_vm_region, ckpt_vm_restore_region: the struct, then a fresh mapping,
\* which cannot be empty, or access to the region of the shared cache.
ckpt_vm_restore_region ==
  /\ pc = "r_region"
  /\ LET u == Unit(pos + 1)
         s == u.n
         fresh == [Region(Kind(s.r)) EXCEPT !.pages = [k \in 1 .. s.size |-> FreshPage]]
     IN IF u.k # "struct" \/ (u.k = "struct" /\ s.size = 0) THEN ReadFails /\ UNCHANGED before
        ELSE /\ pc' = IF s.dirty_only THEN "r_dirty" ELSE "r_all"
             /\ vm' = IF s.dirty_only /\ Kind(s.r) = "cache" THEN vm
                      ELSE [vm EXCEPT ![s.r] = fresh]
             /\ at' = s.r /\ page' = 1 /\ pos' = pos + 1
             /\ left' = <<left[1], IF s.dirty_only THEN s.dirtied ELSE s.size>>
             /\ before' = pos
  /\ UNCHANGED <<asked, writes, gen, file, cap, list, image>>

\* The protections the region was saved with (ckpt_vm_refresh_region, or
\* ckpt_vm_protect in the shared cache).
ckpt_vm_refresh_region ==
  /\ pc \in {"r_dirty", "r_all"} /\ left[2] = 0
  /\ vm' = [vm EXCEPT ![at].prot = Unit(before + 1).n.prot]
  /\ pc' = "r_entry"
  /\ UNCHANGED <<asked, writes, gen, fileVars, loopVars, image>>

\* One page of a region that was saved as a whole.
read_region_page ==
  /\ pc = "r_all" /\ left[2] > 0
  /\ IF Unit(pos + PageSize).k = "eof" THEN ReadFails
     ELSE /\ vm' = [vm EXCEPT ![at].pages[page] = [val |-> PageRead(pos), st |-> "dirty"]]
          /\ pos' = pos + PageSize /\ page' = page + 1
          /\ left' = <<left[1], left[2] - 1>>
          /\ UNCHANGED <<pc, at>>
  /\ UNCHANGED <<asked, writes, gen, file, cap, list, before, image>>

\* ckpt_vm_restore_pages, ckpt_vm_page_restore: a page struct and its page.
\* If the page is not accessible it is mapped, with an assertion that it is
\* where the region starts.
ckpt_vm_page_restore ==
  /\ pc = "r_dirty" /\ left[2] > 0
  /\ LET u == Unit(pos + 1)
     IN IF u.k # "page" \/ Unit(pos + 3).k = "eof" THEN ReadFails
        ELSE \/ /\ vm' = [vm EXCEPT ![at].pages[u.n] = [val |-> PageRead(pos + 1), st |-> "dirty"]]
                /\ pos' = pos + PageStruct + PageSize
                /\ left' = <<left[1], left[2] - 1>>
                /\ UNCHANGED <<pc, at, page>>
             \/ /\ Kind(at) = "cache" /\ "efault" \in Faults[at] /\ u.n # 1
                /\ ReadFails
  /\ UNCHANGED <<asked, writes, gen, file, cap, list, before, image>>

xnd_setcontext ==
  /\ pc = "resumed"
  /\ pc' = "run"
  /\ Forget
  /\ UNCHANGED <<vm, asked, writes, gen, cap, image>>

-----------------------------------------------------------------------------

Next ==
  \/ \E r \in Users, p \in {"rw", "r", "none", "sealed"} : Mprotect(r, p)
  \/ \E r \in Users, k \in PageNo : Touch(r, k) \/ Truncate(r, k) \/ PageOut(r, k)
  \/ xnd_checkpoint
  \/ xnd_abort
  \/ write_entry
  \/ write_vm_region
  \/ write_vm_region_dirty
  \/ write_vm_region_all_pages
  \/ write_vm_region_fix
  \/ restart
  \/ read_entry
  \/ ckpt_vm_restore_region
  \/ ckpt_vm_refresh_region
  \/ read_region_page
  \/ ckpt_vm_page_restore
  \/ xnd_setcontext

Spec == Init /\ [][Next]_vars

-----------------------------------------------------------------------------
(* Properties                                                              *)

TypeOK ==
  /\ pc \in {"run", "entry", "region", "dirty", "all", "fix", "r_entry",
             "r_region", "r_dirty", "r_all", "resumed", "failed", "aborted"}
  /\ \A r \in Ids :
       /\ vm[r].here \in BOOLEAN /\ vm[r].marked \in BOOLEAN
       /\ vm[r].kind \in Kinds /\ vm[r].prot \in {"rw", "r", "none", "sealed", "mixed"}
       /\ DOMAIN vm[r].pages \subseteq PageNo
       /\ \A k \in DOMAIN vm[r].pages :
            /\ vm[r].pages[k].val \in -1 .. MaxWrites
            /\ vm[r].pages[k].st \in {"clean", "dirty", "out", "bad"}
  /\ asked \in [Users -> {"rw", "r", "none", "sealed"}]
  /\ writes \in 0 .. MaxWrites /\ gen \in 0 .. Restarts
  /\ pos \in 0 .. Len(file) /\ cap \in Caps
  /\ at \in Ids /\ page \in 1 .. NPages + 1 /\ before \in Nat

\* The memory that is to come back: what the code never saves is not, nor what
\* of the dynamic loader the process did not write to.
Returns(r) ==
  /\ image.vm[r].here /\ image.vm[r].kind # "skipped"
  /\ image.vm[r].kind = "dyld" =>
       \E k \in DOMAIN image.vm[r].pages : image.vm[r].pages[k].val # 0

\* When the context is restored, every page that is to come back, and that the
\* program could read at the checkpoint, has the content it had, and every such
\* region its protection: the dirty pages that were written, at their offsets,
\* together with what a fresh mapping or the shared cache holds, make up the
\* memory that was saved.
RestoredExactly ==
  pc = "resumed" => \A r \in Users : Returns(r) =>
    /\ vm[r].prot = image.vm[r].prot
    /\ \A k \in DOMAIN image.vm[r].pages : image.vm[r].pages[k].st # "bad" =>
         k \in DOMAIN vm[r].pages /\ vm[r].pages[k].val = image.vm[r].pages[k].val

\* An image that write_ckpt reported as complete can be read to its end.
ImageReadable == pc # "failed"

\* No image holds a region of the program that restored the process before.
OnlyUserRegions ==
  \A j \in DOMAIN image.file : image.file[j].k = "struct" => image.file[j].n.r \in Users

\* The process goes on, after a checkpoint that was made or given up and after a
\* restart, with every region protected as the program asked last (at the
\* checkpoint that was restored): write_vm_region takes back the read access it
\* gave itself for the copy, and ckpt_vm_refresh_region repeats what was saved.
ProtectionsKept == pc = "run" => \A r \in Users : vm[r].here => vm[r].prot = asked[r]
=============================================================================
