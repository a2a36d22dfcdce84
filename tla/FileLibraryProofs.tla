---------------------------- MODULE FileLibraryProofs ----------------------------
(***************************************************************************)
(* Proofs about FileLibrary, for any finite sets of paths and any number   *)
(* of operations and crashes.                                              *)
(*                                                                         *)
(* The invariant says of every step that an operation still has to make    *)
(* that it fits what the steps before it leave (JobInv): nothing is moved  *)
(* or written onto a document, and nothing dropped from the trash, unless  *)
(* it was given up or is kept elsewhere.  Each operation is shown to begin *)
(* with steps that fit, and each step to leave the rest fitting; a crash   *)
(* drops what is left.  TrashInv follows the files of the trash and the    *)
(* items of its manifest to where the remaining steps bring them.          *)
(***************************************************************************)
EXTENDS FileLibrary, FiniteSetTheorems, TLAPS

\* The types of what the variables hold; a backup is what a rename replaced.
Backup == [path : Paths, backup : Contents]

ReceiptType ==
    [op : {"create", "import", "duplicate", "rename", "remove"}, id : Nat,
     before : Paths \cup {None}, after : Paths \cup {None}, entry : Entry \cup {None},
     repaired : Seq(Backup), undone : BOOLEAN,
     then : [files : [Paths -> Contents \cup {None}], docs : SUBSET Entry]]

StepType ==
    ({"move"} \X Paths \X Paths) \cup ({"store"} \X Paths) \cup ({"fetch"} \X Nat \X Paths)
    \cup ({"write"} \X Paths \X Contents) \cup ({"drop"} \X Nat)
    \cup {<<"unlist">>} \cup ({"list"} \X SUBSET Item)
    \cup ({"cut", "keep"} \X SUBSET Entry)
    \cup ({"receipt"} \X ReceiptType) \cup ({"undone"} \X Nat)

\* Entries of ds were given out and have an id each.
Distinct(ds) == /\ ds \subseteq Entries
                /\ \A d, e \in ds : d.id = e.id => d = e

\* Items were trashed, as files with ids of T, and have an id each.
Trashed(m, T) ==
    /\ \A t \in m : t.id \in T /\ t.path \in Paths /\ (t.entry = None \/ t.entry \in Entries)
    /\ \A t, u \in m : t.id = u.id => t = u

\* What an undo relies on: which paths a receipt names, and that a rename replaced
\* nothing at the path that its undo comes back to, and nothing twice.
Sensible(r) ==
    /\ r.op \in {"create", "import", "duplicate"} => r.after \in Paths /\ r.repaired = <<>>
    /\ r.op = "remove" => /\ r.before \in Paths /\ r.repaired = <<>>
                          /\ r.entry \in Entries /\ r.entry.id = r.id
    /\ r.op = "rename" =>
          /\ r.before \in Paths /\ r.after \in Paths /\ r.before # r.after
          /\ \A i, j \in DOMAIN r.repaired : r.repaired[i].path = r.repaired[j].path => i = j
          /\ \A i \in DOMAIN r.repaired : r.repaired[i].path # r.before
                                          /\ r.repaired[i].backup.what <= made

TypeInv ==
    /\ files \in [Paths -> Contents \cup {None}]
    /\ stored \in Seq(Contents \cup {None})
    /\ manifest = Missing \/ manifest \in SUBSET Item
    /\ docs = Missing \/ docs \in SUBSET Entry
    /\ registry = Missing \/ registry \in SUBSET Entry
    /\ receipts \in Seq(ReceiptType)
    /\ job \in [ids : SUBSET Nat, trash : SUBSET Nat, steps : Seq(StepType)]
    /\ owner \in Seq(Nat) /\ made \in Nat
    /\ latest \in 0 .. Len(receipts)
    /\ job.steps = <<>> => job = Idle
    /\ docs = Missing => job = Idle
    /\ baks \in [Paths -> Contents \cup {None}]
    /\ aside \in BOOLEAN /\ (aside => NextWrites)
    /\ hidden \subseteq DOMAIN stored

\* The step at place i of ss, before it the steps that come first: what it needs
\* to find so that no bytes are lost and every list stays in order.
File(ss, p) == IF ss[1][1] = "move" THEN Moved(files, ss[1][2], ss[1][3])[p] ELSE files[p]

FreeFor(c, g) == c = None \/ c.what \in g

MoveFits(ss, i) ==
    ss[i][1] = "move" =>
        /\ ss[i][2] # ss[i][3]
        /\ FreeFor(files[ss[i][3]], gone)
        /\ \A j \in 1 .. i - 1 : ss[j][1] = "write" /\ ss[j][2] # ss[i][3]

WriteFits(ss, i) ==
    ss[i][1] = "write" =>
        /\ ss[i][3].what <= made + 1
        /\ FreeFor(File(ss, ss[i][2]), gone \cup {ss[i][3].what})
        /\ \A j \in 1 .. i - 1 : \/ ss[j][1] = "write" /\ ss[j][2] # ss[i][2]
                                 \/ ss[j][1] = "move" /\ j = 1

StoreFits(ss, i) ==
    ss[i][1] = "store" => i = 1 /\ files[ss[i][2]] # None

FetchFits(ss, i) ==
    ss[i][1] = "fetch" =>
        /\ i = 1 /\ ss[i][2] \in DOMAIN stored /\ stored[ss[i][2]] # None
        /\ files[ss[i][3]] = None

DropFits(ss, i) ==
    ss[i][1] = "drop" =>
        /\ ss[i][2] \in DOMAIN stored
        /\ \A j \in 1 .. i - 1 : ss[j][1] \in {"drop", "fetch"}
        /\ \/ FreeFor(stored[ss[i][2]], gone)
           \/ i = 1 /\ \E p \in Paths : files[p] # None /\ files[p].what = stored[ss[i][2]].what
           \/ i = 2 /\ ss[1][1] = "fetch" /\ ss[1][2] = ss[i][2]

\* The trash id that a pending store gives out.
Storing(ss) == IF ss # <<>> /\ ss[1][1] = "store" THEN {Len(stored) + 1} ELSE {}

ListFits(ss, i) ==
    /\ ss[i][1] = "unlist" => i + 1 \in DOMAIN ss /\ ss[i + 1][1] = "list"
    /\ ss[i][1] = "list" => /\ Trashed(ss[i][2], DOMAIN stored \cup Storing(ss))
                            /\ \A j \in DOMAIN ss : ss[j][1] = "list" => j = i
                            /\ \A j \in i .. Len(ss) : ss[j][1] \notin {"unlist", "store", "drop"}

RegistryFits(ss, i) ==
    /\ ss[i][1] \in {"cut", "keep"} => Distinct(ss[i][2])
    /\ ss[i][1] = "receipt" => Sensible(ss[i][2])
    /\ ss[i][1] = "undone" => ss[i][2] \in DOMAIN receipts

Fits(ss, i) ==
    /\ MoveFits(ss, i) /\ WriteFits(ss, i)
    /\ StoreFits(ss, i) /\ FetchFits(ss, i) /\ DropFits(ss, i)
    /\ ListFits(ss, i) /\ RegistryFits(ss, i)

JobInv == \A i \in DOMAIN job.steps : Fits(job.steps, i)

\* What is on disk, and what the receipts say.
DiskInv ==
    /\ Distinct(Open)
    /\ registry # Missing => Distinct(registry)
    /\ Trashed(Listed, DOMAIN stored)
    /\ \A i \in DOMAIN receipts : Sensible(receipts[i])
    /\ \A p \in Paths : files[p] # None => files[p].what <= made
    /\ \A t \in DOMAIN stored : stored[t] # None => stored[t].what <= made

\* Trash id t will have its file, and will be listed, once the steps ss are done.
WillStay(ss, t) ==
    \/ t \in Storing(ss)
    \/ /\ t \in DOMAIN stored /\ stored[t] # None
       /\ \A i \in DOMAIN ss : ss[i][1] = "drop" => ss[i][2] # t

WillBeListed(ss, t) ==
    \/ \E i \in DOMAIN ss : ss[i][1] = "list" /\ \E l \in ss[i][2] : l.id = t
    \/ /\ \A i \in DOMAIN ss : ss[i][1] # "list"
       /\ \E l \in Listed : l.id = t

\* Trash id t is in the trash and listed, or neither; one that a crash hid is not listed.
Whole(t) ==
    /\ t \notin hidden => (stored[t] # None <=> \E l \in Listed : l.id = t)
    /\ t \in hidden => stored[t] # None /\ ~ \E l \in Listed : l.id = t

\* It will be so once the steps ss are done.
Coming(ss, t) ==
    /\ t \notin hidden => (WillStay(ss, t) <=> WillBeListed(ss, t))
    /\ t \in hidden => WillStay(ss, t) /\ ~WillBeListed(ss, t)

\* The steps ss complete the trash, and give out and take away only files of trash.
TrashFits(trash, ss) ==
    /\ Storing(ss) \subseteq trash
    /\ \A i \in DOMAIN ss : ss[i][1] = "drop" => ss[i][2] \in trash
    /\ \A t \in (DOMAIN stored \cup Storing(ss)) \ torn : Coming(ss, t)

\* The trash is complete but for the files of the operation under way, unless that has set
\* the manifest aside and not yet written it anew.
TrashInv ==
    /\ TrashFits(job.trash, job.steps)
    /\ \/ manifest = Missing /\ job.steps # <<>> /\ job.steps[1][1] = "list"
       \/ \A t \in DOMAIN stored \ (torn \cup job.trash) :
             Whole(t)

IInv == TypeInv /\ JobInv /\ DiskInv /\ TrashInv

\* A finite set, as a sequence without repetition.
LEMMA SeqOfSet ==
    ASSUME NEW S, IsFiniteSet(S)
    PROVE  /\ SetToSeq(S) \in Seq(S)
           /\ \A i, j \in DOMAIN SetToSeq(S) : SetToSeq(S)[i] = SetToSeq(S)[j] => i = j
<1>1. PICK f : f \in Bijection(1 .. Cardinality(S), S)
  BY FS_CardinalityType DEF ExistsBijection
<1>2. f \in [1 .. Cardinality(S) -> S] /\ IsInjective(f) /\ Cardinality(S) \in Nat
  BY <1>1, FS_CardinalityType DEF Bijection, Injection
<1>3. SetToSeq(S) \in [1 .. Cardinality(S) -> S] /\ IsInjective(SetToSeq(S))
  BY <1>2 DEF SetToSeq
<1> QED
  BY <1>2, <1>3 DEF IsInjective

\* It has all of the set.
LEMMA SeqCovers ==
    ASSUME NEW S, IsFiniteSet(S), NEW x \in S
    PROVE  \E i \in DOMAIN SetToSeq(S) : SetToSeq(S)[i] = x
<1>1. PICK f : f \in Bijection(1 .. Cardinality(S), S)
  BY FS_CardinalityType DEF ExistsBijection
<1>2. f \in [1 .. Cardinality(S) -> S] /\ IsInjective(f) /\ Cardinality(S) \in Nat
  BY <1>1, FS_CardinalityType DEF Bijection, Injection
<1>3. PICK n \in Nat : n = Cardinality(S)
  BY <1>2
<1>4. PICK s : s = SetToSeq(S)
  OBVIOUS
<1>5. s \in [1 .. n -> S] /\ IsInjective(s)
  BY <1>2, <1>3, <1>4 DEF SetToSeq
<1>6. s \in Injection(1 .. n, S)
  BY <1>5 DEF Injection, IsInjective
<1>7. IsFiniteSet(1 .. n) /\ Cardinality(1 .. n) = n
  BY FS_Interval
<1>8. s \in Surjection(1 .. n, S)
  BY <1>3, <1>6, <1>7, FS_Injection
<1> QED
  BY <1>4, <1>8 DEF Surjection

\* The paths of a workspace are finitely many.
LEMMA FinitePaths == \A S \in SUBSET Paths : IsFiniteSet(S)
<1>1. IsFiniteSet(Paths)
  BY LibraryConstants, FS_Union DEF LibraryConstants, Paths, Inside
<1> QED
  BY <1>1, FS_Subset

\* No set of entries or of items is Missing.
LEMMA NotMissing == Missing \notin SUBSET Entry /\ Missing \notin SUBSET Item
BY LibraryConstants DEF LibraryConstants, Missing

\* What a step consists of.
LEMMA StepParts ==
    ASSUME NEW s \in StepType
    PROVE  /\ s[1] \in {"move", "store", "fetch", "write", "drop", "unlist", "list", "cut", "keep",
                        "receipt", "undone"}
           /\ s[1] = "move" => s[2] \in Paths /\ s[3] \in Paths
           /\ s[1] = "store" => s[2] \in Paths
           /\ s[1] = "fetch" => s[2] \in Nat /\ s[3] \in Paths
           /\ s[1] = "write" => s[2] \in Paths /\ s[3] \in Contents
           /\ s[1] = "drop" => s[2] \in Nat
           /\ s[1] = "list" => s[2] \in SUBSET Item
           /\ s[1] \in {"cut", "keep"} => s[2] \in SUBSET Entry
           /\ s[1] = "receipt" => s[2] \in ReceiptType
           /\ s[1] = "undone" => s[2] \in Nat
BY DEF StepType

\* Every step that an operation has is of the type.
LEMMA StepTypes ==
    /\ \A p, q \in Paths : <<"move", p, q>> \in StepType
    /\ \A p \in Paths : <<"store", p>> \in StepType
    /\ \A t \in Nat, p \in Paths : <<"fetch", t, p>> \in StepType
    /\ \A p \in Paths, c \in Contents : <<"write", p, c>> \in StepType
    /\ \A t \in Nat : <<"drop", t>> \in StepType /\ <<"undone", t>> \in StepType
    /\ <<"unlist">> \in StepType
    /\ \A m \in SUBSET Item : <<"list", m>> \in StepType
    /\ \A ds \in SUBSET Entry : <<"cut", ds>> \in StepType /\ <<"keep", ds>> \in StepType
    /\ \A r \in ReceiptType : <<"receipt", r>> \in StepType
BY DEF StepType

\* The entries given out so far.
LEMMA EntriesGiven ==
    ASSUME owner \in Seq(Nat)
    PROVE  \A e : e \in Entries <=> e \in Entry /\ e.id \in 1 .. Len(owner)
BY DEF Entries, Entry

\* What was given out stays given out when more is.
LEMMA DistinctGrows ==
    ASSUME TypeInv, NEW os \in Seq(Nat), owner' = owner \o os
    PROVE  /\ Len(owner') = Len(owner) + Len(os) /\ owner' \in Seq(Nat)
           /\ \A e : e \in Entries => e \in Entries'
           /\ \A ds : Distinct(ds) => Distinct(ds)'
           /\ \A m, T : Trashed(m, T) => Trashed(m, T)'
<1>1. owner \in Seq(Nat)
  BY DEF TypeInv
<1>2. Len(owner') = Len(owner) + Len(os) /\ owner' \in Seq(Nat)
  BY <1>1
<1>3. \A e : e \in Entries => e \in Entries'
  BY <1>1, <1>2 DEF Entries
<1> QED
  BY <1>2, <1>3 DEF Distinct, Trashed

\* What the beginning of an operation changes.
LEMMA BeginFacts ==
    ASSUME TypeInv, NEW ids, NEW trash, NEW ss, Begin(ids, trash, ss)
    PROVE  /\ docs # Missing /\ docs \in SUBSET Entry /\ Open = docs /\ job.steps = <<>>
           /\ job'.steps = ss
           /\ job' = IF ss = <<>> THEN Idle ELSE [ids |-> ids, trash |-> trash, steps |-> ss]
           /\ latest' = 0
           /\ UNCHANGED <<files, stored, manifest, registry, receipts, docs, made>>
           /\ UNCHANGED <<baks, aside, hidden>>
BY DEF Begin, disk, TypeInv, Idle, Open

\* What a step needs, by its kind.
LEMMA FitsByKind ==
    ASSUME NEW ss, NEW i, ss' = ss, i' = i
    PROVE  /\ ss[i][1] = "move" /\ MoveFits(ss, i)' => Fits(ss, i)'
           /\ ss[i][1] = "write" /\ WriteFits(ss, i)' => Fits(ss, i)'
           /\ ss[i][1] = "store" /\ StoreFits(ss, i)' => Fits(ss, i)'
           /\ ss[i][1] = "fetch" /\ FetchFits(ss, i)' => Fits(ss, i)'
           /\ ss[i][1] = "drop" /\ DropFits(ss, i)' => Fits(ss, i)'
           /\ ss[i][1] \in {"list", "unlist"} /\ ListFits(ss, i)' => Fits(ss, i)'
           /\ ss[i][1] \in {"cut", "keep"} /\ Distinct(ss[i][2])' => Fits(ss, i)'
           /\ ss[i][1] = "receipt" /\ Sensible(ss[i][2])' => Fits(ss, i)'
           /\ ss[i][1] = "undone" /\ ss[i][2] \in DOMAIN receipts' => Fits(ss, i)'
BY DEF Fits, MoveFits, WriteFits, StoreFits, FetchFits, DropFits, ListFits, RegistryFits

\* Concatenation of steps.
LEMMA Concatenated ==
    ASSUME NEW a \in Seq(StepType), NEW b \in Seq(StepType)
    PROVE  /\ a \o b \in Seq(StepType) /\ Len(a \o b) = Len(a) + Len(b)
           /\ \A i \in 1 .. Len(a) + Len(b) :
                 (a \o b)[i] = IF i <= Len(a) THEN a[i] ELSE b[i - Len(a)]
           /\ Len(a) \in Nat /\ Len(b) \in Nat
           /\ DOMAIN a = 1 .. Len(a) /\ DOMAIN (a \o b) = 1 .. Len(a) + Len(b)
OBVIOUS

\* A step before others, and a step after them.
LEMMA Before ==
    ASSUME NEW s \in StepType, NEW b \in Seq(StepType), NEW a, a = <<s>> \o b
    PROVE  /\ a \in Seq(StepType) /\ Len(a) = Len(b) + 1 /\ Len(b) \in Nat
           /\ a[1] = s /\ \A i \in 2 .. Len(b) + 1 : a[i] = b[i - 1]
OBVIOUS

\* The same, after them.
LEMMA After ==
    ASSUME NEW s \in StepType, NEW b \in Seq(StepType), NEW a, a = b \o <<s>>
    PROVE  /\ a \in Seq(StepType) /\ Len(a) = Len(b) + 1 /\ Len(b) \in Nat
           /\ a[Len(b) + 1] = s /\ \A i \in 1 .. Len(b) : a[i] = b[i]
OBVIOUS

\* The two writes of workspace.json.
LEMMA SaveRegistryIs ==
    ASSUME NEW ds \in SUBSET Entry
    PROVE  /\ SaveRegistry(ds) \in Seq(StepType) /\ Len(SaveRegistry(ds)) = 2
           /\ SaveRegistry(ds)[1] = <<"cut", ds>> /\ SaveRegistry(ds)[2] = <<"keep", ds>>
BY StepTypes DEF SaveRegistry

\* The write of the manifest, after the one that was there is set aside.
LEMMA SaveManifestIs ==
    ASSUME NEW m \in SUBSET Item
    PROVE  LET ss == SaveManifest(m)
           IN  /\ ss \in Seq(StepType) /\ Len(ss) \in {1, 2}
               /\ ss[Len(ss)] = <<"list", m>>
               /\ Len(ss) = 2 => ss[1] = <<"unlist">>
               /\ manifest # Missing <=> Len(ss) = 2
BY StepTypes DEF SaveManifest

\* Steps that neither touch the files of the trash nor its manifest leave it complete.
LEMMA Untouched ==
    ASSUME IInv, job.steps = <<>>, UNCHANGED <<stored, manifest, torn, hidden>>, NEW trash,
           NEW ss \in Seq(StepType), \A i \in DOMAIN ss : ss[i][1] \notin {"store", "drop", "list"}
    PROVE  TrashFits(trash, ss)'
<1>1. Storing(ss)' = {}
  <2>1. CASE ss = <<>>
    BY <2>1 DEF Storing
  <2>2. CASE ss # <<>>
    <3>1. 1 \in DOMAIN ss
      BY <2>2
    <3> QED
      BY <3>1 DEF Storing
  <2> QED
    BY <2>1, <2>2
<1>2. \A t \in DOMAIN stored \ torn : Whole(t)
  <2>1. job.trash = {}
    BY DEF IInv, TypeInv, Idle
  <2> QED
    BY <2>1 DEF IInv, TrashInv
<1>3. Listed' = Listed
  BY DEF Listed
<1>4. ASSUME NEW t \in DOMAIN stored \ torn
      PROVE  Coming(ss, t)'
  <2>1. WillStay(ss, t)' <=> stored[t] # None
    BY <1>1, <1>4 DEF WillStay
  <2>2. WillBeListed(ss, t)' <=> \E l \in Listed : l.id = t
    BY <1>3 DEF WillBeListed
  <2> QED
    BY <1>2, <1>4, <2>1, <2>2 DEF Whole, Coming
<1> QED
  BY <1>1, <1>4 DEF TrashFits

\* What an operation that begins has to show of its steps.
LEMMA BeginStep ==
    ASSUME IInv, NEW ids \in SUBSET Nat, NEW trash \in SUBSET Nat, NEW ss \in Seq(StepType),
           Begin(ids, trash, ss), NEW os \in Seq(Nat), owner' = owner \o os,
           \A i \in DOMAIN ss : Fits(ss, i)', torn' = torn, TrashFits(trash, ss)'
    PROVE  IInv'
<1>1. /\ docs # Missing /\ docs \in SUBSET Entry /\ job'.steps = ss
      /\ job' = IF ss = <<>> THEN Idle ELSE [ids |-> ids, trash |-> trash, steps |-> ss]
      /\ latest' = 0
      /\ UNCHANGED <<files, stored, manifest, registry, receipts, docs, made>>
      /\ UNCHANGED <<baks, aside, hidden>>
  BY BeginFacts DEF IInv
<1>2. JobInv'
  BY <1>1 DEF JobInv
<1>3. TypeInv'
  <2>1. job' \in [ids : SUBSET Nat, trash : SUBSET Nat, steps : Seq(StepType)]
    BY <1>1 DEF Idle
  <2>2. job'.steps = <<>> => job' = Idle
    BY <1>1
  <2>3. owner' \in Seq(Nat)
    BY DistinctGrows DEF IInv
  <2>4. aside' = FALSE
    BY <1>1, BeginFacts DEF IInv, TypeInv, NextWrites
  <2> QED
    BY <1>1, <2>1, <2>2, <2>3, <2>4 DEF IInv, TypeInv
<1>4. DiskInv'
  <2>1. /\ \A ds : Distinct(ds) => Distinct(ds)'
        /\ \A m, T : Trashed(m, T) => Trashed(m, T)'
        /\ \A e : e \in Entries => e \in Entries'
    BY DistinctGrows DEF IInv
  <2>2. Open' = Open /\ Listed' = Listed
    BY <1>1 DEF Open, Listed
  <2>3. \A r : Sensible(r) => Sensible(r)'
    BY <1>1, <2>1 DEF Sensible
  <2>4. Distinct(Open)' /\ (registry' # Missing => Distinct(registry)')
    BY <1>1, <2>1, <2>2 DEF IInv, DiskInv
  <2>5. Trashed(Listed, DOMAIN stored)'
    BY <1>1, <2>1, <2>2 DEF IInv, DiskInv
  <2> QED
    BY <1>1, <2>3, <2>4, <2>5 DEF IInv, DiskInv
<1>5. TrashInv'
  <2>1. TrashFits(job.trash, job.steps)'
    <3>1. CASE ss = <<>>
      <4>1. job'.steps = <<>> /\ job'.trash = {} /\ TrashFits(trash, <<>>)'
        BY <1>1, <3>1 DEF Idle
      <4>2. Storing(<<>>)' = {} /\ DOMAIN << >> = {}
        BY DEF Storing
      <4> QED
        BY <4>1, <4>2 DEF TrashFits
    <3>2. CASE ss # <<>>
      <4>1. job'.steps = ss /\ job'.trash = trash
        BY <1>1, <3>2
      <4> QED
        BY <4>1
    <3> QED
      BY <3>1, <3>2
  <2>2. \A t \in DOMAIN stored \ torn : Whole(t)
    <3>1. job.trash = {} /\ job.steps = <<>>
      BY BeginFacts DEF IInv, TypeInv, Idle
    <3> QED
      BY <3>1 DEF IInv, TrashInv
  <2>3. Listed' = Listed
    BY <1>1 DEF Listed
  <2>4. \A t \in DOMAIN stored' \ (torn' \cup job'.trash) : Whole(t)'
    BY <1>1, <2>2, <2>3 DEF Whole
  <2> QED
    BY <2>1, <2>4 DEF TrashInv
<1> QED
  BY <1>2, <1>3, <1>4, <1>5 DEF IInv

\* The entries of the workspace with a new one.
LEMMA NewEntry ==
    ASSUME TypeInv, DiskInv, docs # Missing, NEW os \in Seq(Nat), owner' = owner \o os,
           NEW e \in Entry, e.id \in Len(owner) + 1 .. Len(owner) + Len(os),
           NEW ds, ds = docs \cup {e}
    PROVE  Distinct(ds)'
<1>1. /\ owner \in Seq(Nat) /\ owner' \in Seq(Nat) /\ Len(owner') = Len(owner) + Len(os)
      /\ \A d : Distinct(d) => Distinct(d)'
  BY DistinctGrows DEF TypeInv
<1>2. Distinct(docs)
  BY DEF DiskInv, Open
<1>3. \A d \in docs : d.id \in 1 .. Len(owner)
  BY <1>1, <1>2, EntriesGiven DEF Distinct
<1>4. \A x \in docs : x \in Entries' /\ \A y \in docs : x.id = y.id => x = y
  BY <1>1, <1>2, DistinctGrows DEF Distinct
<1>5. e \in Entries'
  BY <1>1 DEF Entries, Entry
<1>6. Len(owner) \in Nat
  BY <1>1
<1> QED
  BY <1>3, <1>4, <1>5, <1>6 DEF Distinct

\* Create, import and duplicate write new bytes where no file is, and then an entry.
LEMMA AddsFits ==
    ASSUME IInv, docs # Missing, NEW p \in Paths, files[p] = None,
           NEW kind \in {"managed", "linked"}, NEW c \in Contents, c.what = made + 1,
           NEW op \in {"create", "import", "duplicate"},
           NEW w \in Nat, owner' = Append(owner, w),
           UNCHANGED <<files, stored, manifest, registry, receipts, docs, made>>,
           NEW ss, ss = Adds(p, kind, c, op)
    PROVE  /\ ss \in Seq(StepType) /\ \A i \in DOMAIN ss : Fits(ss, i)'
           /\ \A i \in DOMAIN ss : ss[i][1] \notin {"store", "drop", "list"}
<1>0. /\ TypeInv /\ DiskInv /\ owner \in Seq(Nat) /\ Len(owner) \in Nat
      /\ docs \in SUBSET Entry /\ made \in Nat
      /\ files \in [Paths -> Contents \cup {None}]
  BY DEF IInv, TypeInv
<1>a. owner' = owner \o <<w>> /\ <<w>> \in Seq(Nat) /\ Len(<<w>>) = 1
  BY <1>0
<1>1. PICK e : e = [id |-> NextId, path |-> p, kind |-> kind]
  OBVIOUS
<1>2. PICK r : r = Receipt(op, NextId, None, p, None, <<>>)
  OBVIOUS
<1>3. e \in Entry /\ e.id = Len(owner) + 1
  BY <1>0, <1>1 DEF Entry, NextId
<1>4. r \in ReceiptType
  BY <1>0, <1>2 DEF Receipt, ReceiptType, NextId
<1>5. r.op \in {"create", "import", "duplicate"} /\ r.after = p /\ r.repaired = <<>>
  BY <1>2 DEF Receipt
<1>6. Sensible(r)'
  BY <1>5 DEF Sensible
<1>7. PICK ds : ds = docs \cup {e}
  OBVIOUS
<1>8. Distinct(ds)' /\ ds \in SUBSET Entry
  <2>1. e.id \in Len(owner) + 1 .. Len(owner) + Len(<<w>>)
    BY <1>0, <1>a, <1>3
  <2>2. Distinct(ds)'
    BY <1>0, <1>a, <1>3, <1>7, <2>1, NewEntry
  <2> QED
    BY <1>0, <1>3, <1>7, <2>2
<1>9. ss = << <<"write", p, c>> >> \o
             (IF At(docs, p) # {} THEN <<>> ELSE SaveRegistry(ds) \o << <<"receipt", r>> >>)
  BY <1>1, <1>2, <1>7 DEF Adds
<1>10. WriteFits(ss, 1)' \/ ss[1] # <<"write", p, c>>
  BY <1>0 DEF WriteFits, File, FreeFor
<1>11. CASE At(docs, p) # {}
  <2>1. ss \in Seq(StepType) /\ Len(ss) = 1 /\ ss[1] = <<"write", p, c>>
    BY <1>9, <1>11, StepTypes
  <2>2. DOMAIN ss = {1} /\ ss[1][1] = "write"
    BY <2>1
  <2>3. Fits(ss, 1)'
    BY <1>10, <2>1, <2>2, FitsByKind
  <2> QED
    BY <2>1, <2>2, <2>3
<1>12. CASE At(docs, p) = {}
  <2>1. /\ ss \in Seq(StepType) /\ Len(ss) = 4 /\ ss[1] = <<"write", p, c>>
        /\ ss[2] = <<"cut", ds>> /\ ss[3] = <<"keep", ds>> /\ ss[4] = <<"receipt", r>>
    <3>1. PICK sr \in Seq(StepType) :
             /\ sr = SaveRegistry(ds) /\ Len(sr) = 2
             /\ sr[1] = <<"cut", ds>> /\ sr[2] = <<"keep", ds>>
      BY <1>8, SaveRegistryIs
    <3>2. <<"write", p, c>> \in StepType /\ <<"receipt", r>> \in StepType
      BY <1>4, StepTypes
    <3>3. ss = << <<"write", p, c>> >> \o (sr \o << <<"receipt", r>> >>)
      BY <1>9, <1>12, <3>1
    <3>4. PICK tl : tl = sr \o << <<"receipt", r>> >>
      OBVIOUS
    <3>5. /\ tl \in Seq(StepType) /\ Len(tl) = 3
          /\ tl[1] = sr[1] /\ tl[2] = sr[2] /\ tl[3] = <<"receipt", r>>
      <4>1. /\ tl \in Seq(StepType) /\ Len(tl) = Len(sr) + 1 /\ tl[Len(sr) + 1] = <<"receipt", r>>
            /\ \A i \in 1 .. Len(sr) : tl[i] = sr[i]
        BY <3>2, <3>4, After
      <4> QED
        BY <3>1, <4>1
    <3>6. ss \in Seq(StepType) /\ Len(ss) = 4 /\ ss[1] = <<"write", p, c>>
      BY <3>2, <3>3, <3>4, <3>5, Before
    <3>7. ss[2] = tl[1] /\ ss[3] = tl[2] /\ ss[4] = tl[3]
      BY <3>2, <3>3, <3>4, <3>5, Before
    <3> QED
      BY <3>1, <3>5, <3>6, <3>7
  <2>2. /\ DOMAIN ss = {1, 2, 3, 4}
        /\ ss[1][1] = "write" /\ ss[2][1] = "cut" /\ ss[2][2] = ds
        /\ ss[3][1] = "keep" /\ ss[3][2] = ds /\ ss[4][1] = "receipt" /\ ss[4][2] = r
    BY <2>1
  <2>3. Fits(ss, 1)'
    BY <1>10, <2>1, <2>2, FitsByKind
  <2>4. Fits(ss, 2)' /\ Fits(ss, 3)' /\ Fits(ss, 4)'
    BY <1>6, <1>8, <2>2, FitsByKind
  <2> QED
    BY <2>1, <2>2, <2>3, <2>4
<1> QED
  BY <1>11, <1>12

\* Create, import and duplicate begin as operations whose steps fit.
LEMMA AddingOps ==
    ASSUME IInv, NEW e, NEW p \in Paths, NEW x \in Paths,
           \/ CreateManagedDocument(p)
           \/ ImportAsManaged(x, p)
           \/ e \in Open /\ DuplicateDocument(e, p)
    PROVE  IInv'
<1>0. /\ TypeInv /\ DiskInv /\ owner \in Seq(Nat) /\ made \in Nat
      /\ files \in [Paths -> Contents \cup {None}] /\ None \notin Contents
  BY LibraryConstants DEF IInv, TypeInv, LibraryConstants
<1>1. PICK kind, c, op :
         /\ files[p] = None /\ docs # Missing
         /\ kind \in {"managed", "linked"} /\ c \in Contents /\ c.what = made + 1
         /\ op \in {"create", "import", "duplicate"}
         /\ Begin({}, {}, Adds(p, kind, c, op))
         /\ owner' = Append(owner, made + 1) /\ torn' = torn
  <2>0. \A c \in Contents : Copied(c) \in Contents /\ Copied(c).what = made + 1
    BY <1>0 DEF Copied, Contents
  <2>1. CASE CreateManagedDocument(p)
    <3>1. PICK c : c = [what |-> made + 1, ref |-> None, direct |-> TRUE]
      OBVIOUS
    <3>2. c \in Contents /\ c.what = made + 1
      BY <1>0, <3>1 DEF Contents
    <3>3. /\ files[p] = None /\ docs # Missing
          /\ Begin({}, {}, Adds(p, "managed", c, "create"))
          /\ owner' = Append(owner, made + 1) /\ torn' = torn
      BY <2>1, <3>1 DEF CreateManagedDocument, Harmless
    <3> QED
      BY <3>2, <3>3
  <2>2. CASE ImportAsManaged(x, p)
    <3>1. files[x] \in Contents
      BY <1>0, <2>2 DEF ImportAsManaged
    <3>2. PICK c \in Contents : c = Copied(files[x]) /\ c.what = made + 1
      BY <2>0, <3>1
    <3>3. /\ files[p] = None /\ docs # Missing
          /\ Begin({}, {}, Adds(p, "managed", c, "import"))
          /\ owner' = Append(owner, made + 1) /\ torn' = torn
      BY <2>2, <3>2 DEF ImportAsManaged, Harmless
    <3> QED
      BY <3>2, <3>3
  <2>3. CASE e \in Open /\ DuplicateDocument(e, p)
    <3>1. docs # Missing /\ e \in Entry
      BY <1>0, <2>3 DEF Open, TypeInv
    <3>2. e.kind \in {"managed", "linked"} /\ files[e.path] \in Contents
      BY <1>0, <2>3, <3>1 DEF DuplicateDocument, Entry
    <3>3. PICK c \in Contents : c = Copied(files[e.path]) /\ c.what = made + 1
      BY <2>0, <3>2
    <3>4. /\ files[p] = None
          /\ Begin({}, {}, Adds(p, e.kind, c, "duplicate"))
          /\ owner' = Append(owner, made + 1) /\ torn' = torn
      BY <2>3, <3>3 DEF DuplicateDocument, Harmless
    <3> QED
      BY <3>1, <3>2, <3>3, <3>4
  <2> QED
    BY <2>1, <2>2, <2>3
<1>4. PICK ss : ss = Adds(p, kind, c, op)
  OBVIOUS
<1>5. Begin({}, {}, ss)
  BY <1>1, <1>4
<1>6. UNCHANGED <<files, stored, manifest, registry, receipts, docs, made>>
  BY <1>0, <1>5, BeginFacts
<1>7. /\ ss \in Seq(StepType) /\ \A i \in DOMAIN ss : Fits(ss, i)'
      /\ \A i \in DOMAIN ss : ss[i][1] \notin {"store", "drop", "list"}
  BY <1>0, <1>1, <1>4, <1>6, AddsFits
<1>8. owner' = owner \o <<made + 1>> /\ <<made + 1>> \in Seq(Nat)
  BY <1>0, <1>1
<1>9. TrashFits({}, ss)'
  BY <1>0, <1>1, <1>5, <1>6, <1>7, BeginFacts, Untouched
<1> QED
  BY <1>1, <1>5, <1>7, <1>8, <1>9, BeginStep

\* Steps that may come last: none of them depends on what comes before it.
Settling(b) ==
    /\ b \in Seq(StepType)
    /\ \A i \in DOMAIN b : b[i][1] \in {"cut", "keep", "receipt", "undone"} /\ RegistryFits(b, i)

\* Steps that fit still do when others that may come last follow.
LEMMA TailFits ==
    ASSUME NEW a \in Seq(StepType), NEW b, Settling(b)', \A i \in DOMAIN a : Fits(a, i)',
           NEW ss, ss = a \o b
    PROVE  ss \in Seq(StepType) /\ \A i \in DOMAIN ss : Fits(ss, i)'
<1>1. b \in Seq(StepType)
  BY DEF Settling
<1>2. /\ ss \in Seq(StepType) /\ DOMAIN ss = 1 .. Len(a) + Len(b)
      /\ \A i \in 1 .. Len(a) + Len(b) : ss[i] = IF i <= Len(a) THEN a[i] ELSE b[i - Len(a)]
      /\ Len(a) \in Nat /\ Len(b) \in Nat /\ DOMAIN a = 1 .. Len(a) /\ DOMAIN b = 1 .. Len(b)
      /\ Len(ss) = Len(a) + Len(b)
  BY <1>1, Concatenated
<1>3. ASSUME NEW i \in DOMAIN ss
      PROVE  Fits(ss, i)'
  <2>1. CASE i <= Len(a)
    <3>0. /\ i \in 1 .. Len(a) /\ i \in Nat /\ Fits(a, i)'
          /\ \A j \in 1 .. i : j \in 1 .. Len(a) /\ ss[j] = a[j]
      BY <1>2, <2>1
    <3>1. ss[1] = a[1] /\ ss # <<>> /\ a # <<>>
      BY <1>2, <3>0
    <3>1a. 1 \in 1 .. i /\ \A j \in 1 .. i - 1 : j \in 1 .. i
      BY <3>0
    <3>2. MoveFits(ss, i)' /\ StoreFits(ss, i)' /\ FetchFits(ss, i)'
      BY <3>0, <3>1, <3>1a DEF Fits, MoveFits, StoreFits, FetchFits
    <3>3. WriteFits(ss, i)'
      <4>1. \A p : File(ss, p)' = File(a, p)'
        BY <3>1 DEF File
      <4> QED
        BY <3>0, <3>1, <3>1a, <4>1 DEF Fits, WriteFits
    <3>4. DropFits(ss, i)'
      BY <3>0, <3>1, <3>1a DEF Fits, DropFits
    <3>5. RegistryFits(ss, i)'
      BY <3>0, <3>1, <3>1a DEF Fits, RegistryFits
    <3>6. ListFits(ss, i)'
      <4>1. Storing(ss)' = Storing(a)'
        BY <3>1 DEF Storing
      <4>2. /\ a[i][1] = "unlist" => i + 1 \in 1 .. Len(a) /\ a[i + 1][1] = "list"
            /\ a[i][1] = "list" =>
                  /\ Trashed(a[i][2], DOMAIN stored \cup Storing(a))'
                  /\ \A j \in 1 .. Len(a) : a[j][1] = "list" => j = i
                  /\ \A j \in i .. Len(a) : a[j][1] \notin {"unlist", "store", "drop"}
        BY <1>2, <3>0 DEF Fits, ListFits
      <4>3. \A j \in DOMAIN ss : /\ j > Len(a) => ss[j][1] \notin {"list", "unlist", "store", "drop"}
                                 /\ j <= Len(a) => j \in 1 .. Len(a) /\ ss[j] = a[j]
        <5>1. ASSUME NEW j \in DOMAIN ss, j > Len(a)
              PROVE  ss[j][1] \notin {"list", "unlist", "store", "drop"}
          <6>1. ss[j] = b[j - Len(a)] /\ j - Len(a) \in DOMAIN b
            BY <1>2, <5>1
          <6> QED
            BY <6>1 DEF Settling
        <5> QED
          BY <1>2, <5>1
      <4>4. a[i][1] = "unlist" => i + 1 \in DOMAIN ss /\ ss[i + 1][1] = "list"
        BY <1>2, <4>2
      <4>5. ASSUME a[i][1] = "list"
            PROVE  /\ Trashed(ss[i][2], DOMAIN stored \cup Storing(ss))'
                   /\ \A j \in DOMAIN ss : ss[j][1] = "list" => j = i
                   /\ \A j \in i .. Len(ss) : ss[j][1] \notin {"unlist", "store", "drop"}
        <5>1. Trashed(ss[i][2], DOMAIN stored \cup Storing(ss))'
          BY <3>0, <4>1, <4>2, <4>5, <3>1a
        <5>2. \A j \in DOMAIN ss : ss[j][1] = "list" => j = i
          BY <1>2, <4>2, <4>3, <4>5
        <5>3. \A j \in i .. Len(ss) : j \in DOMAIN ss /\ (j <= Len(a) => j \in i .. Len(a))
          BY <1>2, <3>0
        <5>4. ASSUME NEW j \in i .. Len(ss)
              PROVE  ss[j][1] \notin {"unlist", "store", "drop"}
          <6>1. CASE j <= Len(a)
            <7>1. j \in i .. Len(a) /\ ss[j] = a[j]
              BY <4>3, <5>3, <6>1
            <7>2. a[j][1] \notin {"unlist", "store", "drop"}
              BY <4>2, <4>5, <7>1
            <7> QED
              BY <7>1, <7>2
          <6>2. CASE j > Len(a)
            BY <4>3, <5>3, <6>2
          <6>3. j <= Len(a) \/ j > Len(a)
            BY <1>2
          <6> QED
            BY <6>1, <6>2, <6>3
        <5> QED
          BY <5>1, <5>2, <5>4
      <4>6. ss[i] = a[i]
        BY <3>0
      <4> QED
        BY <4>4, <4>5, <4>6 DEF ListFits
    <3> QED
      BY <3>2, <3>3, <3>4, <3>5, <3>6 DEF Fits
  <2>2. CASE i > Len(a)
    <3>1. ss[i] = b[i - Len(a)] /\ i - Len(a) \in DOMAIN b
      BY <1>2, <2>2
    <3>2. PICK k \in DOMAIN b : k = i - Len(a)
      BY <3>1
    <3>3. ss[i] = b[k] /\ b[k][1] \in {"cut", "keep", "receipt", "undone"} /\ RegistryFits(b, k)'
      BY <3>1, <3>2 DEF Settling
    <3> QED
      BY <3>3, FitsByKind DEF RegistryFits
  <2> QED
    BY <1>2, <2>1, <2>2
<1> QED
  BY <1>2, <1>3

\* No step at all.
LEMMA NoSteps == <<>> \in Seq(StepType) /\ DOMAIN << >> = {} /\ Settling(<<>>)'
BY DEF Settling

\* Steps that may come last, one after the other.
LEMMA SettlingAppend ==
    ASSUME NEW a, NEW b, Settling(a)', Settling(b)'
    PROVE  Settling(a \o b)'
<1>1. a \in Seq(StepType) /\ b \in Seq(StepType)
  BY DEF Settling
<1>2. PICK ss : ss = a \o b
  OBVIOUS
<1>3. /\ ss \in Seq(StepType) /\ DOMAIN ss = 1 .. Len(a) + Len(b)
      /\ \A i \in 1 .. Len(a) + Len(b) : ss[i] = IF i <= Len(a) THEN a[i] ELSE b[i - Len(a)]
      /\ Len(a) \in Nat /\ Len(b) \in Nat /\ DOMAIN a = 1 .. Len(a) /\ DOMAIN b = 1 .. Len(b)
  BY <1>1, <1>2, Concatenated
<1>4. ASSUME NEW i \in DOMAIN ss
      PROVE  ss[i][1] \in {"cut", "keep", "receipt", "undone"} /\ RegistryFits(ss, i)'
  <2>1. CASE i <= Len(a)
    BY <1>3, <2>1 DEF Settling, RegistryFits
  <2>2. CASE i > Len(a)
    <3>1. PICK k \in DOMAIN b : k = i - Len(a)
      BY <1>3, <2>2
    <3>2. ss[i] = b[k]
      BY <1>3, <2>2, <3>1
    <3> QED
      BY <3>1, <3>2 DEF Settling, RegistryFits
  <2> QED
    BY <1>3, <2>1, <2>2
<1> QED
  BY <1>2, <1>3, <1>4 DEF Settling

\* The two writes of the registry may come last.
LEMMA SettlingRegistry ==
    ASSUME NEW ds \in SUBSET Entry, Distinct(ds)'
    PROVE  Settling(SaveRegistry(ds))'
<1>1. PICK ss \in Seq(StepType) : /\ ss = SaveRegistry(ds) /\ Len(ss) = 2
                                  /\ ss[1] = <<"cut", ds>> /\ ss[2] = <<"keep", ds>>
  BY SaveRegistryIs
<1>2. DOMAIN ss = {1, 2} /\ ss[1][1] = "cut" /\ ss[2][1] = "keep" /\ ss[1][2] = ds /\ ss[2][2] = ds
  BY <1>1
<1>3. Settling(ss)'
  BY <1>2 DEF Settling, RegistryFits
<1>4. SaveRegistry(ds)' = ss
  BY <1>1 DEF SaveRegistry
<1> QED
  BY <1>3, <1>4

\* A receipt may come last.
LEMMA SettlingReceipt ==
    ASSUME NEW r \in ReceiptType, Sensible(r)'
    PROVE  Settling(<< <<"receipt", r>> >>)'
<1>1. PICK ss : ss = << <<"receipt", r>> >>
  OBVIOUS
<1>2. ss \in Seq(StepType) /\ DOMAIN ss = {1} /\ ss[1][1] = "receipt" /\ ss[1][2] = r
  BY <1>1, StepTypes
<1>3. Settling(ss)'
  BY <1>2 DEF Settling, RegistryFits
<1> QED
  BY <1>1, <1>3

\* So may the mark that a receipt was undone.
LEMMA SettlingUndone ==
    ASSUME NEW i \in Nat, i \in DOMAIN receipts'
    PROVE  Settling(<< <<"undone", i>> >>)'
<1>1. PICK ss : ss = << <<"undone", i>> >>
  OBVIOUS
<1>2. ss \in Seq(StepType) /\ DOMAIN ss = {1} /\ ss[1][1] = "undone" /\ ss[1][2] = i
  <2>1. PICK s \in StepType : s = <<"undone", i>>
    BY StepTypes
  <2>2. s[1] = "undone" /\ s[2] = i
    BY <2>1
  <2>3. ss = <<s>>
    BY <1>1, <2>1
  <2> QED
    BY <2>2, <2>3
<1>3. Settling(ss)'
  BY <1>2 DEF Settling, RegistryFits
<1> QED
  BY <1>1, <1>3

\* Steps that may come last leave the trash to those before them.
LEMMA TrashTail ==
    ASSUME NEW a \in Seq(StepType), NEW b, Settling(b)', NEW trash, TrashFits(trash, a)',
           NEW ss, ss = a \o b
    PROVE  TrashFits(trash, ss)'
<1>1. b \in Seq(StepType)
  BY DEF Settling
<1>2. /\ ss \in Seq(StepType) /\ DOMAIN ss = 1 .. Len(a) + Len(b)
      /\ \A i \in 1 .. Len(a) + Len(b) : ss[i] = IF i <= Len(a) THEN a[i] ELSE b[i - Len(a)]
      /\ Len(a) \in Nat /\ Len(b) \in Nat /\ DOMAIN a = 1 .. Len(a) /\ DOMAIN b = 1 .. Len(b)
  BY <1>1, Concatenated
<1>3. \A i \in DOMAIN ss : \/ i \in DOMAIN a /\ ss[i] = a[i]
                           \/ i \notin DOMAIN a /\ ss[i][1] \notin {"store", "drop", "list"}
  <2> SUFFICES ASSUME NEW i \in DOMAIN ss, i \notin DOMAIN a
               PROVE  ss[i][1] \notin {"store", "drop", "list"}
    BY <1>2
  <2>1. PICK k \in DOMAIN b : k = i - Len(a)
    BY <1>2
  <2>2. ss[i] = b[k]
    BY <1>2, <2>1
  <2> QED
    BY <2>1, <2>2 DEF Settling
<1>4. \A i \in DOMAIN a : i \in DOMAIN ss /\ ss[i] = a[i]
  BY <1>2
<1>5. Storing(ss)' = Storing(a)'
  <2>1. CASE a = <<>>
    <3>1. ss # <<>> => 1 \in DOMAIN ss /\ 1 \notin DOMAIN a
      BY <1>2, <2>1
    <3>2. ss # <<>> => ss[1][1] # "store"
      BY <1>3, <3>1
    <3> QED
      BY <2>1, <3>2 DEF Storing
  <2>2. CASE a # <<>>
    <3>1. 1 \in DOMAIN a
      BY <1>2, <2>2
    <3>2. ss # <<>> /\ ss[1] = a[1]
      BY <1>2, <1>4, <3>1
    <3> QED
      BY <2>2, <3>2 DEF Storing
  <2> QED
    BY <2>1, <2>2
<1>6. \A t : WillStay(ss, t)' <=> WillStay(a, t)'
  BY <1>3, <1>4, <1>5 DEF WillStay
<1>7. \A t : WillBeListed(ss, t)' <=> WillBeListed(a, t)'
  BY <1>3, <1>4 DEF WillBeListed
<1>8. \A i \in DOMAIN ss : ss[i][1] = "drop" => ss[i][2] \in trash
  BY <1>3 DEF TrashFits
<1>9. \A t : Coming(ss, t)' <=> Coming(a, t)'
  BY <1>6, <1>7 DEF Coming
<1> QED
  BY <1>5, <1>8, <1>9 DEF TrashFits

\* An operation that has only such steps.
LEMMA SettlingFits ==
    ASSUME IInv, job.steps = <<>>, UNCHANGED <<stored, manifest, torn, hidden>>, NEW trash,
           NEW ss, Settling(ss)'
    PROVE  /\ ss \in Seq(StepType) /\ \A i \in DOMAIN ss : Fits(ss, i)'
           /\ TrashFits(trash, ss)'
<1>1. ss \in Seq(StepType) /\ ss = <<>> \o ss
  BY DEF Settling
<1>2. \A i \in DOMAIN ss : Fits(ss, i)'
  BY <1>1, NoSteps, TailFits
<1>3. \A i \in DOMAIN ss : ss[i][1] \notin {"store", "drop", "list"}
  BY DEF Settling
<1> QED
  BY <1>1, <1>2, <1>3, Untouched

\* A receipt of this operation has its type.
LEMMA ReceiptOk ==
    ASSUME TypeInv, docs # Missing, NEW op \in {"create", "import", "duplicate", "rename", "remove"},
           NEW id \in Nat, NEW before \in Paths \cup {None}, NEW after \in Paths \cup {None},
           NEW entry \in Entry \cup {None}, NEW repaired \in Seq(Backup),
           NEW r, r = Receipt(op, id, before, after, entry, repaired)
    PROVE  /\ r \in ReceiptType /\ r.op = op /\ r.id = id /\ r.before = before /\ r.after = after
           /\ r.entry = entry /\ r.repaired = repaired
BY DEF Receipt, ReceiptType, TypeInv

\* The entries of the workspace, when it is open.
LEMMA OpenEntries ==
    ASSUME IInv, docs # Missing
    PROVE  /\ docs \in SUBSET Entry /\ Open = docs /\ Distinct(docs)
           /\ docs \subseteq Entries
           /\ \A e \in docs : /\ e \in Entries /\ e \in Entry /\ e.id \in Nat /\ e.path \in Paths
                              /\ e.id \in 1 .. Len(owner)
<1>1. docs \in SUBSET Entry /\ Open = docs /\ Distinct(docs) /\ owner \in Seq(Nat)
  BY DEF IInv, TypeInv, DiskInv, Open
<1> QED
  BY <1>1, EntriesGiven DEF Distinct, Entry

\* So does the link of a document outside the workspace.
LEMMA LinkStep ==
    ASSUME IInv, NEW x \in Paths, LinkExternal(x)
    PROVE  IInv'
<1>0. /\ TypeInv /\ DiskInv /\ owner \in Seq(Nat) /\ Len(owner) \in Nat
      /\ files \in [Paths -> Contents \cup {None}] /\ docs # Missing
  BY DEF IInv, TypeInv, LinkExternal
<1>1. PICK e : e = [id |-> NextId, path |-> x, kind |-> "linked"]
  OBVIOUS
<1>2. e \in Entry /\ e.id = Len(owner) + 1
  BY <1>0, <1>1 DEF Entry, NextId
<1>3. PICK w : w = files[x].what
  OBVIOUS
<1>4. w \in Nat
  BY <1>0, <1>3 DEF LinkExternal, Contents
<1>5. owner' = owner \o <<w>> /\ <<w>> \in Seq(Nat) /\ Len(<<w>>) = 1
  BY <1>0, <1>3, <1>4 DEF LinkExternal
<1>6. PICK ds : ds = docs \cup {e}
  OBVIOUS
<1>7. PICK ss : ss = SaveRegistry(ds)
  OBVIOUS
<1>8. Begin({}, {}, ss)
  BY <1>1, <1>6, <1>7 DEF LinkExternal
<1>9. ds \in SUBSET Entry
  BY <1>0, <1>2, <1>6, OpenEntries
<1>10. Distinct(ds)'
  <2>1. e.id \in Len(owner) + 1 .. Len(owner) + Len(<<w>>)
    BY <1>0, <1>2, <1>5
  <2> QED
    BY <1>0, <1>2, <1>5, <1>6, <2>1, NewEntry
<1>11. Settling(ss)'
  <2>1. Settling(SaveRegistry(ds))'
    BY <1>9, <1>10, SettlingRegistry
  <2>2. SaveRegistry(ds)' = ss
    BY <1>7 DEF SaveRegistry
  <2> QED
    BY <2>1, <2>2
<1>12. /\ ss \in Seq(StepType) /\ \A i \in DOMAIN ss : Fits(ss, i)'
       /\ torn' = torn /\ hidden' = hidden /\ TrashFits({}, ss)'
  <2>1. torn' = torn /\ hidden' = hidden
    BY <1>0, <1>8, BeginFacts DEF LinkExternal, Harmless
  <2>2. job.steps = <<>> /\ UNCHANGED <<stored, manifest>>
    BY <1>0, <1>8, BeginFacts
  <2> QED
    BY <1>11, <2>1, <2>2, SettlingFits
<1> QED
  BY <1>5, <1>8, <1>12, BeginStep

\* So does the removal of a reference.
LEMMA RemoveStep ==
    ASSUME IInv, NEW e \in Open, RemoveReference(e)
    PROVE  IInv'
<1>0. /\ TypeInv /\ DiskInv /\ owner \in Seq(Nat) /\ docs # Missing
  BY DEF IInv, TypeInv, Open
<1>1. e \in Entries /\ e \in Entry /\ e.id \in Nat /\ e.path \in Paths /\ e \in docs
  BY <1>0, OpenEntries
<1>2. PICK r : r = Receipt("remove", e.id, e.path, None, e, <<>>)
  OBVIOUS
<1>3. /\ r \in ReceiptType /\ r.op = "remove" /\ r.id = e.id /\ r.before = e.path
      /\ r.entry = e /\ r.repaired = <<>>
  <2>1. /\ <<>> \in Seq(Backup) /\ e \in Entry \cup {None} /\ e.path \in Paths \cup {None}
        /\ None \in Paths \cup {None}
        /\ "remove" \in {"create", "import", "duplicate", "rename", "remove"}
    BY <1>1
  <2>2. r \in ReceiptType
    BY <1>0, <1>1, <1>2, <2>1 DEF Receipt, ReceiptType, TypeInv
  <2> QED
    BY <1>2, <2>2 DEF Receipt
<1>4. PICK ds : ds = docs \ {e}
  OBVIOUS
<1>5. PICK ss : ss = SaveRegistry(ds) \o << <<"receipt", r>> >>
  OBVIOUS
<1>6. Begin({}, {}, ss)
  BY <1>2, <1>4, <1>5 DEF RemoveReference
<1>7. owner' = owner \o <<>> /\ <<>> \in Seq(Nat)
  BY <1>0 DEF RemoveReference
<1>8. \A d : Distinct(d) => Distinct(d)'
  BY <1>0, <1>7, DistinctGrows
<1>9. ds \in SUBSET Entry /\ Distinct(ds)'
  <2>1. Distinct(ds) /\ ds \in SUBSET Entry
    BY <1>0, <1>4, OpenEntries DEF Distinct
  <2> QED
    BY <1>8, <2>1
<1>10. Sensible(r)'
  <2>1. e \in Entries'
    BY <1>0, <1>1, <1>7, DistinctGrows
  <2> QED
    BY <1>1, <1>3, <2>1 DEF Sensible
<1>11. Settling(ss)'
  <2>1. Settling(SaveRegistry(ds))' /\ Settling(<< <<"receipt", r>> >>)'
    BY <1>3, <1>9, <1>10, SettlingRegistry, SettlingReceipt
  <2>2. Settling(SaveRegistry(ds) \o << <<"receipt", r>> >>)'
    <3>1. PICK a : a = SaveRegistry(ds)
      OBVIOUS
    <3>2. PICK b : b = << <<"receipt", r>> >>
      OBVIOUS
    <3>3. SaveRegistry(ds)' = a
      BY <3>1 DEF SaveRegistry
    <3>4. Settling(a)' /\ Settling(b)'
      BY <2>1, <3>2, <3>3
    <3> QED
      BY <3>2, <3>3, <3>4, SettlingAppend
  <2>3. (SaveRegistry(ds) \o << <<"receipt", r>> >>)' = ss
    BY <1>5 DEF SaveRegistry
  <2> QED
    BY <2>2, <2>3
<1>12. /\ ss \in Seq(StepType) /\ \A i \in DOMAIN ss : Fits(ss, i)'
       /\ torn' = torn /\ hidden' = hidden /\ TrashFits({}, ss)'
  <2>1. torn' = torn /\ hidden' = hidden
    BY <1>0, <1>6, BeginFacts DEF RemoveReference, Harmless
  <2>2. job.steps = <<>> /\ UNCHANGED <<stored, manifest>>
    BY <1>0, <1>6, BeginFacts
  <2> QED
    BY <1>11, <2>1, <2>2, SettlingFits
<1> QED
  BY <1>6, <1>7, <1>12, BeginStep

\* The scan adds an entry for each file that has none.
LEMMA ScanStep ==
    ASSUME IInv, ScanAndIndex
    PROVE  IInv'
<1>0. /\ TypeInv /\ DiskInv /\ owner \in Seq(Nat) /\ Len(owner) \in Nat
      /\ files \in [Paths -> Contents \cup {None}] /\ docs # Missing
  BY DEF IInv, TypeInv, ScanAndIndex
<1>1. PICK S \in SUBSET Paths : S = {p \in Inside : files[p] # None /\ At(docs, p) = {}}
  BY DEF Paths
<1>2. PICK new : new = SetToSeq(S)
  OBVIOUS
<1>3. new \in Seq(S) /\ \A i, j \in DOMAIN new : new[i] = new[j] => i = j
  BY <1>2, FinitePaths, SeqOfSet
<1>4. PICK os : os = [i \in DOMAIN new |-> files[new[i]].what]
  OBVIOUS
<1>5. /\ new \in [1 .. Len(new) -> S] /\ Len(new) \in Nat /\ DOMAIN new = 1 .. Len(new)
  BY <1>3
<1>6. os \in Seq(Nat) /\ Len(os) = Len(new)
  <2>1. \A p \in S : files[p].what \in Nat
    BY <1>0, <1>1 DEF Contents
  <2>2. os \in [1 .. Len(new) -> Nat]
    BY <1>4, <1>5, <2>1
  <2> QED
    BY <1>5, <2>2
<1>7. PICK N : N = {[id |-> Len(owner) + i, path |-> new[i], kind |-> "managed"] : i \in DOMAIN new}
  OBVIOUS
<1>8. PICK ds : ds = docs \cup N
  OBVIOUS
<1>9. PICK ss : ss = SaveRegistry(ds)
  OBVIOUS
<1>10. Begin({}, {}, ss) /\ owner' = owner \o os
  BY <1>1, <1>2, <1>4, <1>7, <1>8, <1>9 DEF ScanAndIndex
<1>11. \A d : Distinct(d) => Distinct(d)'
  BY <1>0, <1>6, <1>10, DistinctGrows
<1>12. Len(owner') = Len(owner) + Len(os) /\ owner' \in Seq(Nat)
  BY <1>0, <1>6, <1>10, DistinctGrows
<1>13. \A e \in N : e \in Entry /\ e \in Entries' /\ e.id \in Len(owner) + 1 .. Len(owner) + Len(os)
  <2> SUFFICES ASSUME NEW i \in DOMAIN new,
                      NEW e, e = [id |-> Len(owner) + i, path |-> new[i], kind |-> "managed"]
               PROVE  /\ e \in Entry /\ e \in Entries'
                      /\ e.id \in Len(owner) + 1 .. Len(owner) + Len(os)
    BY <1>7
  <2>1. new[i] \in Paths /\ i \in 1 .. Len(os)
    BY <1>5, <1>6
  <2>2. Len(owner) + i \in Len(owner) + 1 .. Len(owner) + Len(os)
    BY <1>0, <1>6, <2>1
  <2>3. Len(owner) + i \in 1 .. Len(owner') /\ Len(owner) + i \in Nat
    <3>0. Len(owner) \in Nat /\ Len(os) \in Nat
      BY <1>0, <1>6
    <3>1. PICK a \in Nat, b \in Nat : a = Len(owner) /\ b = Len(os) /\ Len(owner') = a + b
      BY <1>12, <3>0
    <3>2. i \in 1 .. b
      BY <2>1, <3>1
    <3>3. a + i \in 1 .. a + b /\ a + i \in Nat
      BY <3>1, <3>2
    <3> QED
      BY <3>1, <3>3
  <2>4. DOMAIN owner' = 1 .. Len(owner')
    BY <1>12
  <2> QED
    BY <2>1, <2>2, <2>3, <2>4 DEF Entry, Entries
<1>14. \A d, e \in N : d.id = e.id => d = e
  BY <1>0, <1>5, <1>7
<1>15. Distinct(ds)' /\ ds \in SUBSET Entry
  <2>1. docs \in SUBSET Entry /\ Distinct(docs) /\ \A e \in docs : e.id \in 1 .. Len(owner)
    BY <1>0, OpenEntries
  <2>2. Distinct(docs) => /\ \A e \in docs : e \in Entries'
                          /\ \A d, e \in docs : d.id = e.id => d = e
    BY <1>0, <1>6, <1>10, DistinctGrows DEF Distinct
  <2>3. \A d, e \in ds : d.id = e.id => d = e
    <3>1. ASSUME NEW d \in ds, NEW e \in ds, d.id = e.id
          PROVE  d = e
      <4>1. ~(d \in docs /\ e \in N) /\ ~(d \in N /\ e \in docs)
        BY <1>0, <1>6, <1>13, <2>1, <3>1
      <4> QED
        BY <1>8, <1>14, <2>1, <2>2, <3>1, <4>1
    <3> QED
      BY <3>1
  <2>4. ds \subseteq Entries'
    BY <1>8, <1>13, <2>1, <2>2
  <2>5. Distinct(ds)'
    BY <2>3, <2>4 DEF Distinct
  <2> QED
    BY <1>8, <1>13, <2>1, <2>5
<1>16. Settling(ss)'
  <2>1. Settling(SaveRegistry(ds))'
    BY <1>15, SettlingRegistry
  <2>2. SaveRegistry(ds)' = ss
    BY <1>9 DEF SaveRegistry
  <2> QED
    BY <2>1, <2>2
<1>17. /\ ss \in Seq(StepType) /\ \A i \in DOMAIN ss : Fits(ss, i)'
       /\ torn' = torn /\ hidden' = hidden /\ TrashFits({}, ss)'
  <2>1. torn' = torn /\ hidden' = hidden
    BY <1>0, <1>10, BeginFacts DEF ScanAndIndex, Harmless
  <2>2. job.steps = <<>> /\ UNCHANGED <<stored, manifest>>
    BY <1>0, <1>10, BeginFacts
  <2> QED
    BY <1>16, <2>1, <2>2, SettlingFits
<1> QED
  BY <1>6, <1>10, <1>17, BeginStep

\* A reference that is added changes no bytes but where they lead.
LEMMA AddReferenceStep ==
    ASSUME IInv, NEW p \in Paths, NEW q \in Paths, NEW direct \in BOOLEAN,
           AddReference(p, q, direct)
    PROVE  IInv'
<1>1. /\ TypeInv /\ files \in [Paths -> Contents \cup {None}] /\ docs # Missing /\ job = Idle
      /\ files[p] # None /\ latest' = 0
      /\ files' = [files EXCEPT ![p].ref = q, ![p].direct = direct]
      /\ UNCHANGED <<stored, manifest, registry, receipts, docs, job, owner, made, torn>>
      /\ UNCHANGED <<baks, aside, hidden>>
      /\ None \notin Contents
  BY LibraryConstants DEF IInv, TypeInv, AddReference, LibraryConstants
<1>a. PICK c : c = [[files[p] EXCEPT !.ref = q] EXCEPT !.direct = direct]
  OBVIOUS
<1>b. c \in Contents /\ c.what = files[p].what
  <2>1. files[p] \in Contents
    BY <1>1
  <2> QED
    BY <1>a, <2>1 DEF Contents
<1>c. files' = [files EXCEPT ![p] = c]
  BY <1>1, <1>a
<1>2. files' \in [Paths -> Contents \cup {None}]
  BY <1>1, <1>b, <1>c
<1>3. \A x \in Paths : files'[x] # None => files[x] # None /\ files'[x].what = files[x].what
  BY <1>1, <1>b, <1>c
<1>4. TypeInv'
  BY <1>1, <1>2 DEF TypeInv, Idle, NextWrites
<1>5. JobInv'
  BY <1>1 DEF JobInv, Idle
<1>6. DiskInv'
  <2>1. \A d : Distinct(d) => Distinct(d)'
    BY <1>1 DEF Distinct, Entries
  <2>2. Open' = Open /\ Listed' = Listed
    BY <1>1 DEF Open, Listed
  <2>3. \A m, T : Trashed(m, T) => Trashed(m, T)'
    BY <1>1 DEF Trashed, Entries
  <2>4. \A r : Sensible(r) => Sensible(r)'
    BY <1>1 DEF Sensible, Entries
  <2>5. Distinct(Open)' /\ (registry' # Missing => Distinct(registry)')
    BY <1>1, <2>1, <2>2 DEF IInv, DiskInv
  <2>6. Trashed(Listed, DOMAIN stored)'
    BY <1>1, <2>2, <2>3 DEF IInv, DiskInv
  <2>7. \A i \in DOMAIN receipts' : Sensible(receipts[i])'
    BY <1>1, <2>4 DEF IInv, DiskInv
  <2>8. \A x \in Paths : files'[x] # None => files'[x].what <= made
    BY <1>3 DEF IInv, DiskInv
  <2> QED
    BY <1>1, <2>5, <2>6, <2>7, <2>8 DEF IInv, DiskInv
<1>7. TrashInv'
  <2>1. Listed' = Listed /\ job.steps = <<>> /\ \A ss : Storing(ss)' = Storing(ss)
    BY <1>1 DEF Listed, Storing, Idle
  <2> QED
    BY <1>1, <2>1 DEF IInv, TrashInv, TrashFits, WillStay, WillBeListed, Whole, Coming
<1> QED
  BY <1>4, <1>5, <1>6, <1>7 DEF IInv

\* A crash and the starts after it change neither the disk nor, but for the registry
\* that is created anew, what it says; no operation is under way after them.
LEMMA RestartSteps ==
    ASSUME IInv, Crash \/ OpenWorkspace \/ CreateWorkspace
    PROVE  IInv'
<1>1. /\ TypeInv /\ job' = Idle /\ latest' \in 0 .. Len(receipts)
      /\ UNCHANGED <<files, baks, stored, manifest, receipts, owner, made>>
  BY DEF Crash, OpenWorkspace, CreateWorkspace, IInv, TypeInv, disk, ghosts
<1>2. /\ registry' = registry \/ registry' = {}
      /\ docs' = Missing \/ (docs' = registry' /\ docs' # Missing)
  BY NotMissing DEF Crash, OpenWorkspace, CreateWorkspace, IInv, TypeInv, disk
<1>g. Crash => /\ torn' = torn \cup job.trash /\ hidden' = hidden \cup OnlyInBak
               /\ job.steps # <<>> /\ Head(job.steps) = job.steps[1]
  BY DEF Crash, IInv, TypeInv
<1>h. hidden' \subseteq DOMAIN stored
  <2>1. CASE Crash
    <3>1. CASE job.steps[1][1] = "list" /\ manifest = Missing
      <4>1. OnlyInBak = {t.id : t \in job.steps[1][2]} \ job.trash
        BY <1>g, <2>1, <3>1 DEF OnlyInBak
      <4>2. 1 \in DOMAIN job.steps /\ Storing(job.steps) = {}
        BY <1>g, <2>1, <3>1 DEF IInv, TypeInv, Storing
      <4>3. Trashed(job.steps[1][2], DOMAIN stored)
        BY <3>1, <4>2 DEF IInv, JobInv, Fits, ListFits
      <4>4. \A t \in job.steps[1][2] : t.id \in DOMAIN stored
        BY <4>3 DEF Trashed
      <4>5. OnlyInBak \subseteq DOMAIN stored
        BY <4>1, <4>4
      <4>6. hidden \subseteq DOMAIN stored /\ hidden' = hidden \cup OnlyInBak
        BY <1>g, <2>1 DEF IInv, TypeInv
      <4> QED
        BY <4>5, <4>6
    <3>2. CASE ~(job.steps[1][1] = "list" /\ manifest = Missing)
      <4>1. OnlyInBak = {}
        BY <1>g, <2>1, <3>2 DEF OnlyInBak
      <4> QED
        BY <1>g, <2>1, <4>1 DEF IInv, TypeInv
    <3> QED
      BY <3>1, <3>2
  <2>2. CASE OpenWorkspace \/ CreateWorkspace
    BY <2>2 DEF OpenWorkspace, CreateWorkspace, ghosts, IInv, TypeInv
  <2> QED
    BY <2>1, <2>2
<1>3. TypeInv'
  <2>1. job' \in [ids : SUBSET Nat, trash : SUBSET Nat, steps : Seq(StepType)]
    BY <1>1 DEF Idle
  <2>2. registry' = Missing \/ registry' \in SUBSET Entry
    BY <1>1, <1>2 DEF TypeInv
  <2>3. docs' = Missing \/ docs' \in SUBSET Entry
    BY <1>2, <2>2
  <2>4. aside' = FALSE
    BY <1>1 DEF Crash, OpenWorkspace, CreateWorkspace, TypeInv, NextWrites, Idle
  <2>5. hidden' \subseteq DOMAIN stored'
    BY <1>1, <1>h
  <2> QED
    BY <1>1, <2>1, <2>2, <2>3, <2>4, <2>5 DEF TypeInv, Idle
<1>4. JobInv'
  BY <1>1 DEF JobInv, Idle
<1>5. DiskInv'
  <2>1. Distinct({}) /\ \A d : Distinct(d) => Distinct(d)'
    BY <1>1 DEF Distinct, Entries
  <2>2. Open' = {} \/ (Open' = registry' /\ registry' # Missing)
    BY <1>2 DEF Open
  <2>3. Listed' = Listed
    BY <1>1 DEF Listed
  <2>4. \A m, T : Trashed(m, T) => Trashed(m, T)'
    BY <1>1 DEF Trashed, Entries
  <2>5. \A r : Sensible(r) => Sensible(r)'
    BY <1>1 DEF Sensible, Entries
  <2>6. registry' # Missing => Distinct(registry)'
    BY <1>2, <2>1 DEF IInv, DiskInv, Distinct
  <2>6a. Distinct(Open)'
    BY <2>1, <2>2, <2>6 DEF Distinct
  <2>7. Trashed(Listed, DOMAIN stored)'
    BY <1>1, <2>3, <2>4 DEF IInv, DiskInv
  <2>8. \A i \in DOMAIN receipts' : Sensible(receipts[i])'
    BY <1>1, <2>5 DEF IInv, DiskInv
  <2> QED
    BY <1>1, <2>6, <2>6a, <2>7, <2>8 DEF IInv, DiskInv
<1>6. TrashInv'
  <2>1. Listed' = Listed /\ Storing(<<>>) = {} /\ Storing(<<>>)' = {} /\ DOMAIN << >> = {}
    BY <1>1 DEF Listed, Storing
  <2>2. \A t \in DOMAIN stored \ torn' : Whole(t)'
    <3>1. CASE Crash /\ job.steps[1][1] = "list" /\ manifest = Missing
      <4>1. PICK ss : ss = job.steps
        OBVIOUS
      <4>2. 1 \in DOMAIN ss /\ Storing(ss) = {} /\ ss \in Seq(StepType)
        BY <1>g, <3>1, <4>1 DEF IInv, TypeInv, Storing
      <4>3. ListFits(ss, 1) /\ ss[1][1] = "list"
        BY <3>1, <4>1, <4>2 DEF IInv, JobInv, Fits
      <4>4. \A i \in DOMAIN ss : ss[i][1] # "drop" /\ (ss[i][1] = "list" => i = 1)
        <5>1. DOMAIN ss = 1 .. Len(ss)
          BY <4>2
        <5> QED
          BY <4>3, <5>1 DEF ListFits
      <4>5. OnlyInBak = {t.id : t \in ss[1][2]} \ job.trash /\ Listed = {} /\ Listed' = {}
        BY <1>1, <1>g, <3>1, <4>1 DEF OnlyInBak, Listed
      <4>6. \A t \in DOMAIN stored \ torn : Coming(ss, t)
        BY <4>1 DEF IInv, TrashInv, TrashFits
      <4>7. ASSUME NEW t \in DOMAIN stored \ torn'
            PROVE  Whole(t)'
        <5>1. t \notin torn /\ t \notin job.trash
          BY <1>g, <3>1, <4>7
        <5>2. WillStay(ss, t) <=> stored[t] # None
          BY <4>2, <4>4, <4>7 DEF WillStay
        <5>3. WillBeListed(ss, t) <=> \E l \in ss[1][2] : l.id = t
          BY <4>2, <4>3, <4>4 DEF WillBeListed
        <5>4. t \in hidden' <=> t \in hidden \/ \E l \in ss[1][2] : l.id = t
          BY <1>g, <3>1, <4>5, <5>1
        <5> QED
          BY <1>1, <4>5, <4>6, <4>7, <5>1, <5>2, <5>3, <5>4 DEF Whole, Coming
      <4> QED
        BY <4>7
    <3>2. CASE Crash /\ ~(job.steps[1][1] = "list" /\ manifest = Missing)
      <4>1. hidden' = hidden /\ torn' = torn \cup job.trash
        BY <1>g, <3>2 DEF OnlyInBak
      <4>2. \A t \in DOMAIN stored \ (torn \cup job.trash) : Whole(t)
        BY <3>2 DEF IInv, TrashInv
      <4> QED
        BY <1>1, <2>1, <4>1, <4>2 DEF Whole
    <3>3. CASE OpenWorkspace \/ CreateWorkspace
      <4>1. docs = Missing /\ torn' = torn /\ hidden' = hidden
        BY <3>3 DEF OpenWorkspace, CreateWorkspace, ghosts
      <4>2. job.steps = <<>> /\ job.trash = {}
        BY <4>1 DEF IInv, TypeInv, Idle
      <4>3. \A t \in DOMAIN stored \ torn : Whole(t)
        BY <4>2 DEF IInv, TrashInv
      <4> QED
        BY <1>1, <2>1, <4>1, <4>3 DEF Whole
    <3> QED
      BY <3>1, <3>2, <3>3
  <2>3. job'.steps = <<>> /\ job'.trash = {}
    BY <1>1 DEF Idle
  <2>4. TrashFits({}, <<>>)'
    BY <1>1, <2>1, <2>2 DEF TrashFits, WillStay, WillBeListed, Whole, Coming
  <2> QED
    BY <1>1, <2>1, <2>2, <2>3, <2>4 DEF TrashInv
<1> QED
  BY <1>3, <1>4, <1>5, <1>6 DEF IInv

\* What a rename replaces: the files, but for the renamed one, that refer to its path.
LEMMA RepairedIs ==
    ASSUME IInv, docs # Missing, NEW p \in Paths, NEW q \in Paths, p # q, NEW id,
           NEW fs, fs = Moved(files, p, q),
           NEW reps, reps = Repaired(fs, docs, id, p)
    PROVE  /\ fs \in [Paths -> Contents \cup {None}] /\ fs[p] = None
           /\ reps \in Seq(Backup)
           /\ \A i, j \in DOMAIN reps : reps[i].path = reps[j].path => i = j
           /\ \A i \in DOMAIN reps : /\ reps[i].path # p /\ reps[i].backup = fs[reps[i].path]
                                     /\ reps[i].backup.what <= made
<1>0. /\ files \in [Paths -> Contents \cup {None}] /\ None \notin Contents
      /\ \A x \in Paths : files[x] # None => files[x].what <= made
  BY LibraryConstants DEF IInv, TypeInv, DiskInv, LibraryConstants
<1>1. /\ fs \in [Paths -> Contents \cup {None}] /\ fs[p] = None
      /\ fs[q] = files[p] /\ \A x \in Paths \ {p, q} : fs[x] = files[x]
  BY <1>0 DEF Moved
<1>2. PICK S : S = Referring(fs, docs, id, p)
  OBVIOUS
<1>3. S \subseteq Paths /\ \A x \in S : fs[x] # None
  BY OpenEntries, <1>2 DEF Referring
<1>4. PICK ps : ps = SetToSeq(S)
  OBVIOUS
<1>5. ps \in Seq(S) /\ \A i, j \in DOMAIN ps : ps[i] = ps[j] => i = j
  BY <1>3, <1>4, FinitePaths, SeqOfSet
<1>6. reps = [i \in DOMAIN ps |-> [path |-> ps[i], backup |-> fs[ps[i]]]]
  BY <1>2, <1>4 DEF Repaired
<1>7. DOMAIN ps = 1 .. Len(ps) /\ Len(ps) \in Nat /\ \A i \in DOMAIN ps : ps[i] \in S
  BY <1>5
<1>8. \A i \in DOMAIN ps : [path |-> ps[i], backup |-> fs[ps[i]]] \in Backup
  BY <1>1, <1>3, <1>7 DEF Backup
<1>9. reps \in Seq(Backup) /\ DOMAIN reps = DOMAIN ps
  <2>1. reps \in [1 .. Len(ps) -> Backup]
    BY <1>6, <1>7, <1>8
  <2> QED
    BY <1>7, <2>1
<1>10. \A i \in DOMAIN reps : reps[i].path = ps[i] /\ reps[i].backup = fs[ps[i]]
  BY <1>6
<1>11. \A x \in S : x # p /\ fs[x].what <= made
  BY <1>0, <1>1, <1>3
<1> QED
  BY <1>1, <1>5, <1>7, <1>9, <1>10, <1>11

\* So does a rename: its steps are the move, the repairs, the registry and the receipt.
LEMMA RenameStep ==
    ASSUME IInv, NEW e \in Open, NEW q \in Paths, RenameOrMoveDocument(e, q)
    PROVE  IInv'
<1>0. /\ TypeInv /\ DiskInv /\ owner \in Seq(Nat) /\ docs # Missing /\ made \in Nat
      /\ files \in [Paths -> Contents \cup {None}] /\ None \notin Contents
      /\ files[e.path] # None /\ files[q] = None
  BY LibraryConstants DEF IInv, TypeInv, Open, RenameOrMoveDocument, LibraryConstants
<1>1. e \in Entries /\ e \in Entry /\ e.id \in Nat /\ e.path \in Paths /\ e \in docs
  BY <1>0, OpenEntries
<1>2. PICK p \in Paths : p = e.path
  BY <1>1
<1>3. p # q
  BY <1>0, <1>2
<1>4. PICK fs : fs = Moved(files, p, q)
  OBVIOUS
<1>5. PICK reps : reps = Repaired(fs, docs, e.id, p)
  OBVIOUS
<1>6. /\ fs \in [Paths -> Contents \cup {None}] /\ reps \in Seq(Backup)
      /\ \A i, j \in DOMAIN reps : reps[i].path = reps[j].path => i = j
      /\ \A i \in DOMAIN reps : /\ reps[i].path # p /\ reps[i].backup = fs[reps[i].path]
                                /\ reps[i].backup.what <= made
  BY <1>0, <1>3, <1>4, <1>5, RepairedIs
<1>7. PICK ws : ws = Writes(reps, LAMBDA r : Repointed(r.backup, q))
  OBVIOUS
<1>8. ws = [i \in DOMAIN reps |-> <<"write", reps[i].path, Repointed(reps[i].backup, q)>>]
  BY <1>7 DEF Writes
<1>9. /\ DOMAIN reps = 1 .. Len(reps) /\ Len(reps) \in Nat
      /\ \A i \in DOMAIN reps : reps[i].path \in Paths /\ reps[i].backup \in Contents
  <2>1. DOMAIN reps = 1 .. Len(reps) /\ Len(reps) \in Nat /\ \A i \in DOMAIN reps : reps[i] \in Backup
    BY <1>6
  <2> QED
    BY <2>1 DEF Backup
<1>10. \A c \in Contents : Repointed(c, q) \in Contents /\ Repointed(c, q).what = c.what
  BY DEF Contents, Repointed
<1>11. ws \in Seq(StepType) /\ Len(ws) = Len(reps)
  <2>1. \A i \in DOMAIN reps : ws[i] \in StepType
    BY <1>8, <1>9, <1>10, StepTypes
  <2> QED
    BY <1>8, <1>9, <2>1
<1>12. PICK a : a = << <<"move", p, q>> >> \o ws
  OBVIOUS
<1>13. /\ a \in Seq(StepType) /\ Len(a) = Len(ws) + 1 /\ a[1] = <<"move", p, q>>
       /\ \A i \in 2 .. Len(ws) + 1 : a[i] = ws[i - 1]
  BY <1>11, <1>12, StepTypes, Before
<1>14. PICK e2 : e2 = [e EXCEPT !.path = q]
  OBVIOUS
<1>15. PICK ds : ds = (docs \ {e}) \cup {e2}
  OBVIOUS
<1>16. PICK r : r = Receipt("rename", e.id, p, q, e, reps)
  OBVIOUS
<1>17. PICK b : b = SaveRegistry(ds) \o << <<"receipt", r>> >>
  OBVIOUS
<1>18. PICK ss : ss = a \o b
  OBVIOUS
<1>19. b \in Seq(StepType) /\ ds \in SUBSET Entry /\ r \in ReceiptType /\ e2 \in Entries /\ e2.id = e.id
  <2>1. e2 \in Entry /\ e2 \in Entries /\ e2.id = e.id
    BY <1>1, <1>14 DEF Entry, Entries
  <2>2. ds \in SUBSET Entry
    BY <1>0, <1>15, <2>1, OpenEntries
  <2>3. r \in ReceiptType
    <3>1. "rename" \in {"create", "import", "duplicate", "rename", "remove"}
      OBVIOUS
    <3> QED
      BY <1>0, <1>1, <1>6, <1>16, <3>1 DEF Receipt, ReceiptType, TypeInv
  <2>4. PICK sr \in Seq(StepType) : sr = SaveRegistry(ds)
    BY <2>2, SaveRegistryIs
  <2>5. <<"receipt", r>> \in StepType
    BY <2>3, StepTypes
  <2>6. b \in Seq(StepType)
    BY <1>17, <2>4, <2>5, After
  <2> QED
    BY <2>1, <2>2, <2>3, <2>6
<1>20. ss = RenameSteps(e, q)
  <2>1. RenameSteps(e, q) = << <<"move", p, q>> >> \o ws \o SaveRegistry(ds) \o << <<"receipt", r>> >>
    BY <1>2, <1>4, <1>5, <1>7, <1>14, <1>15, <1>16 DEF RenameSteps
  <2>2. PICK sr \in Seq(StepType) : sr = SaveRegistry(ds)
    BY <1>19, SaveRegistryIs
  <2>3. PICK t \in Seq(StepType) : t = << <<"receipt", r>> >>
    <3>1. <<"receipt", r>> \in StepType
      BY <1>19, StepTypes
    <3>2. << <<"receipt", r>> >> \in Seq(StepType)
      BY <3>1
    <3> QED
      BY <3>2
  <2>4. (a \o sr) \o t = a \o (sr \o t)
    BY <1>13, <2>2, <2>3
  <2> QED
    BY <1>12, <1>17, <1>18, <2>1, <2>2, <2>3, <2>4
<1>21. Begin({e.id}, {}, ss) /\ gone' = gone
  BY <1>20 DEF RenameOrMoveDocument, TakesFile
<1>22. owner' = owner \o <<>> /\ <<>> \in Seq(Nat)
  BY <1>0 DEF RenameOrMoveDocument
<1>23. UNCHANGED <<files, stored, manifest, registry, receipts, docs, made>>
  BY <1>0, <1>21, BeginFacts
<1>24. \A i \in DOMAIN a : Fits(a, i)'
  <2>1. a[1][1] = "move" /\ a[1][2] = p /\ a[1][3] = q /\ DOMAIN a = 1 .. Len(reps) + 1
    BY <1>11, <1>13
  <2>2. \A i \in 2 .. Len(reps) + 1 :
           /\ i - 1 \in DOMAIN reps /\ a[i][1] = "write" /\ a[i][2] = reps[i - 1].path
           /\ a[i][3] = Repointed(reps[i - 1].backup, q)
    <3>1. ASSUME NEW i \in 2 .. Len(reps) + 1
          PROVE  i - 1 \in DOMAIN reps /\ a[i] = ws[i - 1]
      BY <1>9, <1>11, <1>13
    <3>2. \A k \in DOMAIN reps : /\ ws[k][1] = "write" /\ ws[k][2] = reps[k].path
                                 /\ ws[k][3] = Repointed(reps[k].backup, q)
      BY <1>8
    <3> QED
      BY <3>1, <3>2
  <2>3. Fits(a, 1)'
    <3>1. MoveFits(a, 1)'
      BY <1>0, <1>3, <1>23, <2>1 DEF MoveFits, FreeFor
    <3> QED
      BY <2>1, <3>1, FitsByKind
  <2>4. ASSUME NEW i \in 2 .. Len(reps) + 1
        PROVE  Fits(a, i)'
    <3>1. PICK k \in DOMAIN reps : k = i - 1
      BY <2>2
    <3>2. /\ a[i][1] = "write" /\ a[i][2] = reps[k].path /\ a[i][3].what = reps[k].backup.what
      BY <1>9, <1>10, <2>2, <3>1
    <3>3. File(a, a[i][2])' = fs[reps[k].path]
      BY <1>4, <1>23, <2>1, <3>2 DEF File, Moved
    <3>4. reps[k].backup.what \in Nat /\ reps[k].backup.what <= made + 1
      BY <1>0, <1>6, <1>9 DEF Contents
    <3>5. \A j \in 1 .. i - 1 : \/ a[j][1] = "write" /\ a[j][2] # a[i][2]
                                \/ a[j][1] = "move" /\ j = 1
      <4>1. ASSUME NEW j \in 1 .. i - 1
            PROVE  \/ a[j][1] = "write" /\ a[j][2] # a[i][2]
                   \/ a[j][1] = "move" /\ j = 1
        <5>1. CASE j = 1
          BY <2>1, <5>1
        <5>2. CASE j # 1
          <6>1. j \in 2 .. Len(reps) + 1 /\ j - 1 # i - 1
            BY <1>9, <5>2
          <6>2. j - 1 \in DOMAIN reps /\ a[j][1] = "write" /\ a[j][2] = reps[j - 1].path
            BY <2>2, <6>1
          <6>3. PICK h \in DOMAIN reps : h = j - 1 /\ h # k
            BY <3>1, <6>1, <6>2
          <6>4. reps[h].path # reps[k].path
            BY <1>6, <6>3
          <6> QED
            BY <3>2, <6>2, <6>3, <6>4
        <5> QED
          BY <5>1, <5>2
      <4> QED
        BY <4>1
    <3>6. WriteFits(a, i)'
      BY <1>6, <1>23, <3>2, <3>3, <3>4, <3>5 DEF WriteFits, FreeFor
    <3> QED
      BY <3>2, <3>6, FitsByKind
  <2>5. \A i \in DOMAIN a : i = 1 \/ i \in 2 .. Len(reps) + 1
    BY <1>9, <2>1
  <2> QED
    BY <2>3, <2>4, <2>5
<1>25. Settling(b)'
  <2>0. \A d : Distinct(d) => Distinct(d)'
    BY <1>0, <1>22, DistinctGrows
  <2>1. Distinct(ds)
    <3>1. Distinct(docs)
      BY <1>0, OpenEntries
    <3> QED
      BY <1>1, <1>15, <1>19, <3>1 DEF Distinct
  <2>2. Sensible(r)'
    <3>1. /\ r.op = "rename" /\ r.before = p /\ r.after = q /\ r.repaired = reps
      BY <1>16 DEF Receipt
    <3> QED
      BY <1>3, <1>6, <1>23, <3>1 DEF Sensible
  <2>3. Settling(SaveRegistry(ds))' /\ Settling(<< <<"receipt", r>> >>)'
    BY <1>19, <2>0, <2>1, <2>2, SettlingRegistry, SettlingReceipt
  <2>4. PICK x : x = SaveRegistry(ds)
    OBVIOUS
  <2>5. PICK y : y = << <<"receipt", r>> >>
    OBVIOUS
  <2>6. SaveRegistry(ds)' = x
    BY <2>4 DEF SaveRegistry
  <2>7. Settling(x)' /\ Settling(y)'
    BY <2>3, <2>5, <2>6
  <2>8. Settling(x \o y)'
    BY <2>7, SettlingAppend
  <2> QED
    BY <1>17, <2>4, <2>5, <2>8
<1>26. ss \in Seq(StepType) /\ \A i \in DOMAIN ss : Fits(ss, i)'
  BY <1>13, <1>18, <1>24, <1>25, TailFits
<1>27. {e.id} \in SUBSET Nat
  BY <1>1
<1>28. torn' = torn /\ hidden' = hidden
  BY <1>0, <1>21, BeginFacts DEF RenameOrMoveDocument, TakesFile
<1>29. TrashFits({}, ss)'
  <2>1. \A i \in DOMAIN a : a[i][1] \notin {"store", "drop", "list"}
    <3>1. \A i \in DOMAIN ws : ws[i][1] = "write"
      BY <1>8
    <3>2. \A i \in DOMAIN a : i = 1 \/ (i - 1 \in DOMAIN ws /\ a[i] = ws[i - 1])
      BY <1>11, <1>13
    <3>3. a[1][1] = "move"
      BY <1>13
    <3> QED
      BY <3>1, <3>2, <3>3
  <2>2. job.steps = <<>>
    BY <1>0, <1>21, BeginFacts
  <2>3. TrashFits({}, a)'
    BY <1>13, <1>23, <1>28, <2>1, <2>2, Untouched
  <2> QED
    BY <1>13, <1>18, <1>25, <2>3, TrashTail
<1> QED
  BY <1>21, <1>22, <1>26, <1>27, <1>28, <1>29, BeginStep

\* The manifest that the steps ss write, in one of them, lists the items m.
Lists(ss, m) ==
    /\ \E i \in DOMAIN ss : ss[i][1] = "list"
    /\ \A i \in DOMAIN ss : ss[i][1] = "list" => ss[i][2] = m

\* What the trash lists once the manifest is written.
LEMMA ListsWhat ==
    ASSUME NEW ss, NEW m, Lists(ss, m)
    PROVE  \A t : WillBeListed(ss, t)' <=> \E l \in m : l.id = t
BY DEF Lists, WillBeListed

\* Steps on the files of the trash that fit still do when the manifest is written after.
LEMMA ManifestFits ==
    ASSUME NEW pre \in Seq(StepType), NEW m \in SUBSET Item,
           \A i \in DOMAIN pre : pre[i][1] \in {"store", "fetch", "drop"} /\ Fits(pre, i)',
           Trashed(m, DOMAIN stored \cup Storing(pre))',
           NEW ss, ss = pre \o SaveManifest(m)
    PROVE  /\ ss \in Seq(StepType) /\ \A i \in DOMAIN ss : Fits(ss, i)'
           /\ Storing(ss)' = Storing(pre)'
           /\ \A i \in DOMAIN pre : i \in DOMAIN ss /\ ss[i] = pre[i]
           /\ \A i \in DOMAIN ss : ss[i][1] = "drop" => i \in DOMAIN pre
           /\ Lists(ss, m)
<1>1. PICK sm : sm = SaveManifest(m)
  OBVIOUS
<1>2. /\ sm \in Seq(StepType) /\ Len(sm) \in {1, 2} /\ sm[Len(sm)] = <<"list", m>>
      /\ Len(sm) = 2 => sm[1] = <<"unlist">>
  BY <1>1, SaveManifestIs
<1>3. PICK n \in Nat : n = Len(pre)
  OBVIOUS
<1>4. /\ ss \in Seq(StepType) /\ Len(ss) = n + Len(sm) /\ DOMAIN ss = 1 .. Len(ss) /\ DOMAIN pre = 1 .. n
      /\ \A i \in 1 .. n : ss[i] = pre[i]
      /\ \A i \in n + 1 .. Len(ss) : ss[i] = sm[i - n]
  BY <1>1, <1>2, <1>3, Concatenated
<1>5. /\ ss[Len(ss)] = <<"list", m>> /\ Len(ss) \in {n + 1, n + 2}
      /\ Len(ss) = n + 2 => ss[n + 1] = <<"unlist">>
  <2>1. CASE Len(sm) = 1
    <3>1. Len(ss) = n + 1 /\ n + 1 \in n + 1 .. Len(ss) /\ (n + 1) - n = 1
      BY <1>4, <2>1
    <3> QED
      BY <1>2, <1>4, <2>1, <3>1
  <2>2. CASE Len(sm) = 2
    <3>1. Len(ss) = n + 2 /\ n + 1 \in n + 1 .. Len(ss) /\ n + 2 \in n + 1 .. Len(ss)
          /\ (n + 1) - n = 1 /\ (n + 2) - n = 2
      BY <1>4, <2>2
    <3> QED
      BY <1>2, <1>4, <2>2, <3>1
  <2> QED
    BY <1>2, <2>1, <2>2
<1>6. Storing(ss)' = Storing(pre)'
  <2>1. CASE n = 0
    <3>1. pre = <<>> /\ ss # <<>>
      BY <1>3, <1>4, <1>5, <2>1
    <3>2. ss[1][1] \in {"list", "unlist"}
      BY <1>5, <2>1
    <3> QED
      BY <3>1, <3>2 DEF Storing
  <2>2. CASE n # 0
    <3>1. ss[1] = pre[1] /\ pre # <<>> /\ ss # <<>>
      BY <1>3, <1>4, <1>5, <2>2
    <3> QED
      BY <3>1 DEF Storing
  <2> QED
    BY <2>1, <2>2
<1>7. ASSUME NEW i \in 1 .. n
      PROVE  Fits(ss, i)'
  <2>0. /\ i \in Nat /\ Fits(pre, i)' /\ pre[i][1] \in {"store", "fetch", "drop"} /\ ss[i] = pre[i]
        /\ \A j \in 1 .. i - 1 : ss[j] = pre[j]
        /\ ss[1] = pre[1]
    <3>1. i \in DOMAIN pre /\ 1 \in 1 .. n /\ \A j \in 1 .. i - 1 : j \in 1 .. n
      BY <1>3, <1>4
    <3> QED
      BY <1>4, <3>1
  <2>1. StoreFits(ss, i)' /\ FetchFits(ss, i)'
    BY <2>0 DEF Fits, StoreFits, FetchFits
  <2>2. DropFits(ss, i)'
    <3>1. DropFits(pre, i)'
      BY <2>0 DEF Fits
    <3> QED
      BY <2>0, <3>1 DEF DropFits
  <2> QED
    BY <2>0, <2>1, <2>2, FitsByKind
<1>8. Fits(ss, Len(ss))'
  <2>1. /\ ss[Len(ss)][1] = "list" /\ ss[Len(ss)][2] = m
        /\ \A j \in DOMAIN ss : ss[j][1] = "list" => j = Len(ss)
    <3>1. \A j \in 1 .. n : ss[j][1] # "list"
      BY <1>4
    <3>2. Len(ss) = n + 2 => ss[n + 1][1] # "list"
      BY <1>5
    <3>3. ss[Len(ss)][1] = "list" /\ ss[Len(ss)][2] = m
      <4>1. PICK s : s = <<"list", m>>
        OBVIOUS
      <4>2. s[1] = "list" /\ s[2] = m
        BY <4>1
      <4>3. ss[Len(ss)] = s
        BY <1>5, <4>1
      <4>4. ss[Len(ss)][1] = "list"
        BY <4>2, <4>3, Zenon
      <4>5. ss[Len(ss)][2] = m
        BY <4>2, <4>3, Zenon
      <4> QED
        BY <4>4, <4>5
    <3>4. \A j \in DOMAIN ss : j \in 1 .. n \/ j = Len(ss) \/ (Len(ss) = n + 2 /\ j = n + 1)
      BY <1>4, <1>5
    <3>5. \A j \in DOMAIN ss : ss[j][1] = "list" => j = Len(ss)
      BY <3>1, <3>2, <3>4
    <3> QED
      BY <3>3, <3>5
  <2>2. \A j \in Len(ss) .. Len(ss) : j = Len(ss)
    BY <1>4, <1>5
  <2>3. ListFits(ss, Len(ss))'
    BY <1>6, <2>1, <2>2 DEF ListFits
  <2> QED
    BY <2>1, <2>3, FitsByKind
<1>9. Len(ss) = n + 2 => Fits(ss, n + 1)'
  <2> HAVE Len(ss) = n + 2
  <2>0. ss[Len(ss)][1] = "list"
    <3>1. PICK s : s = <<"list", m>>
      OBVIOUS
    <3>2. ss[Len(ss)] = s
      BY <1>5, <3>1
    <3>3. s[1] = "list"
      BY <3>1
    <3> QED
      BY <3>2, <3>3, Zenon
  <2>1. ss[n + 1][1] = "unlist" /\ (n + 1) + 1 = Len(ss) /\ (n + 1) + 1 \in DOMAIN ss
        /\ ss[Len(ss)][1] = "list"
    <3>1. ss[n + 1][1] = "unlist"
      <4>1. PICK s : s = <<"unlist">>
        OBVIOUS
      <4>2. s[1] = "unlist"
        BY <4>1
      <4>3. ss[n + 1] = s
        BY <1>5, <4>1
      <4> QED
        BY <4>2, <4>3, Zenon
    <3>2. (n + 1) + 1 = Len(ss) /\ (n + 1) + 1 \in DOMAIN ss
      BY <1>4
    <3> QED
      BY <2>0, <3>1, <3>2
  <2>2. ListFits(ss, n + 1)'
    BY <2>1 DEF ListFits
  <2> QED
    BY <2>1, <2>2, FitsByKind
<1>10. \A i \in DOMAIN ss : i \in 1 .. n \/ i = Len(ss) \/ (Len(ss) = n + 2 /\ i = n + 1)
  BY <1>4, <1>5
<1>11. \A i \in DOMAIN pre : i \in DOMAIN ss /\ ss[i] = pre[i]
  BY <1>4, <1>5
<1>12. \A i \in DOMAIN ss : \/ i \in DOMAIN pre
                            \/ i \notin DOMAIN pre /\ ss[i] = <<"list", m>>
                            \/ i \notin DOMAIN pre /\ ss[i] = <<"unlist">>
  BY <1>4, <1>5, <1>10
<1>13. \A i \in DOMAIN ss : ss[i][1] = "drop" => i \in DOMAIN pre
  BY <1>12
<1>14. \A i \in DOMAIN ss : ss[i][1] = "list" => ss[i][2] = m
  <2>1. ASSUME NEW i \in DOMAIN ss, ss[i][1] = "list", i \in DOMAIN pre
        PROVE  FALSE
    <3>1. pre[i][1] = "list" /\ i \in 1 .. n
      BY <1>4, <1>11, <2>1
    <3> QED
      BY <1>4, <3>1
  <2>2. ASSUME NEW i \in DOMAIN ss, ss[i][1] = "list", i \notin DOMAIN pre
        PROVE  ss[i][2] = m
    <3>1. PICK x : x = ss[i]
      OBVIOUS
    <3>2. x = <<"list", m>> \/ x = <<"unlist">>
      BY <1>12, <2>2, <3>1
    <3>3. x[2] = m
      BY <2>2, <3>1, <3>2
    <3> QED
      BY <3>1, <3>3
  <2> QED
    BY <2>1, <2>2
<1>15. Len(ss) \in DOMAIN ss /\ ss[Len(ss)][1] = "list"
  <2>1. Len(ss) \in DOMAIN ss
    BY <1>4, <1>5
  <2>2. PICK s : s = <<"list", m>>
    OBVIOUS
  <2>3. s[1] = "list"
    BY <2>2
  <2>4. ss[Len(ss)] = s
    BY <1>5, <2>2
  <2>5. ss[Len(ss)][1] = "list"
    BY <2>3, <2>4, Zenon
  <2> QED
    BY <2>1, <2>5
<1>16. Lists(ss, m)
  BY <1>14, <1>15 DEF Lists
<1>17. \A i \in DOMAIN ss : Fits(ss, i)'
  BY <1>4, <1>7, <1>8, <1>9, <1>10
<1> QED
  BY <1>4, <1>6, <1>11, <1>13, <1>16, <1>17

\* What the manifest lists, as a set of items that were trashed.
LEMMA ListedItems ==
    ASSUME IInv
    PROVE  /\ Listed \in SUBSET Item /\ Trashed(Listed, DOMAIN stored)
           /\ \A t \in Listed : /\ t \in Item /\ t.id \in DOMAIN stored /\ t.id \in Nat /\ t.path \in Paths
                                /\ t.entry = None \/ t.entry \in Entries
           /\ stored \in Seq(Contents \cup {None})
<1>1. Listed \in SUBSET Item /\ Trashed(Listed, DOMAIN stored) /\ stored \in Seq(Contents \cup {None})
  BY DEF IInv, TypeInv, DiskInv, Listed
<1> QED
  BY <1>1 DEF Trashed

\* Before an operation the trash is complete.
LEMMA CompleteBefore ==
    ASSUME IInv, job.steps = <<>>
    PROVE  \A t \in DOMAIN stored \ torn : Whole(t)
<1>1. job.trash = {}
  BY DEF IInv, TypeInv, Idle
<1> QED
  BY <1>1 DEF IInv, TrashInv

\* A file that is there, into the trash and onto its manifest.
LEMMA MoveToTrashFits ==
    ASSUME IInv, NEW p \in Paths, files[p] # None, NEW entry, entry = None \/ entry \in Entries,
           UNCHANGED <<files, stored, manifest, docs, torn, hidden>>, job.steps = <<>>, NEW os \in Seq(Nat), owner' = owner \o os,
           NEW ss, ss = MoveToTrash(p, entry)
    PROVE  /\ ss \in Seq(StepType) /\ \A i \in DOMAIN ss : Fits(ss, i)'
           /\ TrashFits({Len(stored) + 1}, ss)'
<1>0. TypeInv /\ owner \in Seq(Nat)
  BY DEF IInv, TypeInv
<1>1. PICK n \in Nat : n = Len(stored) + 1 /\ DOMAIN stored = 1 .. n - 1 /\ n \in 1 .. n
  BY ListedItems
<1>2. PICK it : it = [id |-> n, path |-> p, entry |-> entry]
  OBVIOUS
<1>3. PICK m : m = Listed \cup {it}
  OBVIOUS
<1>4. PICK pre : pre = << <<"store", p>> >>
  OBVIOUS
<1>5. ss = pre \o SaveManifest(m)
  BY <1>1, <1>2, <1>3, <1>4 DEF MoveToTrash
<1>6. pre \in Seq(StepType) /\ DOMAIN pre = {1} /\ pre[1][1] = "store" /\ pre[1][2] = p /\ pre # <<>>
  <2>1. PICK s \in StepType : s = <<"store", p>>
    BY StepTypes
  <2>2. pre = <<s>> /\ s[1] = "store" /\ s[2] = p
    BY <1>4, <2>1
  <2> QED
    BY <2>2
<1>7. Fits(pre, 1)'
  <2>1. StoreFits(pre, 1)'
    BY <1>6 DEF StoreFits
  <2> QED
    BY <1>6, <2>1, FitsByKind
<1>8. \A x : x \in Entries => x \in Entry
  BY <1>0, EntriesGiven
<1>9. it \in Item
  BY <1>2, <1>8 DEF Item
<1>10. m \in SUBSET Item
  BY <1>3, <1>9, ListedItems
<1>11. Trashed(m, DOMAIN stored \cup Storing(pre))'
  <2>1. PICK T : T = (DOMAIN stored \cup Storing(pre))'
    OBVIOUS
  <2>2. T = 1 .. n
    <3>1. Storing(pre)' = {n}
      BY <1>1, <1>6 DEF Storing
    <3> QED
      BY <1>1, <2>1, <3>1
  <2>3. \A t \in Listed : /\ t.id \in 1 .. n - 1 /\ t.path \in Paths
                          /\ t.entry = None \/ t.entry \in Entries
    BY <1>1, ListedItems
  <2>4. \A t, u \in Listed : t.id = u.id => t = u
    BY ListedItems DEF Trashed
  <2>5. Trashed(m, T)
    <3>1. it.id = n /\ it.path \in Paths /\ (it.entry = None \/ it.entry \in Entries)
      BY <1>2
    <3>2. \A t \in m : t.id \in T /\ t.path \in Paths /\ (t.entry = None \/ t.entry \in Entries)
      <4>1. \A t \in Listed : t.id \in T
        BY <2>2, <2>3
      <4>2. it.id \in T
        BY <1>1, <2>2, <3>1
      <4> QED
        BY <1>3, <2>3, <3>1, <4>1, <4>2
    <3>3. \A t, u \in m : t.id = u.id => t = u
      BY <1>3, <2>3, <2>4, <3>1
    <3> QED
      BY <3>2, <3>3 DEF Trashed
  <2>6. Trashed(m, T)'
    BY <1>0, <2>5, DistinctGrows
  <2> QED
    BY <2>1, <2>6 DEF Trashed
<1>12. /\ ss \in Seq(StepType) /\ \A i \in DOMAIN ss : Fits(ss, i)'
       /\ Storing(ss)' = Storing(pre)'
       /\ \A i \in DOMAIN pre : i \in DOMAIN ss /\ ss[i] = pre[i]
       /\ \A i \in DOMAIN ss : ss[i][1] = "drop" => i \in DOMAIN pre
       /\ Lists(ss, m)
  <2>1. pre \in Seq(StepType) /\ m \in SUBSET Item /\ ss = pre \o SaveManifest(m)
    BY <1>5, <1>6, <1>10
  <2>2. \A i \in DOMAIN pre : pre[i][1] \in {"store", "fetch", "drop"} /\ Fits(pre, i)'
    BY <1>6, <1>7
  <2>3. Trashed(m, DOMAIN stored \cup Storing(pre))'
    BY <1>11
  <2> QED
    BY <2>1, <2>2, <2>3, ManifestFits
<1>13. TrashFits({Len(stored) + 1}, ss)'
  <2>1. Storing(ss)' = {n}
    BY <1>1, <1>6, <1>12 DEF Storing
  <2>2. \A i \in DOMAIN ss : ss[i][1] # "drop"
    BY <1>6, <1>12
  <2>3. \A t \in 1 .. n - 1 : t # n
    OBVIOUS
  <2>4. \A t \in DOMAIN stored \ torn : /\ Whole(t)
                                        /\ (\E l \in m : l.id = t) <=> \E l \in Listed : l.id = t
    BY <1>1, <1>2, <1>3, <2>3, CompleteBefore
  <2>5. \E l \in m : l.id = n
    BY <1>2, <1>3
  <2>5a. n \notin hidden
    BY <1>0, <1>1, <2>3 DEF TypeInv
  <2>6. ASSUME NEW t \in (DOMAIN stored' \cup Storing(ss)') \ torn'
        PROVE  Coming(ss, t)'
    <3>1. WillBeListed(ss, t)' <=> \E l \in m : l.id = t
      BY <1>12, ListsWhat
    <3>2. CASE t = n
      <4>1. WillStay(ss, t)'
        BY <2>1, <3>2 DEF WillStay
      <4> QED
        BY <2>5, <2>5a, <3>1, <3>2, <4>1 DEF Coming
    <3>3. CASE t # n
      <4>1. t \in DOMAIN stored \ torn
        BY <2>1, <2>6, <3>3
      <4>2. WillStay(ss, t)' <=> stored[t] # None
        BY <2>1, <2>2, <3>3, <4>1 DEF WillStay
      <4> QED
        BY <2>4, <3>1, <4>1, <4>2 DEF Coming, Whole
    <3> QED
      BY <3>2, <3>3
  <2> QED
    BY <1>1, <2>1, <2>2, <2>6 DEF TrashFits
<1> QED
  BY <1>12, <1>13

\* So does a deletion to the trash.
LEMMA DeleteStep ==
    ASSUME IInv, NEW e \in Open, DeleteDocumentToTrash(e)
    PROVE  IInv'
<1>0. /\ TypeInv /\ DiskInv /\ owner \in Seq(Nat) /\ docs # Missing /\ files[e.path] # None
      /\ stored \in Seq(Contents \cup {None})
  BY DEF IInv, TypeInv, Open, DeleteDocumentToTrash
<1>1. e \in Entries /\ e \in Entry /\ e.id \in Nat /\ e.path \in Paths /\ e \in docs
  BY <1>0, OpenEntries
<1>2. PICK a : a = MoveToTrash(e.path, e)
  OBVIOUS
<1>3. PICK ds : ds = docs \ {e}
  OBVIOUS
<1>4. PICK b : b = SaveRegistry(ds)
  OBVIOUS
<1>5. PICK ss : ss = a \o b
  OBVIOUS
<1>6. Begin({e.id}, {Len(stored) + 1}, ss)
  BY <1>2, <1>3, <1>4, <1>5 DEF DeleteDocumentToTrash
<1>7. owner' = owner \o <<>> /\ <<>> \in Seq(Nat)
  BY <1>0 DEF DeleteDocumentToTrash
<1>8. UNCHANGED <<files, stored, manifest, registry, receipts, docs, made>>
  BY <1>0, <1>6, BeginFacts
<1>9a. torn' = torn /\ hidden' = hidden /\ job.steps = <<>>
  BY <1>0, <1>6, BeginFacts DEF DeleteDocumentToTrash, TakesFile
<1>9. /\ a \in Seq(StepType) /\ \A i \in DOMAIN a : Fits(a, i)'
      /\ TrashFits({Len(stored) + 1}, a)'
  BY <1>0, <1>1, <1>2, <1>7, <1>8, <1>9a, MoveToTrashFits
<1>10. Settling(b)'
  <2>1. Distinct(ds) /\ ds \in SUBSET Entry
    BY <1>0, <1>3, OpenEntries DEF Distinct
  <2>2. Distinct(ds)'
    BY <1>0, <1>7, <2>1, DistinctGrows
  <2>3. Settling(SaveRegistry(ds))'
    BY <2>1, <2>2, SettlingRegistry
  <2>4. SaveRegistry(ds)' = b
    BY <1>4 DEF SaveRegistry
  <2> QED
    BY <2>3, <2>4
<1>11. ss \in Seq(StepType) /\ \A i \in DOMAIN ss : Fits(ss, i)'
  BY <1>5, <1>9, <1>10, TailFits
<1>12. {e.id} \in SUBSET Nat /\ {Len(stored) + 1} \in SUBSET Nat
  BY <1>0, <1>1
<1>13. TrashFits({Len(stored) + 1}, ss)'
  <2>1. PICK T : T = {Len(stored) + 1}
    OBVIOUS
  <2>2. {Len(stored) + 1}' = T
    BY <1>8, <2>1
  <2>3. TrashFits(T, a)'
    BY <1>9, <2>2 DEF TrashFits
  <2>4. TrashFits(T, ss)'
    BY <1>5, <1>9, <1>10, <2>3, TrashTail
  <2> QED
    BY <2>2, <2>4 DEF TrashFits
<1>14. PICK T : T = {Len(stored) + 1}
  OBVIOUS
<1>15. TrashFits(T, ss)'
  <2>1. {Len(stored) + 1}' = T
    BY <1>8, <1>14
  <2> QED
    BY <1>13, <2>1 DEF TrashFits
<1>16. Begin({e.id}, T, ss) /\ T \in SUBSET Nat
  BY <1>6, <1>12, <1>14
<1> QED
  BY <1>7, <1>9a, <1>11, <1>12, <1>15, <1>16, BeginStep

\* So does a restore: the trash id it takes from is the one it takes off the manifest.
LEMMA RestoreStep ==
    ASSUME IInv, NEW t \in Listed, NEW dest \in Paths, Restore(t, dest)
    PROVE  IInv'
<1>0. /\ TypeInv /\ DiskInv /\ owner \in Seq(Nat) /\ stored[t.id] # None
      /\ files \in [Paths -> Contents \cup {None}]
  BY DEF IInv, TypeInv, Restore
<1>1. files[dest] = None
  BY DEF Restore, RestorePaths
<1>2. /\ t \in Item /\ t.id \in DOMAIN stored /\ t.id \in Nat
      /\ t.entry = None \/ t.entry \in Entries
  BY ListedItems
<1>3. PICK id \in Nat : id = t.id
  BY <1>2
<1>4. PICK pre : pre = << <<"fetch", id, dest>>, <<"drop", id>> >>
  OBVIOUS
<1>5. PICK m : m = Listed \ {t}
  OBVIOUS
<1>6. PICK a : a = pre \o SaveManifest(m)
  OBVIOUS
<1>7. PICK ds : ds = docs \cup {[t.entry EXCEPT !.path = dest]}
  OBVIOUS
<1>8. PICK b : b = IF t.entry = None \/ Registered(docs, t.entry.id) THEN <<>> ELSE SaveRegistry(ds)
  OBVIOUS
<1>9. PICK ss : ss = a \o b
  OBVIOUS
<1>10. PICK ids : ids = IF t.entry = None THEN {} ELSE {t.entry.id}
  OBVIOUS
<1>11. /\ pre \in Seq(StepType) /\ DOMAIN pre = {1, 2}
       /\ pre[1][1] = "fetch" /\ pre[1][2] = id /\ pre[1][3] = dest
       /\ pre[2][1] = "drop" /\ pre[2][2] = id
  <2>1. PICK s \in StepType, u \in StepType : s = <<"fetch", id, dest>> /\ u = <<"drop", id>>
    BY StepTypes
  <2>2. pre = <<s, u>> /\ s[1] = "fetch" /\ s[2] = id /\ s[3] = dest /\ u[1] = "drop" /\ u[2] = id
    BY <1>4, <2>1
  <2> QED
    BY <2>2
<1>12. m \in SUBSET Item /\ Trashed(m, DOMAIN stored)
  BY <1>5, ListedItems DEF Trashed
<1>13. a \in Seq(StepType)
  BY <1>6, <1>11, <1>12, SaveManifestIs, Concatenated
<1>14. RestoreSteps(t, dest) = ss
  <2>1. RestoreSteps(t, dest) =
           << <<"fetch", t.id, dest>>, <<"drop", t.id>> >> \o SaveManifest(Listed \ {t}) \o b
    BY <1>7, <1>8 DEF RestoreSteps
  <2> QED
    BY <1>3, <1>4, <1>5, <1>6, <1>9, <2>1
<1>15. Begin(ids, {id}, ss)
  BY <1>3, <1>10, <1>14 DEF Restore
<1>16. owner' = owner \o <<>> /\ <<>> \in Seq(Nat)
  BY <1>0 DEF Restore
<1>17. /\ UNCHANGED <<files, stored, manifest, registry, receipts, docs, made>>
       /\ docs # Missing
  BY <1>0, <1>15, BeginFacts
<1>18. /\ \A d : Distinct(d) => Distinct(d)'
       /\ \A x, T : Trashed(x, T) => Trashed(x, T)'
  BY <1>0, <1>16, DistinctGrows
<1>19. \A i \in DOMAIN pre : pre[i][1] \in {"store", "fetch", "drop"} /\ Fits(pre, i)'
  <2>1. FetchFits(pre, 1)'
    BY <1>0, <1>1, <1>2, <1>3, <1>11, <1>17 DEF FetchFits
  <2>2. DropFits(pre, 2)'
    <3>1. \A j \in 1 .. 2 - 1 : j = 1
      OBVIOUS
    <3> QED
      BY <1>2, <1>3, <1>11, <1>17, <3>1 DEF DropFits
  <2> QED
    BY <1>11, <2>1, <2>2, FitsByKind
<1>20. Trashed(m, DOMAIN stored \cup Storing(pre))'
  <2>1. Storing(pre)' = {}
    BY <1>11 DEF Storing
  <2>2. PICK T : T = DOMAIN stored
    OBVIOUS
  <2>3. T = (DOMAIN stored \cup Storing(pre))'
    BY <1>17, <2>1, <2>2
  <2>4. Trashed(m, T)'
    BY <1>12, <1>18, <2>2
  <2> QED
    BY <2>3, <2>4 DEF Trashed
<1>21. /\ a \in Seq(StepType) /\ \A i \in DOMAIN a : Fits(a, i)'
       /\ Storing(a)' = Storing(pre)'
       /\ \A i \in DOMAIN pre : i \in DOMAIN a /\ a[i] = pre[i]
       /\ \A i \in DOMAIN a : a[i][1] = "drop" => i \in DOMAIN pre
       /\ Lists(a, m)
  <2>1. pre \in Seq(StepType) /\ m \in SUBSET Item /\ a = pre \o SaveManifest(m)
    BY <1>6, <1>11, <1>12
  <2>2. \A i \in DOMAIN pre : pre[i][1] \in {"store", "fetch", "drop"} /\ Fits(pre, i)'
    BY <1>19
  <2>3. Trashed(m, DOMAIN stored \cup Storing(pre))'
    BY <1>20
  <2>4. a \in Seq(StepType) /\ \A i \in DOMAIN a : Fits(a, i)'
    BY <2>1, <2>2, <2>3, ManifestFits
  <2>5. Storing(a)' = Storing(pre)' /\ \A i \in DOMAIN pre : i \in DOMAIN a /\ a[i] = pre[i]
    BY <2>1, <2>2, <2>3, ManifestFits
  <2>6. \A i \in DOMAIN a : a[i][1] = "drop" => i \in DOMAIN pre
    BY <2>1, <2>2, <2>3, ManifestFits
  <2>7. /\ Lists(a, m)
    BY <2>1, <2>2, <2>3, ManifestFits
  <2> QED
    BY <2>4, <2>5, <2>6, <2>7
<1>21a. torn' = torn /\ hidden' = hidden /\ job.steps = <<>>
  BY <1>0, <1>15, BeginFacts DEF Restore, Harmless
<1>21b. TrashFits({id}, a)'
  <2>1. Storing(a)' = {}
    BY <1>11, <1>21 DEF Storing
  <2>2. \A i \in DOMAIN a : a[i][1] = "drop" <=> i = 2
    BY <1>11, <1>21
  <2>3. a[2][2] = id /\ 2 \in DOMAIN a
    BY <1>11, <1>21
  <2>4. \A u \in DOMAIN stored \ torn : Whole(u)
    BY <1>21a, CompleteBefore
  <2>5. \A u : (\E l \in m : l.id = u) <=> (u # id /\ \E l \in Listed : l.id = u)
    <3>1. \A l, k \in Listed : l.id = k.id => l = k
      BY ListedItems DEF Trashed
    <3> QED
      BY <1>3, <1>5, <3>1
  <2>6. \A u \in DOMAIN stored : WillStay(a, u)' <=> (stored[u] # None /\ u # id)
    BY <1>17, <2>1, <2>2, <2>3 DEF WillStay
  <2>7. ASSUME NEW u \in (DOMAIN stored' \cup Storing(a)') \ torn'
        PROVE  Coming(a, u)'
    <3>1. u \in DOMAIN stored \ torn
      BY <1>17, <1>21a, <2>1, <2>7
    <3>2. WillBeListed(a, u)' <=> \E l \in m : l.id = u
      BY <1>21, ListsWhat
    <3>3. \E l \in Listed : l.id = id
      BY <1>1, <1>2, <1>3
    <3> QED
      BY <1>21a, <2>4, <2>5, <2>6, <3>1, <3>2, <3>3 DEF Coming, Whole
  <2>8. \A i \in DOMAIN a : a[i][1] = "drop" => a[i][2] \in {id}
    BY <2>2, <2>3
  <2> QED
    BY <2>1, <2>7, <2>8 DEF TrashFits
<1>22. Settling(b)'
  <2>1. CASE t.entry = None \/ Registered(docs, t.entry.id)
    BY <1>8, <2>1, NoSteps
  <2>2. CASE ~(t.entry = None \/ Registered(docs, t.entry.id))
    <3>1. PICK e : e = [t.entry EXCEPT !.path = dest]
      OBVIOUS
    <3>2. t.entry \in Entries /\ e \in Entries /\ e.id = t.entry.id
      BY <1>2, <2>2, <3>1 DEF Entries
    <3>3. e \in Entry
      BY <1>0, <3>2, EntriesGiven
    <3>4. ds = docs \cup {e} /\ \A d \in docs : d.id # e.id
      BY <1>7, <2>2, <3>1, <3>2 DEF Registered
    <3>5. Distinct(ds) /\ ds \in SUBSET Entry
      <4>1. Distinct(docs) /\ docs \in SUBSET Entry
        BY <1>17, OpenEntries
      <4> QED
        BY <3>2, <3>3, <3>4, <4>1 DEF Distinct
    <3>6. Distinct(ds)'
      BY <1>18, <3>5
    <3>7. Settling(SaveRegistry(ds))'
      BY <3>5, <3>6, SettlingRegistry
    <3>8. SaveRegistry(ds)' = b
      BY <1>8, <2>2 DEF SaveRegistry
    <3> QED
      BY <3>7, <3>8
  <2> QED
    BY <2>1, <2>2
<1>23. ss \in Seq(StepType) /\ \A i \in DOMAIN ss : Fits(ss, i)'
  BY <1>9, <1>21, <1>22, TailFits
<1>24. ids \in SUBSET Nat /\ {id} \in SUBSET Nat
  BY <1>0, <1>2, <1>10, EntriesGiven DEF Entry
<1>25. TrashFits({id}, ss)'
  BY <1>9, <1>21, <1>21b, <1>22, TrashTail
<1> QED
  BY <1>15, <1>16, <1>21a, <1>23, <1>24, <1>25, BeginStep

\* So does a purge, of one item or of all.
LEMMA PurgeStep ==
    ASSUME IInv, NEW ts \in SUBSET Listed, Purge(ts)
    PROVE  IInv'
<1>0. TypeInv /\ owner \in Seq(Nat) /\ stored \in Seq(Contents \cup {None})
  BY DEF IInv, TypeInv
<1>1. PICK I : I = {t.id : t \in {t \in ts : stored[t.id] # None}}
  OBVIOUS
<1>2. \A t \in ts : t.id \in DOMAIN stored /\ t.id \in Nat
  BY ListedItems
<1>3. I \subseteq DOMAIN stored /\ I \subseteq Nat /\ \A d \in I : stored[d] # None
  BY <1>1, <1>2
<1>4. IsFiniteSet(I)
  <2>1. DOMAIN stored = 1 .. Len(stored) /\ Len(stored) \in Nat
    BY <1>0
  <2>2. IsFiniteSet(1 .. Len(stored))
    BY <2>1, FS_Interval
  <2> QED
    BY <1>3, <2>1, <2>2, FS_Subset
<1>5. PICK s : s = SetToSeq(I)
  OBVIOUS
<1>6. s \in Seq(I)
  BY <1>4, <1>5, SeqOfSet
<1>7. DOMAIN s = 1 .. Len(s) /\ Len(s) \in Nat /\ \A i \in DOMAIN s : s[i] \in I
  BY <1>6
<1>8. PICK pre : pre = [i \in DOMAIN s |-> <<"drop", s[i]>>]
  OBVIOUS
<1>9. /\ pre \in Seq(StepType) /\ DOMAIN pre = DOMAIN s
      /\ \A i \in DOMAIN pre : pre[i][1] = "drop" /\ pre[i][2] = s[i]
  <2>1. \A i \in DOMAIN s : pre[i] \in StepType
    BY <1>3, <1>7, <1>8, StepTypes
  <2>2. pre \in [1 .. Len(s) -> StepType]
    BY <1>7, <1>8, <2>1
  <2> QED
    BY <1>7, <1>8, <2>2
<1>10. PICK m : m = Listed \ ts
  OBVIOUS
<1>11. PICK ss : ss = pre \o SaveManifest(m)
  OBVIOUS
<1>12. ss = Drops(ts) \o SaveManifest(Listed \ ts)
  BY <1>1, <1>5, <1>8, <1>10, <1>11 DEF Drops
<1>13. PICK T : T = {t.id : t \in ts}
  OBVIOUS
<1>14. Begin({}, T, ss) /\ gone' = gone \cup Whats(ts)
  BY <1>12, <1>13 DEF Purge
<1>15. owner' = owner \o <<>> /\ <<>> \in Seq(Nat)
  BY <1>0 DEF Purge
<1>16. UNCHANGED <<files, stored, manifest, registry, receipts, docs, made>>
  BY <1>0, <1>14, BeginFacts
<1>17. m \in SUBSET Item /\ Trashed(m, DOMAIN stored)
  BY <1>10, ListedItems DEF Trashed
<1>18. \A i \in DOMAIN pre : pre[i][1] \in {"store", "fetch", "drop"} /\ Fits(pre, i)'
  <2> SUFFICES ASSUME NEW i \in DOMAIN pre
               PROVE  Fits(pre, i)'
    BY <1>9
  <2>1. s[i] \in I /\ pre[i][1] = "drop" /\ pre[i][2] = s[i] /\ i \in 1 .. Len(s)
    BY <1>7, <1>9
  <2>2. stored[s[i]].what \in gone'
    BY <1>1, <1>14, <2>1 DEF Whats
  <2>3. \A j \in 1 .. i - 1 : pre[j][1] = "drop"
    BY <1>7, <1>9, <2>1
  <2>4. DropFits(pre, i)'
    BY <1>3, <1>16, <2>1, <2>2, <2>3 DEF DropFits, FreeFor
  <2> QED
    BY <2>1, <2>4, FitsByKind
<1>19. Trashed(m, DOMAIN stored \cup Storing(pre))'
  <2>1. Storing(pre)' = {}
    <3>1. CASE pre = <<>>
      BY <3>1 DEF Storing
    <3>2. CASE pre # <<>>
      <4>1. pre[1][1] = "drop"
        BY <1>7, <1>9, <3>2
      <4> QED
        BY <4>1 DEF Storing
    <3> QED
      BY <3>1, <3>2
  <2>2. PICK D : D = DOMAIN stored
    OBVIOUS
  <2>3. D = (DOMAIN stored \cup Storing(pre))'
    BY <1>16, <2>1, <2>2
  <2>4. Trashed(m, D)'
    BY <1>0, <1>15, <1>17, <2>2, DistinctGrows
  <2> QED
    BY <2>3, <2>4 DEF Trashed
<1>20. /\ ss \in Seq(StepType) /\ \A i \in DOMAIN ss : Fits(ss, i)'
       /\ Storing(ss)' = Storing(pre)'
       /\ \A i \in DOMAIN pre : i \in DOMAIN ss /\ ss[i] = pre[i]
       /\ \A i \in DOMAIN ss : ss[i][1] = "drop" => i \in DOMAIN pre
       /\ Lists(ss, m)
  <2>1. pre \in Seq(StepType) /\ m \in SUBSET Item /\ ss = pre \o SaveManifest(m)
    BY <1>9, <1>11, <1>17
  <2>2. \A i \in DOMAIN pre : pre[i][1] \in {"store", "fetch", "drop"} /\ Fits(pre, i)'
    BY <1>18
  <2>3. Trashed(m, DOMAIN stored \cup Storing(pre))'
    BY <1>19
  <2> QED
    BY <2>1, <2>2, <2>3, ManifestFits
<1>21. T \in SUBSET Nat
  BY <1>2, <1>13
<1>22. torn' = torn /\ hidden' = hidden /\ job.steps = <<>>
  BY <1>0, <1>14, BeginFacts DEF Purge
<1>23. TrashFits(T, ss)'
  <2>1. Storing(ss)' = {}
    <3>1. CASE pre = <<>>
      BY <1>20, <3>1 DEF Storing
    <3>2. CASE pre # <<>>
      <4>1. pre[1][1] = "drop"
        BY <1>7, <1>9, <3>2
      <4>2. Storing(pre)' = {}
        BY <4>1 DEF Storing
      <4> QED
        BY <1>20, <4>2
    <3> QED
      BY <3>1, <3>2
  <2>2. \A i \in DOMAIN ss : ss[i][1] = "drop" => ss[i][2] \in I
    BY <1>7, <1>9, <1>20
  <2>3. \A t \in I : \E i \in DOMAIN ss : ss[i][1] = "drop" /\ ss[i][2] = t
    <3>1. ASSUME NEW t \in I
          PROVE  \E i \in DOMAIN ss : ss[i][1] = "drop" /\ ss[i][2] = t
      <4>1. PICK i \in DOMAIN s : s[i] = t
        BY <1>4, <1>5, SeqCovers
      <4>2. i \in DOMAIN ss /\ ss[i][1] = "drop" /\ ss[i][2] = t
        BY <1>9, <1>20, <4>1
      <4> QED
        BY <4>2
    <3> QED
      BY <3>1
  <2>4. \A t \in DOMAIN stored \ torn : Whole(t)
    BY <1>22, CompleteBefore
  <2>5. \A t : (\E l \in m : l.id = t) <=> (t \notin T /\ \E l \in Listed : l.id = t)
    <3>1. \A l, k \in Listed : l.id = k.id => l = k
      BY ListedItems DEF Trashed
    <3> QED
      BY <1>10, <1>13, <3>1
  <2>6. \A t \in DOMAIN stored : WillStay(ss, t)' <=> (stored[t] # None /\ t \notin T)
    <3>1. \A t \in T : stored[t] # None => t \in I
      BY <1>1, <1>13
    <3>2. I \subseteq T
      BY <1>1, <1>13
    <3> QED
      BY <1>16, <2>1, <2>2, <2>3, <3>1, <3>2 DEF WillStay
  <2>7. ASSUME NEW t \in (DOMAIN stored' \cup Storing(ss)') \ torn'
        PROVE  Coming(ss, t)'
    <3>1. t \in DOMAIN stored \ torn
      BY <1>16, <1>22, <2>1, <2>7
    <3>2. WillBeListed(ss, t)' <=> \E l \in m : l.id = t
      BY <1>20, ListsWhat
    <3>3. t \in T => \E l \in Listed : l.id = t
      BY <1>13
    <3> QED
      BY <1>22, <2>4, <2>5, <2>6, <3>1, <3>2, <3>3 DEF Coming, Whole
  <2>8. \A i \in DOMAIN ss : ss[i][1] = "drop" => ss[i][2] \in T
    BY <1>1, <1>13, <2>2
  <2> QED
    BY <2>1, <2>7, <2>8 DEF TrashFits
<1> QED
  BY <1>14, <1>15, <1>20, <1>21, <1>22, <1>23, BeginStep

\* The undo of a creation, an import or a duplication: the file to the trash, the entry
\* out of the registry.
LEMMA UndoAddFits ==
    ASSUME IInv, docs # Missing, NEW r \in ReceiptType, r.after \in Paths,
           UNCHANGED <<files, stored, manifest, registry, receipts, docs, made, owner, torn, hidden>>,
           job.steps = <<>>, NEW T, T = {Len(stored) + 1},
           NEW ss, ss = UndoAdd(r)
    PROVE  ss \in Seq(StepType) /\ (\A i \in DOMAIN ss : Fits(ss, i)') /\ TrashFits(T, ss)'
<1>0. TypeInv /\ owner \in Seq(Nat) /\ owner' = owner \o <<>> /\ <<>> \in Seq(Nat)
  BY DEF IInv, TypeInv
<1>1. PICK ds : ds = {e \in docs : e.id # r.id}
  OBVIOUS
<1>2. PICK b : b = SaveRegistry(ds)
  OBVIOUS
<1>3. PICK a : a = IF files[r.after] = None THEN <<>> ELSE MoveToTrash(r.after, None)
  OBVIOUS
<1>4. ss = a \o b
  BY <1>1, <1>2, <1>3 DEF UndoAdd
<1>5. a \in Seq(StepType) /\ (\A i \in DOMAIN a : Fits(a, i)') /\ TrashFits(T, a)'
  <2>1. CASE files[r.after] = None
    <3>1. a \in Seq(StepType) /\ DOMAIN a = {}
      BY <1>3, <2>1, NoSteps
    <3>2. TrashFits(T, a)'
      BY <3>1, Untouched
    <3> QED
      BY <3>1, <3>2
  <2>2. CASE files[r.after] # None
    <3>1. a = MoveToTrash(r.after, None)
      BY <1>3, <2>2
    <3>2. a \in Seq(StepType) /\ (\A i \in DOMAIN a : Fits(a, i)') /\ TrashFits({Len(stored) + 1}, a)'
      BY <1>0, <2>2, <3>1, MoveToTrashFits
    <3>3. {Len(stored) + 1}' = T
      OBVIOUS
    <3> QED
      BY <3>2, <3>3 DEF TrashFits
  <2> QED
    BY <2>1, <2>2
<1>6. Settling(b)'
  <2>1. Distinct(ds) /\ ds \in SUBSET Entry
    BY <1>1, OpenEntries DEF Distinct
  <2>2. Distinct(ds)'
    BY <1>0, <2>1, DistinctGrows
  <2>3. Settling(SaveRegistry(ds))'
    BY <2>1, <2>2, SettlingRegistry
  <2>4. SaveRegistry(ds)' = b
    BY <1>2 DEF SaveRegistry
  <2> QED
    BY <2>3, <2>4
<1> QED
  BY <1>4, <1>5, <1>6, TailFits, TrashTail

\* The undo of a removal: the entry back into the registry.
LEMMA UndoRemoveFits ==
    ASSUME IInv, docs # Missing, NEW r \in ReceiptType, Sensible(r), r.op = "remove",
           UNCHANGED <<files, stored, manifest, registry, receipts, docs, made, owner, torn, hidden>>,
           job.steps = <<>>, NEW T,
           NEW ss, ss = UndoRemove(r)
    PROVE  ss \in Seq(StepType) /\ (\A i \in DOMAIN ss : Fits(ss, i)') /\ TrashFits(T, ss)'
<1>0. TypeInv /\ owner \in Seq(Nat) /\ owner' = owner \o <<>> /\ <<>> \in Seq(Nat)
  BY DEF IInv, TypeInv
<1>1. PICK ds : ds = IF Registered(docs, r.id) THEN docs ELSE docs \cup {r.entry}
  OBVIOUS
<1>2. ss = SaveRegistry(ds)
  BY <1>1 DEF UndoRemove
<1>3. Distinct(docs) /\ docs \in SUBSET Entry
  BY OpenEntries
<1>4. r.entry \in Entries /\ r.entry \in Entry /\ r.entry.id = r.id
  BY <1>0, EntriesGiven DEF Sensible
<1>5. Distinct(ds) /\ ds \in SUBSET Entry
  <2>1. CASE Registered(docs, r.id)
    BY <1>1, <1>3, <2>1
  <2>2. CASE ~Registered(docs, r.id)
    <3>1. ds = docs \cup {r.entry} /\ \A d \in docs : d.id # r.entry.id
      BY <1>1, <1>4, <2>2 DEF Registered
    <3> QED
      BY <1>3, <1>4, <3>1 DEF Distinct
  <2> QED
    BY <2>1, <2>2
<1>6. Distinct(ds)'
  BY <1>0, <1>5, DistinctGrows
<1>7. Settling(ss)'
  <2>1. Settling(SaveRegistry(ds))'
    BY <1>5, <1>6, SettlingRegistry
  <2>2. SaveRegistry(ds)' = ss
    BY <1>2 DEF SaveRegistry
  <2> QED
    BY <2>1, <2>2
<1> QED
  BY <1>7, SettlingFits

\* Concatenation, as an operator of its own.
Joined(a, b) == a \o b

\* It joins sequences of steps to one.
LEMMA JoinedTypes == \A a, b \in Seq(StepType) : Joined(a, b) \in Seq(StepType)
BY DEF Joined

\* Concatenation is associative.
LEMMA JoinedIsAssociative ==
    \A a, b, c \in Seq(StepType) : Joined(Joined(a, b), c) = Joined(a, Joined(b, c))
BY DEF Joined

\* The same, spelled out.
LEMMA Associative ==
    ASSUME NEW a \in Seq(StepType), NEW b \in Seq(StepType), NEW c \in Seq(StepType)
    PROVE  (a \o b) \o c = a \o (b \o c)
OBVIOUS

\* Four sequences in two groups.
Regroups(w, m, b, c) == (w \o (m \o b)) \o c = (w \o m) \o (b \o c)

\* It holds of any four sequences of steps.
LEMMA Regrouped == \A w, m, b, c \in Seq(StepType) : Regroups(w, m, b, c)
<1> SUFFICES ASSUME NEW w \in Seq(StepType), NEW m \in Seq(StepType),
                    NEW b \in Seq(StepType), NEW c \in Seq(StepType)
             PROVE  Regroups(w, m, b, c)
  OBVIOUS
<1>1. PICK x \in Seq(StepType) : x = Joined(m, b)
  BY JoinedTypes
<1>2. PICK y \in Seq(StepType) : y = Joined(b, c)
  BY JoinedTypes
<1>3. Joined(Joined(w, x), c) = Joined(w, Joined(x, c))
  BY JoinedIsAssociative
<1>4. Joined(x, c) = Joined(m, y)
  BY <1>1, <1>2, JoinedIsAssociative
<1>5. Joined(Joined(w, m), y) = Joined(w, Joined(m, y))
  BY JoinedIsAssociative
<1>6. Joined(Joined(w, Joined(m, b)), c) = Joined(Joined(w, m), Joined(b, c))
  BY <1>1, <1>2, <1>3, <1>4, <1>5
<1> QED
  BY <1>6 DEF Joined, Regroups

\* The undo of a rename: the replaced bytes back, the file back, the entry back.
LEMMA UndoRenameFits ==
    ASSUME IInv, docs # Missing, NEW r \in ReceiptType, Sensible(r), r.op = "rename",
           UNCHANGED <<files, stored, manifest, registry, receipts, docs, made, owner, torn, hidden>>,
           job.steps = <<>>, NEW T,
           gone' = gone \cup {files[p].what : p \in Replaced(r)},
           NEW ws, ws = Writes(r.repaired, LAMBDA b : b.backup),
           NEW c, Settling(c)',
           NEW ss, ss = ws \o UndoRename(r) \o c
    PROVE  ss \in Seq(StepType) /\ (\A i \in DOMAIN ss : Fits(ss, i)') /\ TrashFits(T, ss)'
<1>0. /\ TypeInv /\ owner \in Seq(Nat) /\ owner' = owner \o <<>> /\ <<>> \in Seq(Nat)
      /\ files \in [Paths -> Contents \cup {None}] /\ made \in Nat /\ None \notin Contents
  BY LibraryConstants DEF IInv, TypeInv, LibraryConstants
<1>1. PICK reps \in Seq(Backup) : reps = r.repaired
  BY DEF ReceiptType
<1>2. PICK p \in Paths, q \in Paths : p = r.before /\ q = r.after /\ p # q
  BY DEF Sensible
<1>3. /\ \A i, j \in DOMAIN reps : reps[i].path = reps[j].path => i = j
      /\ \A i \in DOMAIN reps : reps[i].path # p /\ reps[i].backup.what <= made
  BY <1>1, <1>2 DEF Sensible
<1>4. ws = [i \in DOMAIN reps |-> <<"write", reps[i].path, reps[i].backup>>]
  BY <1>1 DEF Writes
<1>5. PICK n \in Nat : n = Len(reps) /\ DOMAIN reps = 1 .. n /\ \A i \in 1 .. n : reps[i] \in Backup
  BY <1>1
<1>6. \A i \in 1 .. n : reps[i].path \in Paths /\ reps[i].backup \in Contents
                        /\ reps[i].backup.what \in Nat
  BY <1>5 DEF Backup, Contents
<1>7. /\ ws \in Seq(StepType) /\ Len(ws) = n
      /\ \A i \in 1 .. n : /\ ws[i][1] = "write" /\ ws[i][2] = reps[i].path
                           /\ ws[i][3] = reps[i].backup
  <2>1. \A i \in 1 .. n : ws[i] \in StepType
    BY <1>4, <1>5, <1>6, StepTypes
  <2>2. ws \in [1 .. n -> StepType]
    BY <1>4, <1>5, <2>1
  <2> QED
    BY <1>4, <1>5, <2>2
<1>8. PICK mv : mv = IF AfterBackups(r)[q] = None THEN <<>> ELSE << <<"move", q, p>> >>
  OBVIOUS
<1>9. mv \in Seq(StepType) /\ Len(mv) \in {0, 1} /\ (Len(mv) = 1 => mv[1] = <<"move", q, p>>)
      /\ (Len(mv) = 1 => AfterBackups(r)[q] # None)
  <2>1. CASE AfterBackups(r)[q] = None
    BY <1>8, <2>1, NoSteps
  <2>2. CASE AfterBackups(r)[q] # None
    <3>1. PICK s \in StepType : s = <<"move", q, p>>
      BY StepTypes
    <3>2. mv = <<s>>
      BY <1>8, <2>2, <3>1
    <3> QED
      BY <2>2, <3>1, <3>2
  <2> QED
    BY <2>1, <2>2
<1>10. PICK ds : ds = {IF e.id = r.id THEN [e EXCEPT !.path = p] ELSE e : e \in docs}
  OBVIOUS
<1>11. PICK b : b = IF ~Registered(docs, r.id) THEN <<>> ELSE SaveRegistry(ds)
  OBVIOUS
<1>12. UndoRename(r) = mv \o b
  BY <1>2, <1>8, <1>10, <1>11 DEF UndoRename
<1>13. Distinct(ds) /\ ds \in SUBSET Entry
  <2>1. Distinct(docs) /\ docs \in SUBSET Entry
    BY OpenEntries
  <2>2. \A e \in docs : /\ [e EXCEPT !.path = p] \in Entries /\ [e EXCEPT !.path = p] \in Entry
                        /\ [e EXCEPT !.path = p].id = e.id
    BY <2>1 DEF Distinct, Entries, Entry
  <2>3. \A d \in ds : d \in Entries /\ d \in Entry
                      /\ \E e \in docs : d = (IF e.id = r.id THEN [e EXCEPT !.path = p] ELSE e)
                                         /\ d.id = e.id
    <3>1. \A e \in docs : /\ e \in Entries /\ e \in Entry
                          /\ (IF e.id = r.id THEN [e EXCEPT !.path = p] ELSE e) \in Entries
                          /\ (IF e.id = r.id THEN [e EXCEPT !.path = p] ELSE e) \in Entry
                          /\ (IF e.id = r.id THEN [e EXCEPT !.path = p] ELSE e).id = e.id
      BY <2>1, <2>2 DEF Distinct
    <3>2. \A d \in ds : \E e \in docs : d = (IF e.id = r.id THEN [e EXCEPT !.path = p] ELSE e)
      BY <1>10
    <3> QED
      BY <3>1, <3>2
  <2>4. \A x, y \in ds : x.id = y.id => x = y
    <3>1. ASSUME NEW x \in ds, NEW y \in ds, x.id = y.id
          PROVE  x = y
      <4>1. PICK d \in docs : x = (IF d.id = r.id THEN [d EXCEPT !.path = p] ELSE d) /\ x.id = d.id
        BY <2>3
      <4>2. PICK e \in docs : y = (IF e.id = r.id THEN [e EXCEPT !.path = p] ELSE e) /\ y.id = e.id
        BY <2>3
      <4>3. d = e
        BY <2>1, <3>1, <4>1, <4>2 DEF Distinct
      <4> QED
        BY <4>1, <4>2, <4>3
    <3> QED
      BY <3>1
  <2>5. Distinct(ds)
    BY <2>3, <2>4 DEF Distinct
  <2> QED
    BY <2>3, <2>5
<1>14. Settling(b)'
  <2>1. CASE ~Registered(docs, r.id)
    BY <1>11, <2>1, NoSteps
  <2>2. CASE Registered(docs, r.id)
    <3>1. Distinct(ds)'
      BY <1>0, <1>13, DistinctGrows
    <3>2. Settling(SaveRegistry(ds))'
      BY <1>13, <3>1, SettlingRegistry
    <3>3. SaveRegistry(ds)' = b
      BY <1>11, <2>2 DEF SaveRegistry
    <3> QED
      BY <3>2, <3>3
  <2> QED
    BY <2>1, <2>2
<1>15. PICK a : a = ws \o mv
  OBVIOUS
<1>16. /\ a \in Seq(StepType) /\ Len(a) = n + Len(mv) /\ DOMAIN a = 1 .. Len(a)
       /\ \A i \in 1 .. n : a[i] = ws[i]
       /\ Len(mv) = 1 => a[n + 1] = mv[1]
  BY <1>7, <1>9, <1>15, Concatenated
<1>17. PICK d : d = b \o c
  OBVIOUS
<1>18. Settling(d)'
  BY <1>14, <1>17, SettlingAppend
<1>19. ss = a \o d
  <2>1. b \in Seq(StepType) /\ c \in Seq(StepType)
    BY <1>14 DEF Settling
  <2>2. ws \in Seq(StepType) /\ mv \in Seq(StepType)
    BY <1>7, <1>9
  <2>3. Regroups(ws, mv, b, c)
    BY <2>1, <2>2, Regrouped
  <2>4. ss = (ws \o (mv \o b)) \o c
    BY <1>12
  <2> QED
    BY <1>15, <1>17, <2>3, <2>4 DEF Regroups
<1>20. \A i \in 1 .. n : FreeFor(files[reps[i].path], gone' \cup {reps[i].backup.what})
  <2> SUFFICES ASSUME NEW i \in 1 .. n, files[reps[i].path] # None,
                      files[reps[i].path].what # reps[i].backup.what
               PROVE  files[reps[i].path].what \in gone'
    BY DEF FreeFor
  <2>1. reps[i] \in Range(r.repaired)
    BY <1>1, <1>5 DEF Range
  <2>2. reps[i].path \in Replaced(r)
    BY <2>1 DEF Replaced
  <2> QED
    BY <2>2
<1>21. Len(mv) = 1 => FreeFor(files[p], gone')
  <2> SUFFICES ASSUME Len(mv) = 1, files[p] # None
               PROVE  files[p].what \in gone'
    BY DEF FreeFor
  <2>1. p \in Replaced(r)
    BY <1>2, <1>9 DEF Replaced
  <2> QED
    BY <2>1
<1>22. ASSUME NEW i \in 1 .. n
       PROVE  Fits(a, i)'
  <2>1. a[i][1] = "write" /\ a[i][2] = reps[i].path /\ a[i][3] = reps[i].backup
    BY <1>7, <1>16
  <2>2. a[1][1] = "write"
    <3>1. 1 \in 1 .. n
      OBVIOUS
    <3>2. a[1] = ws[1]
      BY <1>16, <3>1
    <3>3. ws[1][1] = "write"
      BY <1>7, <3>1
    <3> QED
      BY <3>2, <3>3, Zenon
  <2>3. \A j \in 1 .. i - 1 : a[j][1] = "write" /\ a[j][2] # a[i][2]
    <3>1. \A j \in 1 .. i - 1 : j \in 1 .. n /\ j # i
      BY <1>5
    <3>2. ASSUME NEW j \in 1 .. i - 1
          PROVE  a[j][1] = "write" /\ a[j][2] # a[i][2]
      <4>1. PICK k \in 1 .. n : k = j /\ k # i
        BY <3>1
      <4>2. a[k] = ws[k] /\ ws[k][1] = "write" /\ ws[k][2] = reps[k].path
        BY <1>7, <1>16
      <4>3. reps[k].path # reps[i].path
        BY <1>3, <1>5, <4>1
      <4> QED
        BY <2>1, <4>1, <4>2, <4>3
    <3> QED
      BY <3>2
  <2>4. File(a, a[i][2])' = files[reps[i].path]
    BY <2>1, <2>2 DEF File
  <2>5. FreeFor(files[reps[i].path], gone' \cup {a[i][3].what})
    BY <1>20, <2>1
  <2>6. a[i][3].what <= made + 1
    <3>1. PICK x \in Nat : x = reps[i].backup.what /\ x <= made
      BY <1>3, <1>5, <1>6
    <3>2. a[i][3].what = x
      BY <2>1, <3>1
    <3> QED
      BY <1>0, <3>1, <3>2
  <2>7. WriteFits(a, i)'
    BY <2>1, <2>3, <2>4, <2>5, <2>6 DEF WriteFits, FreeFor
  <2> QED
    BY <2>1, <2>7, FitsByKind
<1>23. Len(mv) = 1 => Fits(a, n + 1)'
  <2> HAVE Len(mv) = 1
  <2>1. a[n + 1][1] = "move" /\ a[n + 1][2] = q /\ a[n + 1][3] = p
    BY <1>9, <1>16
  <2>2. \A j \in 1 .. (n + 1) - 1 : a[j][1] = "write" /\ a[j][2] # p
    <3>1. \A j \in 1 .. (n + 1) - 1 : j \in 1 .. n
      OBVIOUS
    <3>2. \A j \in 1 .. n : a[j] = ws[j] /\ reps[j].path # p
      BY <1>3, <1>5, <1>16
    <3>3. ASSUME NEW j \in 1 .. n
          PROVE  a[j][1] = "write" /\ a[j][2] # p
      <4>1. ws[j][1] = "write" /\ ws[j][2] = reps[j].path
        BY <1>7
      <4> QED
        BY <3>2, <4>1
    <3> QED
      BY <3>1, <3>3
  <2>3. MoveFits(a, n + 1)'
    BY <1>2, <1>21, <2>1, <2>2 DEF MoveFits, FreeFor
  <2> QED
    BY <2>1, <2>3, FitsByKind
<1>24. \A i \in DOMAIN a : i \in 1 .. n \/ (Len(mv) = 1 /\ i = n + 1)
  <2>1. CASE Len(mv) = 0
    <3>1. DOMAIN a = 1 .. n
      BY <1>16, <2>1
    <3> QED
      BY <3>1
  <2>2. CASE Len(mv) = 1
    <3>1. DOMAIN a = 1 .. n + 1
      BY <1>16, <2>2
    <3> QED
      BY <2>2, <3>1
  <2> QED
    BY <1>9, <2>1, <2>2
<1>25. \A i \in DOMAIN a : Fits(a, i)'
  BY <1>22, <1>23, <1>24
<1>26. \A i \in DOMAIN a : a[i][1] \notin {"store", "drop", "list"}
  <2>1. \A i \in 1 .. n : a[i][1] = "write"
    BY <1>7, <1>16
  <2>2. Len(mv) = 1 => a[n + 1][1] = "move"
    BY <1>9, <1>16
  <2> QED
    BY <1>24, <2>1, <2>2
<1>27. TrashFits(T, a)'
  BY <1>16, <1>26, Untouched
<1>28. TrashFits(T, ss)'
  BY <1>16, <1>18, <1>19, <1>27, TrashTail
<1> QED
  BY <1>16, <1>18, <1>19, <1>25, <1>28, TailFits

\* So does an undo, whatever was done since the operation it undoes.
LEMMA UndoStep ==
    ASSUME IInv, NEW i \in DOMAIN receipts, UndoDocumentOp(i)
    PROVE  IInv'
<1>0. /\ TypeInv /\ DiskInv /\ owner \in Seq(Nat) /\ docs # Missing /\ receipts \in Seq(ReceiptType)
      /\ stored \in Seq(Contents \cup {None})
  BY DEF IInv, TypeInv, UndoDocumentOp
<1>1. PICK r \in ReceiptType : r = receipts[i]
  BY <1>0
<1>2. Sensible(r) /\ i \in Nat
  BY <1>0, <1>1 DEF DiskInv
<1>3. PICK ws : ws = Writes(r.repaired, LAMBDA b : b.backup)
  OBVIOUS
<1>4. PICK c : c = IF r.op # "rename" \/ Registered(docs, r.id) THEN << <<"undone", i>> >> ELSE <<>>
  OBVIOUS
<1>5. PICK x : x = CASE r.op \in {"create", "import", "duplicate"} -> UndoAdd(r)
                     [] r.op = "rename" -> UndoRename(r)
                     [] r.op = "remove" -> UndoRemove(r)
  OBVIOUS
<1>6. PICK ss : ss = ws \o x \o c
  OBVIOUS
<1>7. ss = UndoSteps(i)
  BY <1>1, <1>3, <1>4, <1>5, <1>6 DEF UndoSteps
<1>8. PICK met : met = {r.id} \cup {e.id : e \in {e \in docs :
                          e.path \in Replaced(r) \cup {r.before, r.after}}}
  OBVIOUS
<1>8a. PICK T : T = {Len(stored) + 1}
  OBVIOUS
<1>9. /\ Begin(met, T, ss) /\ torn' = torn
      /\ gone' = gone \cup {files[p].what : p \in Replaced(r)}
      /\ owner' = owner
  BY <1>1, <1>7, <1>8, <1>8a DEF UndoDocumentOp
<1>10. /\ UNCHANGED <<files, stored, manifest, registry, receipts, docs, made, owner, torn, hidden>>
       /\ job.steps = <<>>
  BY <1>0, <1>9, BeginFacts
<1>11. owner' = owner \o <<>> /\ <<>> \in Seq(Nat)
  BY <1>0, <1>9
<1>12. Settling(c)'
  <2>1. CASE r.op # "rename" \/ Registered(docs, r.id)
    <3>1. Settling(<< <<"undone", i>> >>)'
      BY <1>2, <1>10, SettlingUndone
    <3>2. c = << <<"undone", i>> >>
      BY <1>4, <2>1
    <3> QED
      BY <3>1, <3>2
  <2>2. CASE ~(r.op # "rename" \/ Registered(docs, r.id))
    BY <1>4, <2>2, NoSteps
  <2> QED
    BY <2>1, <2>2
<1>13. r.repaired = <<>> => ws = <<>>
  BY <1>3 DEF Writes
<1>14. ss \in Seq(StepType) /\ (\A k \in DOMAIN ss : Fits(ss, k)') /\ TrashFits(T, ss)'
  <2>1. CASE r.op \in {"create", "import", "duplicate"}
    <3>1. x = UndoAdd(r) /\ r.after \in Paths /\ ws = <<>>
      BY <1>2, <1>5, <1>13, <2>1 DEF Sensible
    <3>2. x \in Seq(StepType) /\ (\A k \in DOMAIN x : Fits(x, k)') /\ TrashFits(T, x)'
      BY <1>0, <1>8a, <1>10, <3>1, UndoAddFits
    <3>3. ss = x \o c
      BY <1>6, <3>1, <3>2
    <3> QED
      BY <1>12, <3>2, <3>3, TailFits, TrashTail
  <2>2. CASE r.op = "remove"
    <3>1. x = UndoRemove(r) /\ ws = <<>>
      BY <1>2, <1>5, <1>13, <2>2 DEF Sensible
    <3>2. x \in Seq(StepType) /\ (\A k \in DOMAIN x : Fits(x, k)') /\ TrashFits(T, x)'
      BY <1>0, <1>2, <1>10, <2>2, <3>1, UndoRemoveFits
    <3>3. ss = x \o c
      BY <1>6, <3>1, <3>2
    <3> QED
      BY <1>12, <3>2, <3>3, TailFits, TrashTail
  <2>3. CASE r.op = "rename"
    <3>1. x = UndoRename(r)
      BY <1>5, <2>3
    <3>2. ss = ws \o UndoRename(r) \o c
      BY <1>6, <3>1
    <3> QED
      BY <1>0, <1>2, <1>3, <1>9, <1>10, <1>12, <2>3, <3>2, UndoRenameFits
  <2>4. r.op \in {"create", "import", "duplicate", "rename", "remove"}
    BY DEF ReceiptType
  <2> QED
    BY <2>1, <2>2, <2>3, <2>4
<1>15. met \in SUBSET Nat /\ T \in SUBSET Nat
  <2>1. r.id \in Nat
    BY DEF ReceiptType
  <2>2. \A e \in docs : e.id \in Nat
    BY <1>0, OpenEntries
  <2> QED
    BY <1>0, <1>8, <1>8a, <2>1, <2>2
<1> QED
  BY <1>9, <1>11, <1>14, <1>15, BeginStep

\* The step that is made, and what is left to do after it.
LEMMA StepFacts ==
    ASSUME TypeInv, Step, NEW ss, ss = job.steps, NEW s, s = ss[1]
    PROVE  /\ ss \in Seq(StepType) /\ ss # <<>> /\ Len(ss) \in Nat /\ Len(ss) >= 1
           /\ DOMAIN ss = 1 .. Len(ss) /\ s \in StepType
           /\ job'.steps = Tail(ss) /\ DOMAIN job'.steps = 1 .. Len(ss) - 1
           /\ job'.steps \in Seq(StepType)
           /\ \A i \in 1 .. Len(ss) - 1 : job'.steps[i] = ss[i + 1]
           /\ job'.steps = <<>> => job' = Idle
           /\ job'.trash \subseteq job.trash
           /\ job' \in [ids : SUBSET Nat, trash : SUBSET Nat, steps : Seq(StepType)]
           /\ docs # Missing
           /\ UNCHANGED <<owner, gone, astray, torn, hidden, expected, ops, crashes>>
<1>1. /\ job \in [ids : SUBSET Nat, trash : SUBSET Nat, steps : Seq(StepType)]
      /\ ss \in Seq(StepType) /\ ss # <<>>
  BY DEF TypeInv, Step
<1>2. Len(ss) \in Nat /\ Len(ss) >= 1 /\ DOMAIN ss = 1 .. Len(ss) /\ s \in StepType
  BY <1>1
<1>3. /\ Tail(ss) \in Seq(StepType) /\ DOMAIN Tail(ss) = 1 .. Len(ss) - 1
      /\ \A i \in 1 .. Len(ss) - 1 : Tail(ss)[i] = ss[i + 1]
      /\ Tail(ss) = <<>> <=> Len(ss) = 1
  <2>1. /\ Tail(ss) \in Seq(StepType) /\ Len(Tail(ss)) = Len(ss) - 1
        /\ \A i \in 1 .. Len(ss) - 1 : Tail(ss)[i] = ss[i + 1]
    BY <1>1
  <2>2. DOMAIN Tail(ss) = 1 .. Len(ss) - 1
    BY <1>2, <2>1
  <2>3. Tail(ss) = <<>> <=> Len(Tail(ss)) = 0
    <3>1. \A t \in Seq(StepType) : t = <<>> <=> Len(t) = 0
      OBVIOUS
    <3> QED
      BY <2>1, <3>1
  <2>4. Len(Tail(ss)) = 0 <=> Len(ss) = 1
    BY <1>2, <2>1
  <2> QED
    BY <2>1, <2>2, <2>3, <2>4
<1>4. job' = IF Len(ss) = 1 THEN Idle ELSE [job EXCEPT !.steps = Tail(ss)]
  BY DEF Step
<1>5. job'.steps = Tail(ss) /\ (job'.steps = <<>> => job' = Idle) /\ job'.trash \subseteq job.trash
      /\ job' \in [ids : SUBSET Nat, trash : SUBSET Nat, steps : Seq(StepType)]
  <2>1. CASE Len(ss) = 1
    <3>1. job' = Idle /\ Tail(ss) = <<>>
      BY <1>3, <1>4, <2>1
    <3> QED
      BY <3>1 DEF Idle
  <2>2. CASE Len(ss) # 1
    <3>1. job' = [job EXCEPT !.steps = Tail(ss)] /\ Tail(ss) # <<>>
      BY <1>3, <1>4, <2>2
    <3> QED
      BY <1>1, <1>3, <3>1
  <2> QED
    BY <2>1, <2>2
<1>6. docs # Missing
  BY <1>1 DEF TypeInv, Idle
<1> QED
  BY <1>1, <1>2, <1>3, <1>5, <1>6 DEF Step

\* What each step changes.
LEMMA Effects ==
    ASSUME TypeInv, Step, NEW s, s = job.steps[1]
    PROVE  /\ s[1] = "move" =>
                 /\ files' = Moved(files, s[2], s[3])
                 /\ UNCHANGED <<stored, manifest, docs, registry, receipts, made, latest>>
           /\ s[1] = "store" =>
                 /\ files' = [files EXCEPT ![s[2]] = None] /\ stored' = Append(stored, files[s[2]])
                 /\ UNCHANGED <<manifest, docs, registry, receipts, made, latest>>
           /\ s[1] = "fetch" =>
                 /\ files' = [files EXCEPT ![s[3]] = stored[s[2]]]
                 /\ UNCHANGED <<stored, manifest, docs, registry, receipts, made, latest>>
           /\ s[1] = "write" =>
                 /\ files' = [files EXCEPT ![s[2]] = s[3]]
                 /\ made' = IF s[3].what > made THEN s[3].what ELSE made
                 /\ UNCHANGED <<stored, manifest, docs, registry, receipts, latest>>
           /\ s[1] = "drop" =>
                 /\ stored' = [stored EXCEPT ![s[2]] = None]
                 /\ UNCHANGED <<files, manifest, docs, registry, receipts, made, latest>>
           /\ s[1] = "unlist" =>
                 /\ manifest' = Missing
                 /\ UNCHANGED <<files, stored, docs, registry, receipts, made, latest>>
           /\ s[1] = "list" =>
                 /\ manifest' = s[2]
                 /\ UNCHANGED <<files, stored, docs, registry, receipts, made, latest>>
           /\ s[1] = "cut" =>
                 /\ docs' = s[2] /\ registry' = Missing
                 /\ UNCHANGED <<files, stored, manifest, receipts, made, latest>>
           /\ s[1] = "keep" =>
                 /\ registry' = s[2]
                 /\ UNCHANGED <<files, stored, manifest, docs, receipts, made, latest>>
           /\ s[1] = "receipt" =>
                 /\ receipts' = Append(receipts, s[2]) /\ latest' = Len(receipts) + 1
                 /\ UNCHANGED <<files, stored, manifest, docs, registry, made>>
           /\ s[1] = "undone" =>
                 /\ receipts' = [receipts EXCEPT ![s[2]].undone = TRUE]
                 /\ UNCHANGED <<files, stored, manifest, docs, registry, made, latest>>
<1>1. s = Head(job.steps)
  BY StepFacts
<1> QED
  BY <1>1 DEF Step, Moved

\* The invariant's view of the first step.
LEMMA FirstFits ==
    ASSUME IInv, Step, NEW s, s = job.steps[1]
    PROVE  /\ s[1] = "move" => s[2] # s[3] /\ FreeFor(files[s[3]], gone)
           /\ s[1] = "write" => /\ s[3].what <= made + 1
                                /\ FreeFor(files[s[2]], gone \cup {s[3].what})
           /\ s[1] = "store" => files[s[2]] # None
           /\ s[1] = "fetch" => /\ s[2] \in DOMAIN stored /\ stored[s[2]] # None
                                /\ files[s[3]] = None
           /\ s[1] = "drop" => /\ s[2] \in DOMAIN stored
                               /\ \/ FreeFor(stored[s[2]], gone)
                                  \/ \E p \in Paths : files[p] # None
                                                      /\ files[p].what = stored[s[2]].what
           /\ s[1] = "list" => Trashed(s[2], DOMAIN stored)
           /\ s[1] \in {"cut", "keep"} => Distinct(s[2])
           /\ s[1] = "receipt" => Sensible(s[2])
           /\ s[1] = "undone" => s[2] \in DOMAIN receipts
<1>1. PICK ss : ss = job.steps /\ s = ss[1] /\ 1 \in DOMAIN ss /\ Fits(ss, 1)
  <2>1. 1 \in DOMAIN job.steps
    BY StepFacts DEF IInv
  <2> QED
    BY <2>1 DEF IInv, JobInv
<1>2. MoveFits(ss, 1) /\ WriteFits(ss, 1) /\ StoreFits(ss, 1) /\ FetchFits(ss, 1) /\ DropFits(ss, 1)
      /\ ListFits(ss, 1) /\ RegistryFits(ss, 1)
  BY <1>1 DEF Fits
<1>3. s[1] = "move" => s[2] # s[3] /\ FreeFor(files[s[3]], gone)
  BY <1>1, <1>2 DEF MoveFits
<1>4. s[1] = "write" => s[3].what <= made + 1 /\ FreeFor(files[s[2]], gone \cup {s[3].what})
  BY <1>1, <1>2 DEF WriteFits, File
<1>5. s[1] = "drop" => /\ s[2] \in DOMAIN stored
                       /\ \/ FreeFor(stored[s[2]], gone)
                          \/ \E p \in Paths : files[p] # None /\ files[p].what = stored[s[2]].what
  BY <1>1, <1>2 DEF DropFits
<1>6. s[1] = "list" => Trashed(s[2], DOMAIN stored)
  <2> HAVE s[1] = "list"
  <2>1. Storing(ss) = {}
    BY <1>1 DEF Storing
  <2>2. Trashed(s[2], DOMAIN stored \cup Storing(ss))
    BY <1>1, <1>2 DEF ListFits
  <2>3. DOMAIN stored \cup Storing(ss) = DOMAIN stored
    BY <2>1
  <2> QED
    BY <2>2, <2>3
<1>7. /\ s[1] = "store" => files[s[2]] # None
      /\ s[1] = "fetch" => /\ s[2] \in DOMAIN stored /\ stored[s[2]] # None
                           /\ files[s[3]] = None
  BY <1>1, <1>2 DEF StoreFits, FetchFits
<1>8. /\ s[1] \in {"cut", "keep"} => Distinct(s[2])
      /\ s[1] = "receipt" => Sensible(s[2])
      /\ s[1] = "undone" => s[2] \in DOMAIN receipts
  BY <1>1, <1>2 DEF RegistryFits
<1> QED
  BY <1>3, <1>4, <1>5, <1>6, <1>7, <1>8

\* A step keeps the types.
LEMMA StepTyped ==
    ASSUME IInv, Step
    PROVE  TypeInv'
<1>0. /\ TypeInv
      /\ files \in [Paths -> Contents \cup {None}] /\ stored \in Seq(Contents \cup {None})
      /\ receipts \in Seq(ReceiptType) /\ made \in Nat /\ latest \in 0 .. Len(receipts)
      /\ manifest = Missing \/ manifest \in SUBSET Item
      /\ docs \in SUBSET Entry
      /\ registry = Missing \/ registry \in SUBSET Entry
      /\ owner \in Seq(Nat)
  BY StepFacts DEF IInv, TypeInv
<1>1. PICK s \in StepType : s = job.steps[1]
  BY <1>0, StepFacts
<1>2. s[1] \in {"move", "store", "fetch", "write", "drop", "unlist", "list", "cut", "keep",
                "receipt", "undone"}
  BY StepParts
<1>3. files' \in [Paths -> Contents \cup {None}]
  <2>1. CASE s[1] = "move"
    <3>1. files' = Moved(files, s[2], s[3])
      BY <1>0, <1>1, <2>1, Effects
    <3>2. s[2] \in Paths /\ s[3] \in Paths
      BY <2>1, StepParts
    <3> QED
      BY <1>0, <3>1, <3>2 DEF Moved
  <2>2. CASE s[1] = "store"
    <3>1. files' = [files EXCEPT ![s[2]] = None]
      BY <1>0, <1>1, <2>2, Effects
    <3> QED
      BY <1>0, <3>1
  <2>3. CASE s[1] = "fetch"
    <3>1. s[2] \in DOMAIN stored
      BY <1>1, <2>3, FirstFits
    <3>2. stored[s[2]] \in Contents \cup {None}
      BY <1>0, <3>1
    <3>3. files' = [files EXCEPT ![s[3]] = stored[s[2]]]
      BY <1>0, <1>1, <2>3, Effects
    <3> QED
      BY <1>0, <3>2, <3>3
  <2>4. CASE s[1] = "write"
    <3>1. files' = [files EXCEPT ![s[2]] = s[3]]
      BY <1>0, <1>1, <2>4, Effects
    <3>2. s[2] \in Paths /\ s[3] \in Contents \cup {None}
      BY <2>4, StepParts
    <3> QED
      BY <1>0, <3>1, <3>2
  <2>5. CASE s[1] \in {"drop", "unlist", "list", "cut", "keep", "receipt", "undone"}
    BY <1>0, <1>1, <2>5, Effects
  <2> QED
    BY <1>2, <2>1, <2>2, <2>3, <2>4, <2>5
<1>4. stored' \in Seq(Contents \cup {None})
  <2>1. CASE s[1] = "store"
    <3>1. files[s[2]] \in Contents \cup {None}
      BY <1>0, <2>1, StepParts
    <3>2. stored' = Append(stored, files[s[2]])
      BY <1>0, <1>1, <2>1, Effects
    <3> QED
      BY <1>0, <3>1, <3>2
  <2>2. CASE s[1] = "drop"
    <3>1. s[2] \in DOMAIN stored /\ None \in Contents \cup {None}
      BY <1>1, <2>2, FirstFits
    <3>2. stored' = [stored EXCEPT ![s[2]] = None]
      BY <1>0, <1>1, <2>2, Effects
    <3> QED
      BY <1>0, <3>1, <3>2
  <2>3. CASE s[1] \in {"move", "fetch", "write", "unlist", "list", "cut", "keep", "receipt", "undone"}
    BY <1>0, <1>1, <2>3, Effects
  <2> QED
    BY <1>2, <2>1, <2>2, <2>3
<1>5. /\ manifest' = Missing \/ manifest' \in SUBSET Item
      /\ docs' \in SUBSET Entry
      /\ registry' = Missing \/ registry' \in SUBSET Entry
  <2>1. CASE s[1] = "cut"
    <3>1. s[2] \in SUBSET Entry
      BY <2>1, StepParts
    <3> QED
      BY <1>0, <1>1, <2>1, <3>1, Effects
  <2>2. CASE s[1] = "keep"
    <3>1. s[2] \in SUBSET Entry
      BY <2>2, StepParts
    <3> QED
      BY <1>0, <1>1, <2>2, <3>1, Effects
  <2>3. CASE s[1] = "list"
    <3>1. s[2] \in SUBSET Item
      BY <2>3, StepParts
    <3> QED
      BY <1>0, <1>1, <2>3, <3>1, Effects
  <2>4. CASE s[1] \in {"move", "store", "fetch", "write", "drop", "unlist", "receipt", "undone"}
    BY <1>0, <1>1, <2>4, Effects
  <2> QED
    BY <1>2, <2>1, <2>2, <2>3, <2>4
<1>6. receipts' \in Seq(ReceiptType) /\ latest' \in 0 .. Len(receipts')
  <2>1. CASE s[1] = "receipt"
    <3>1. s[2] \in ReceiptType
      BY <2>1, StepParts
    <3>2. receipts' = Append(receipts, s[2]) /\ latest' = Len(receipts) + 1
      BY <1>0, <1>1, <2>1, Effects
    <3> QED
      BY <1>0, <3>1, <3>2
  <2>2. CASE s[1] = "undone"
    <3>1. s[2] \in DOMAIN receipts
      BY <1>1, <2>2, FirstFits
    <3>2. receipts' = [receipts EXCEPT ![s[2]].undone = TRUE] /\ latest' = latest
      BY <1>0, <1>1, <2>2, Effects
    <3>3. [receipts[s[2]] EXCEPT !.undone = TRUE] \in ReceiptType
      <4>1. receipts[s[2]] \in ReceiptType
        BY <1>0, <3>1
      <4> QED
        BY <4>1 DEF ReceiptType
    <3>4. receipts' = [receipts EXCEPT ![s[2]] = [receipts[s[2]] EXCEPT !.undone = TRUE]]
      BY <3>2
    <3>5. receipts' \in Seq(ReceiptType) /\ Len(receipts') = Len(receipts)
      BY <1>0, <3>1, <3>3, <3>4
    <3> QED
      BY <1>0, <3>2, <3>5
  <2>3. CASE s[1] \in {"move", "store", "fetch", "write", "drop", "unlist", "list", "cut", "keep"}
    BY <1>0, <1>1, <2>3, Effects
  <2> QED
    BY <1>2, <2>1, <2>2, <2>3
<1>7. made' \in Nat
  <2>1. CASE s[1] = "write"
    <3>1. s[3].what \in Nat
      BY <2>1, StepParts DEF Contents
    <3> QED
      BY <1>0, <1>1, <2>1, <3>1, Effects
  <2>2. CASE s[1] # "write"
    BY <1>0, <1>1, <1>2, <2>2, Effects
  <2> QED
    BY <2>1, <2>2
<1>8. docs' # Missing
  BY <1>5, NotMissing
<1>9. /\ job' \in [ids : SUBSET Nat, trash : SUBSET Nat, steps : Seq(StepType)]
      /\ job'.steps = <<>> => job' = Idle
      /\ owner' = owner
  BY <1>0, StepFacts
<1>10. baks' \in [Paths -> Contents \cup {None}] /\ aside' = FALSE
  <2>1. baks' = baks \/ baks' = [baks EXCEPT ![s[2]] = None]
    BY <1>0, <1>1, StepFacts DEF Step
  <2>2. aside' = FALSE
    BY DEF Step
  <2> QED
    BY <1>0, <2>1, <2>2 DEF TypeInv
<1>11. hidden' \subseteq DOMAIN stored'
  <2>1. DOMAIN stored \subseteq DOMAIN stored'
    <3>1. CASE s[1] = "store"
      <4>1. stored' = Append(stored, files[s[2]])
        BY <1>0, <1>1, <3>1, Effects
      <4> QED
        BY <1>0, <4>1
    <3>2. CASE s[1] = "drop"
      <4>1. stored' = [stored EXCEPT ![s[2]] = None]
        BY <1>0, <1>1, <3>2, Effects
      <4> QED
        BY <1>0, <4>1
    <3>3. CASE s[1] \in {"move", "fetch", "write", "unlist", "list", "cut", "keep", "receipt",
                         "undone"}
      BY <1>0, <1>1, <3>3, Effects
    <3> QED
      BY <1>2, <3>1, <3>2, <3>3
  <2> QED
    BY <1>0, <2>1, StepFacts DEF TypeInv
<1> QED
  BY <1>0, <1>3, <1>4, <1>5, <1>6, <1>7, <1>8, <1>9, <1>10, <1>11 DEF TypeInv

\* What no step undoes: entries and trash ids stay given out, receipts are not lost, and
\* the bytes written are not fewer.
LEMMA StepGrows ==
    ASSUME IInv, Step
    PROVE  /\ made \in Nat /\ made' \in Nat /\ made <= made'
           /\ DOMAIN receipts \subseteq DOMAIN receipts'
           /\ DOMAIN stored \cup Storing(job.steps) \subseteq DOMAIN stored'
           /\ \A d : Distinct(d) => Distinct(d)'
           /\ \A m, T : Trashed(m, T) => Trashed(m, T)'
           /\ \A r \in ReceiptType : Sensible(r) => Sensible(r)'
<1>0. /\ TypeInv /\ stored \in Seq(Contents \cup {None}) /\ receipts \in Seq(ReceiptType)
      /\ made \in Nat /\ made' \in Nat /\ owner' = owner
  BY StepFacts, StepTyped DEF IInv, TypeInv
<1>1. PICK s \in StepType : s = job.steps[1]
  BY <1>0, StepFacts
<1>2. s[1] \in {"move", "store", "fetch", "write", "drop", "unlist", "list", "cut", "keep",
                "receipt", "undone"}
  BY StepParts
<1>3. made <= made'
  <2>1. CASE s[1] = "write"
    <3>1. s[3].what \in Nat
      BY <2>1, StepParts DEF Contents
    <3>2. made' = IF s[3].what > made THEN s[3].what ELSE made
      BY <1>0, <1>1, <2>1, Effects
    <3> QED
      BY <1>0, <3>1, <3>2
  <2>2. CASE s[1] # "write"
    <3>1. made' = made
      BY <1>0, <1>1, <1>2, <2>2, Effects
    <3> QED
      BY <1>0, <3>1
  <2> QED
    BY <2>1, <2>2
<1>4. DOMAIN receipts \subseteq DOMAIN receipts'
  <2>1. CASE s[1] = "receipt"
    <3>1. receipts' = Append(receipts, s[2])
      BY <1>0, <1>1, <2>1, Effects
    <3>2. s[2] \in ReceiptType
      BY <2>1, StepParts
    <3> QED
      BY <1>0, <3>1, <3>2
  <2>2. CASE s[1] = "undone"
    <3>1. receipts' = [receipts EXCEPT ![s[2]].undone = TRUE]
      BY <1>0, <1>1, <2>2, Effects
    <3> QED
      BY <3>1
  <2>3. CASE s[1] \in {"move", "store", "fetch", "write", "drop", "unlist", "list", "cut", "keep"}
    BY <1>0, <1>1, <2>3, Effects
  <2> QED
    BY <1>2, <2>1, <2>2, <2>3
<1>5. DOMAIN stored \cup Storing(job.steps) \subseteq DOMAIN stored'
  <2>0. s[1] # "store" => Storing(job.steps) = {}
    BY <1>1 DEF Storing
  <2>1. CASE s[1] = "store"
    <3>1. stored' = Append(stored, files[s[2]])
      BY <1>0, <1>1, <2>1, Effects
    <3>2. files[s[2]] \in Contents \cup {None}
      BY <1>0, <2>1, StepParts DEF TypeInv
    <3>3. Storing(job.steps) \subseteq {Len(stored) + 1}
      BY DEF Storing
    <3>4. DOMAIN stored = 1 .. Len(stored) /\ DOMAIN stored' = 1 .. Len(stored) + 1 /\ Len(stored) \in Nat
      BY <1>0, <3>1, <3>2
    <3> QED
      BY <3>3, <3>4
  <2>2. CASE s[1] = "drop"
    <3>1. stored' = [stored EXCEPT ![s[2]] = None]
      BY <1>0, <1>1, <2>2, Effects
    <3> QED
      BY <2>0, <2>2, <3>1
  <2>3. CASE s[1] \in {"move", "fetch", "write", "unlist", "list", "cut", "keep", "receipt", "undone"}
    <3>1. stored' = stored
      BY <1>0, <1>1, <2>3, Effects
    <3> QED
      BY <2>0, <2>3, <3>1
  <2> QED
    BY <1>2, <2>1, <2>2, <2>3
<1>6. /\ \A d : Distinct(d) => Distinct(d)'
      /\ \A m, T : Trashed(m, T) => Trashed(m, T)'
  BY <1>0 DEF Distinct, Trashed, Entries
<1>7. ASSUME NEW r \in ReceiptType, Sensible(r)
      PROVE  Sensible(r)'
  <2>1. \A e : e \in Entries => e \in Entries'
    BY <1>0 DEF Entries
  <2>2. \A i \in DOMAIN r.repaired : r.repaired[i].backup.what \in Nat
    <3>1. r.repaired \in Seq(Backup)
      BY DEF ReceiptType
    <3>2. \A i \in DOMAIN r.repaired : r.repaired[i] \in Backup
      BY <3>1
    <3> QED
      BY <3>2 DEF Backup, Contents
  <2>3. r.op = "rename" => \A i \in DOMAIN r.repaired : r.repaired[i].backup.what <= made'
    BY <1>0, <1>3, <1>7, <2>2 DEF Sensible
  <2> QED
    BY <1>7, <2>1, <2>3 DEF Sensible
<1> QED
  BY <1>0, <1>3, <1>4, <1>5, <1>6, <1>7

\* The steps that are left fit what the first one leaves.
LEMMA StepJob ==
    ASSUME IInv, Step
    PROVE  JobInv'
<1>0. /\ TypeInv /\ files \in [Paths -> Contents \cup {None}] /\ gone' = gone
      /\ stored \in Seq(Contents \cup {None})
  BY StepFacts DEF IInv, TypeInv
<1>1. PICK ss \in Seq(StepType) : ss = job.steps
  BY DEF IInv, TypeInv
<1>2. PICK s \in StepType : s = ss[1] /\ s = job.steps[1]
  BY <1>0, <1>1, StepFacts
<1>3. PICK tl : tl = job'.steps
  OBVIOUS
<1>4. PICK n \in Nat : /\ n = Len(ss) /\ n >= 1 /\ DOMAIN ss = 1 .. n /\ DOMAIN tl = 1 .. n - 1
                       /\ \A i \in 1 .. n - 1 : tl[i] = ss[i + 1]
                       /\ tl \in Seq(StepType)
  BY <1>0, <1>1, <1>2, <1>3, StepFacts
<1>5. \A i \in 1 .. n : Fits(ss, i)
  BY <1>1, <1>4 DEF IInv, JobInv
<1>6. ASSUME NEW i \in 1 .. n - 1
      PROVE  Fits(tl, i)'
  <2>0. PICK k \in 2 .. n : k = i + 1 /\ i = k - 1 /\ k \in 1 .. n /\ i \in Nat
    BY <1>4
  <2>1. tl[i] = ss[k] /\ Fits(ss, k)
    BY <1>4, <1>5, <2>0
  <2>2. 1 \in 1 .. k - 1 /\ \A j \in 1 .. i - 1 : j + 1 \in 1 .. k - 1 /\ tl[j] = ss[j + 1]
    BY <1>4, <2>0
  <2>3. ss[k] \in StepType
    BY <1>1, <1>4, <2>0
  <2>4. CASE ss[k][1] = "move"
    <3>1. /\ ss[k][2] # ss[k][3] /\ FreeFor(files[ss[k][3]], gone) /\ ss[k][3] \in Paths
          /\ \A j \in 1 .. k - 1 : ss[j][1] = "write" /\ ss[j][2] # ss[k][3]
      BY <2>1, <2>3, <2>4, StepParts DEF Fits, MoveFits
    <3>2. s[1] = "write" /\ s[2] # ss[k][3]
      BY <1>2, <2>2, <3>1
    <3>3. files' = [files EXCEPT ![s[2]] = s[3]]
      BY <1>0, <1>2, <3>2, Effects
    <3>4. files'[ss[k][3]] = files[ss[k][3]]
      BY <1>0, <3>1, <3>2, <3>3
    <3>5. MoveFits(tl, i)'
      BY <1>0, <2>1, <2>2, <3>1, <3>4 DEF MoveFits, FreeFor
    <3> QED
      BY <2>1, <2>4, <3>5, FitsByKind
  <2>5. CASE ss[k][1] = "write"
    <3>1. PICK p \in Paths, c \in Contents : p = ss[k][2] /\ c = ss[k][3]
      BY <2>3, <2>5, StepParts
    <3>2. /\ c.what <= made + 1 /\ FreeFor(File(ss, p), gone \cup {c.what}) /\ c.what \in Nat
          /\ \A j \in 1 .. k - 1 : \/ ss[j][1] = "write" /\ ss[j][2] # p
                                   \/ ss[j][1] = "move" /\ j = 1
      BY <2>1, <2>5, <3>1 DEF Fits, WriteFits, Contents
    <3>3. c.what <= made' + 1
      BY <3>2, StepGrows
    <3>4. File(ss, p) = files'[p]
      <4>1. CASE s[1] = "write"
        <5>1. files' = [files EXCEPT ![s[2]] = s[3]] /\ s[2] # p
          BY <1>0, <1>2, <2>2, <3>2, <4>1, Effects
        <5>2. File(ss, p) = files[p]
          BY <1>2, <4>1 DEF File
        <5> QED
          BY <1>0, <5>1, <5>2
      <4>2. CASE s[1] = "move"
        <5>1. files' = Moved(files, s[2], s[3])
          BY <1>0, <1>2, <4>2, Effects
        <5> QED
          BY <1>2, <4>2, <5>1 DEF File
      <4> QED
        BY <1>2, <2>2, <3>2, <4>1, <4>2
    <3>5. tl[1][1] # "move"
      <4>1. CASE k = 2
        BY <2>0, <2>1, <2>5, <4>1
      <4>2. CASE k # 2
        <5>1. 2 \in 1 .. k - 1 /\ 1 \in 1 .. n - 1 /\ tl[1] = ss[2]
          BY <1>4, <2>0, <4>2
        <5> QED
          BY <3>2, <5>1
      <4> QED
        BY <4>1, <4>2
    <3>6. File(tl, p)' = files'[p]
      BY <3>5 DEF File
    <3>7. \A j \in 1 .. i - 1 : tl[j][1] = "write" /\ tl[j][2] # p
      <4>1. ASSUME NEW j \in 1 .. i - 1
            PROVE  tl[j][1] = "write" /\ tl[j][2] # p
        <5>1. j + 1 \in 1 .. k - 1 /\ tl[j] = ss[j + 1] /\ j + 1 # 1
          BY <2>0, <2>2
        <5> QED
          BY <3>2, <5>1
      <4> QED
        BY <4>1
    <3>8. tl[i][2] = p /\ tl[i][3] = c
      BY <2>1, <3>1
    <3>9. WriteFits(tl, i)'
      BY <1>0, <3>2, <3>3, <3>4, <3>6, <3>7, <3>8 DEF WriteFits, FreeFor
    <3> QED
      BY <2>1, <2>5, <3>9, FitsByKind
  <2>6. ss[k][1] # "store" /\ ss[k][1] # "fetch"
    BY <2>0, <2>1 DEF Fits, StoreFits, FetchFits
  <2>7. CASE ss[k][1] = "drop"
    <3>1. PICK t : t = ss[k][2]
      OBVIOUS
    <3>2. /\ t \in DOMAIN stored
          /\ \A j \in 1 .. k - 1 : ss[j][1] \in {"drop", "fetch"}
          /\ \/ FreeFor(stored[t], gone)
             \/ k = 2 /\ ss[1][1] = "fetch" /\ ss[1][2] = t
      BY <2>0, <2>1, <2>7, <3>1 DEF Fits, DropFits
    <3>3. \A j \in 1 .. i - 1 : tl[j][1] \in {"drop", "fetch"}
      BY <2>2, <3>2
    <3>4. t \in DOMAIN stored'
      BY <3>2, StepGrows
    <3>5. \/ FreeFor(stored'[t], gone')
          \/ i = 1 /\ \E p \in Paths : files'[p] # None /\ files'[p].what = stored'[t].what
      <4>1. CASE s[1] = "drop"
        <5>1. stored' = [stored EXCEPT ![s[2]] = None]
          BY <1>0, <1>2, <4>1, Effects
        <5>2. stored'[t] = stored[t] \/ stored'[t] = None
          BY <1>0, <3>2, <5>1
        <5>3. FreeFor(stored[t], gone)
          BY <1>2, <3>2, <4>1
        <5> QED
          BY <1>0, <5>2, <5>3 DEF FreeFor
      <4>2. CASE s[1] = "fetch"
        <5>1. stored' = stored /\ files' = [files EXCEPT ![s[3]] = stored[s[2]]]
          BY <1>0, <1>2, <4>2, Effects
        <5>2. CASE FreeFor(stored[t], gone)
          BY <1>0, <5>1, <5>2
        <5>3. CASE k = 2 /\ ss[1][2] = t
          <6>1. s[2] = t /\ i = 1 /\ s[3] \in Paths /\ stored[t] # None
            <7>1. s[2] = t /\ i = 1
              BY <1>2, <2>0, <5>3
            <7>2. s[3] \in Paths
              BY <4>2, StepParts
            <7>3. stored[s[2]] # None
              BY <1>2, <4>2, FirstFits
            <7> QED
              BY <7>1, <7>2, <7>3
          <6>2. files'[s[3]] = stored'[t]
            BY <1>0, <5>1, <6>1
          <6> QED
            BY <5>1, <6>1, <6>2
        <5> QED
          BY <3>2, <5>2, <5>3
      <4> QED
        BY <1>2, <2>2, <3>2, <4>1, <4>2
    <3>6. tl[i][2] = t
      BY <2>1, <3>1
    <3>7. DropFits(tl, i)'
      BY <3>3, <3>4, <3>5, <3>6 DEF DropFits
    <3> QED
      BY <2>1, <2>7, <3>7, FitsByKind
  <2>8. CASE ss[k][1] = "unlist"
    <3>1. k + 1 \in DOMAIN ss /\ ss[k + 1][1] = "list"
      BY <2>1, <2>8 DEF Fits, ListFits
    <3>2. i + 1 \in DOMAIN tl /\ tl[i + 1] = ss[k + 1]
      BY <1>4, <2>0, <3>1
    <3>3. ListFits(tl, i)'
      BY <2>1, <2>8, <3>1, <3>2 DEF ListFits
    <3> QED
      BY <2>1, <2>8, <3>3, FitsByKind
  <2>9. CASE ss[k][1] = "list"
    <3>1. PICK m : m = ss[k][2]
      OBVIOUS
    <3>2. /\ Trashed(m, DOMAIN stored \cup Storing(ss))
          /\ \A j \in DOMAIN ss : ss[j][1] = "list" => j = k
          /\ \A j \in k .. Len(ss) : ss[j][1] \notin {"unlist", "store", "drop"}
      BY <2>1, <2>9, <3>1 DEF Fits, ListFits
    <3>3. PICK T : T = (DOMAIN stored \cup Storing(tl))'
      OBVIOUS
    <3>4. DOMAIN stored \cup Storing(ss) \subseteq T
      BY <1>1, <3>3, StepGrows
    <3>5. Trashed(m, T)
      BY <3>2, <3>4 DEF Trashed
    <3>6. Trashed(m, T)'
      BY <3>5, StepGrows
    <3>7. Trashed(m, DOMAIN stored \cup Storing(tl))'
      BY <3>3, <3>6 DEF Trashed
    <3>8. \A j \in 1 .. n - 1 : tl[j][1] = "list" => j = i
      <4>1. \A j \in 1 .. n - 1 : j + 1 \in DOMAIN ss /\ tl[j] = ss[j + 1] /\ (j + 1 = k => j = i)
        BY <1>4, <2>0
      <4> QED
        BY <3>2, <4>1
    <3>9. \A j \in i .. Len(tl) : tl[j][1] \notin {"unlist", "store", "drop"}
      <4>1. Len(tl) = n - 1
        BY <1>4
      <4>2. \A j \in i .. Len(tl) : j + 1 \in k .. Len(ss) /\ tl[j] = ss[j + 1]
        BY <1>4, <2>0, <4>1
      <4> QED
        BY <3>2, <4>2
    <3>10. ListFits(tl, i)'
      BY <1>4, <2>1, <2>9, <3>1, <3>7, <3>8, <3>9 DEF ListFits
    <3> QED
      BY <2>1, <2>9, <3>10, FitsByKind
  <2>10. CASE ss[k][1] \in {"cut", "keep", "receipt", "undone"}
    <3>1. /\ ss[k][1] \in {"cut", "keep"} => Distinct(ss[k][2])
          /\ ss[k][1] = "receipt" => Sensible(ss[k][2]) /\ ss[k][2] \in ReceiptType
          /\ ss[k][1] = "undone" => ss[k][2] \in DOMAIN receipts
      BY <2>1, <2>3, StepParts DEF Fits, RegistryFits
    <3>2. /\ tl[i][1] \in {"cut", "keep"} => Distinct(tl[i][2])'
          /\ tl[i][1] = "receipt" => Sensible(tl[i][2])'
          /\ tl[i][1] = "undone" => tl[i][2] \in DOMAIN receipts'
      BY <2>1, <3>1, StepGrows
    <3> QED
      BY <2>1, <2>10, <3>2, FitsByKind
  <2> QED
    BY <2>3, <2>4, <2>5, <2>6, <2>7, <2>8, <2>9, <2>10, StepParts
<1> QED
  BY <1>3, <1>4, <1>6 DEF JobInv

\* The trash's files after a step: a store adds one, a drop takes one away.
LEMMA StepFiles ==
    ASSUME IInv, Step, NEW s, s = job.steps[1]
    PROVE  /\ DOMAIN stored' = DOMAIN stored \cup Storing(job.steps)
           /\ s[1] # "store" => Storing(job.steps) = {}
           /\ s[1] = "store" => Storing(job.steps) = {Len(stored) + 1}
           /\ Len(stored) + 1 \notin DOMAIN stored
           /\ \A t \in Storing(job.steps) : stored'[t] # None
           /\ \A t \in DOMAIN stored : stored'[t] = IF s[1] = "drop" /\ s[2] = t THEN None ELSE stored[t]
<1>0. /\ TypeInv /\ stored \in Seq(Contents \cup {None})
      /\ DOMAIN stored = 1 .. Len(stored) /\ Len(stored) \in Nat
      /\ files \in [Paths -> Contents \cup {None}] /\ s \in StepType
      /\ job.steps # <<>>
  BY StepFacts DEF IInv, TypeInv
<1>1. s[1] \in {"move", "store", "fetch", "write", "drop", "unlist", "list", "cut", "keep",
                "receipt", "undone"}
  BY <1>0, StepParts
<1>2. Len(stored) + 1 \notin DOMAIN stored
  BY <1>0
<1>3. CASE s[1] = "store"
  <2>1. Storing(job.steps) = {Len(stored) + 1}
    BY <1>0, <1>3 DEF Storing
  <2>2. PICK c \in Contents : c = files[s[2]] /\ c # None
    <3>1. s[2] \in Paths
      BY <1>0, <1>3, StepParts
    <3>2. files[s[2]] # None
      BY <1>3, FirstFits
    <3> QED
      BY <1>0, <3>1, <3>2
  <2>3. stored' = Append(stored, c)
    BY <1>0, <1>3, <2>2, Effects
  <2>4. /\ DOMAIN stored' = 1 .. Len(stored) + 1
        /\ stored'[Len(stored) + 1] = c
        /\ \A t \in DOMAIN stored : stored'[t] = stored[t]
    BY <1>0, <2>3
  <2>5. 1 .. Len(stored) + 1 = (1 .. Len(stored)) \cup {Len(stored) + 1}
    BY <1>0
  <2>6. DOMAIN stored' = DOMAIN stored \cup Storing(job.steps)
    BY <1>0, <2>1, <2>4, <2>5
  <2>7. \A t \in Storing(job.steps) : stored'[t] # None
    BY <2>1, <2>2, <2>4
  <2> QED
    BY <1>2, <1>3, <2>1, <2>4, <2>6, <2>7
<1>4. s[1] # "store" => Storing(job.steps) = {}
  BY DEF Storing
<1>5. CASE s[1] = "drop"
  <2>1. stored' = [stored EXCEPT ![s[2]] = None]
    BY <1>0, <1>5, Effects
  <2>2. /\ DOMAIN stored' = DOMAIN stored
        /\ \A t \in DOMAIN stored : stored'[t] = IF s[2] = t THEN None ELSE stored[t]
    BY <1>0, <2>1
  <2> QED
    BY <1>2, <1>4, <1>5, <2>2
<1>6. CASE s[1] \in {"move", "fetch", "write", "unlist", "list", "cut", "keep", "receipt", "undone"}
  <2>1. stored' = stored
    BY <1>0, <1>6, Effects
  <2> QED
    BY <1>2, <1>4, <1>6, <2>1
<1> QED
  BY <1>1, <1>3, <1>5, <1>6

\* What a step makes of the manifest.
LEMMA StepLists ==
    ASSUME IInv, Step, NEW s, s = job.steps[1]
    PROVE  /\ s[1] = "list" => manifest' = s[2] /\ Listed' = s[2]
           /\ s[1] = "unlist" => manifest' = Missing
           /\ s[1] \notin {"list", "unlist"} => manifest' = manifest /\ Listed' = Listed
<1>0. TypeInv /\ s \in StepType
  BY StepFacts DEF IInv
<1>1. s[1] \in {"move", "store", "fetch", "write", "drop", "unlist", "list", "cut", "keep",
                "receipt", "undone"}
  BY <1>0, StepParts
<1>2. s[1] = "list" => manifest' = s[2] /\ Listed' = s[2]
  <2> HAVE s[1] = "list"
  <2>1. s[2] \in SUBSET Item
    BY <1>0, StepParts
  <2>2. manifest' = s[2]
    BY <1>0, Effects
  <2> QED
    BY <2>1, <2>2, NotMissing DEF Listed
<1>3. s[1] = "unlist" => manifest' = Missing
  BY <1>0, Effects
<1>4. s[1] \notin {"list", "unlist"} => manifest' = manifest /\ Listed' = Listed
  <2> HAVE s[1] \notin {"list", "unlist"}
  <2>1. manifest' = manifest
    BY <1>0, <1>1, Effects
  <2> QED
    BY <2>1 DEF Listed
<1> QED
  BY <1>2, <1>3, <1>4

\* After a step the trash will have, and list, what it was to have and list before.
LEMMA StepTrash ==
    ASSUME IInv, Step
    PROVE  TrashInv'
<1>0. TypeInv /\ TrashFits(job.trash, job.steps) /\ torn' = torn /\ hidden' = hidden
  BY StepFacts DEF IInv, TrashInv
<1>1. PICK ss \in Seq(StepType) : ss = job.steps
  BY DEF IInv, TypeInv
<1>2. PICK s \in StepType : s = ss[1] /\ s = job.steps[1]
  BY <1>0, <1>1, StepFacts
<1>3. PICK tl : tl = job'.steps
  OBVIOUS
<1>4. PICK n \in Nat : /\ n = Len(ss) /\ n >= 1 /\ DOMAIN ss = 1 .. n /\ DOMAIN tl = 1 .. n - 1
                       /\ \A i \in 1 .. n - 1 : tl[i] = ss[i + 1]
                       /\ tl \in Seq(StepType)
  BY <1>0, <1>1, <1>2, <1>3, StepFacts
<1>5. \A i \in 1 .. n : Fits(ss, i)
  BY <1>1, <1>4 DEF IInv, JobInv
<1>6. PICK J : J = job.trash
  OBVIOUS
<1>7. PICK St : St = Storing(ss)
  OBVIOUS
<1>8. /\ St \subseteq J
      /\ \A i \in 1 .. n : ss[i][1] = "drop" => ss[i][2] \in J
      /\ \A t \in (DOMAIN stored \cup St) \ torn : Coming(ss, t)
  BY <1>0, <1>1, <1>4, <1>6, <1>7 DEF TrashFits
<1>9. /\ DOMAIN stored' = DOMAIN stored \cup St
      /\ s[1] # "store" => St = {}
      /\ s[1] = "store" => St = {Len(stored) + 1}
      /\ Len(stored) + 1 \notin DOMAIN stored
      /\ \A t \in St : stored'[t] # None
      /\ \A t \in DOMAIN stored : stored'[t] = IF s[1] = "drop" /\ s[2] = t THEN None ELSE stored[t]
  BY <1>1, <1>2, <1>7, StepFiles
<1>10. \A i \in 1 .. n - 1 : i + 1 \in 1 .. n /\ i + 1 # 1 /\ tl[i] = ss[i + 1]
  BY <1>4
<1>11. \A i \in 2 .. n : i - 1 \in 1 .. n - 1 /\ tl[i - 1] = ss[i]
  BY <1>4
<1>12. \A i \in 1 .. n : i = 1 \/ i \in 2 .. n
  BY <1>4
<1>13. 1 \in 1 .. n
  BY <1>4
<1>14. Storing(tl)' = {}
  <2>1. CASE tl = <<>>
    BY <2>1 DEF Storing
  <2>2. CASE tl # <<>>
    <3>1. 1 \in 1 .. n - 1
      BY <1>4, <2>2
    <3>2. PICK k \in 1 .. n : k # 1 /\ tl[1] = ss[k]
      BY <1>10, <3>1
    <3>3. ss[k][1] # "store"
      BY <1>5, <3>2 DEF Fits, StoreFits
    <3> QED
      BY <3>2, <3>3 DEF Storing
  <2> QED
    BY <2>1, <2>2
<1>15. \A t \in DOMAIN stored' : WillStay(tl, t)' <=> WillStay(ss, t)
  <2> SUFFICES ASSUME NEW t \in DOMAIN stored'
               PROVE  WillStay(tl, t)' <=> WillStay(ss, t)
    OBVIOUS
  <2>1. WillStay(tl, t)' <=> stored'[t] # None /\ \A i \in 1 .. n - 1 : tl[i][1] = "drop" => tl[i][2] # t
    BY <1>4, <1>14 DEF WillStay
  <2>2. WillStay(ss, t) <=> \/ t \in St
                            \/ /\ t \in DOMAIN stored /\ stored[t] # None
                               /\ \A i \in 1 .. n : ss[i][1] = "drop" => ss[i][2] # t
    BY <1>4, <1>7 DEF WillStay
  <2>3. (\A i \in 1 .. n : ss[i][1] = "drop" => ss[i][2] # t)
          <=> /\ s[1] = "drop" => s[2] # t
              /\ \A i \in 1 .. n - 1 : tl[i][1] = "drop" => tl[i][2] # t
    <3>1. ASSUME \A i \in 1 .. n : ss[i][1] = "drop" => ss[i][2] # t
          PROVE  /\ s[1] = "drop" => s[2] # t
                 /\ \A i \in 1 .. n - 1 : tl[i][1] = "drop" => tl[i][2] # t
      <4>1. s[1] = "drop" => s[2] # t
        BY <1>2, <1>13, <3>1
      <4>2. ASSUME NEW i \in 1 .. n - 1, tl[i][1] = "drop"
            PROVE  tl[i][2] # t
        <5>1. PICK k \in 1 .. n : tl[i] = ss[k]
          BY <1>10
        <5> QED
          BY <3>1, <4>2, <5>1
      <4> QED
        BY <4>1, <4>2
    <3>2. ASSUME s[1] = "drop" => s[2] # t,
                 \A i \in 1 .. n - 1 : tl[i][1] = "drop" => tl[i][2] # t,
                 NEW i \in 1 .. n, ss[i][1] = "drop"
          PROVE  ss[i][2] # t
      <4>1. CASE i = 1
        BY <1>2, <3>2, <4>1
      <4>2. CASE i \in 2 .. n
        <5>1. PICK k \in 1 .. n - 1 : tl[k] = ss[i]
          BY <1>11, <4>2
        <5> QED
          BY <3>2, <5>1
      <4> QED
        BY <1>12, <4>1, <4>2
    <3> QED
      BY <3>1, <3>2
  <2>4. CASE s[1] = "store"
    <3>1. \A i \in 1 .. n : ss[i][1] # "drop"
      <4>1. ASSUME NEW i \in 2 .. n, ss[i][1] = "drop"
            PROVE  FALSE
        <5>1. DropFits(ss, i) /\ 1 \in 1 .. i - 1
          BY <1>4, <1>5, <1>12 DEF Fits
        <5>2. ss[1][1] \in {"drop", "fetch"}
          BY <4>1, <5>1 DEF DropFits
        <5> QED
          BY <1>2, <2>4, <5>2
      <4> QED
        BY <1>2, <1>12, <2>4, <4>1
    <3>2. \A i \in 1 .. n - 1 : tl[i][1] # "drop"
      BY <1>10, <3>1
    <3>3. stored'[t] # None <=> t \in St \/ (t \in DOMAIN stored /\ stored[t] # None)
      BY <1>9, <2>4
    <3> QED
      BY <2>1, <2>2, <3>1, <3>2, <3>3
  <2>5. CASE s[1] = "drop"
    <3>1. St = {} /\ t \in DOMAIN stored
      BY <1>9, <2>5
    <3>2. CASE s[2] = t
      BY <1>9, <2>1, <2>2, <2>3, <2>5, <3>1, <3>2
    <3>3. CASE s[2] # t
      BY <1>9, <2>1, <2>2, <2>3, <2>5, <3>1, <3>3
    <3> QED
      BY <3>2, <3>3
  <2>6. CASE s[1] # "store" /\ s[1] # "drop"
    <3>1. St = {} /\ t \in DOMAIN stored /\ stored'[t] = stored[t]
      BY <1>9, <2>6
    <3> QED
      BY <2>1, <2>2, <2>3, <2>6, <3>1
  <2> QED
    BY <2>4, <2>5, <2>6
<1>16. \A t : WillBeListed(tl, t)' <=> WillBeListed(ss, t)
  <2> SUFFICES ASSUME NEW t
               PROVE  WillBeListed(tl, t)' <=> WillBeListed(ss, t)
    OBVIOUS
  <2>1. WillBeListed(tl, t)' <=>
           \/ \E i \in 1 .. n - 1 : tl[i][1] = "list" /\ \E l \in tl[i][2] : l.id = t
           \/ (\A i \in 1 .. n - 1 : tl[i][1] # "list") /\ \E l \in Listed' : l.id = t
    BY <1>4 DEF WillBeListed
  <2>2. WillBeListed(ss, t) <=>
           \/ \E i \in 1 .. n : ss[i][1] = "list" /\ \E l \in ss[i][2] : l.id = t
           \/ (\A i \in 1 .. n : ss[i][1] # "list") /\ \E l \in Listed : l.id = t
    BY <1>4 DEF WillBeListed
  <2>3. CASE s[1] = "list"
    <3>1. Listed' = s[2]
      BY <1>2, <2>3, StepLists
    <3>2. \A i \in 1 .. n : ss[i][1] = "list" => i = 1
      BY <1>2, <1>4, <1>5, <1>13, <2>3 DEF Fits, ListFits
    <3>3. \A i \in 1 .. n - 1 : tl[i][1] # "list"
      BY <1>10, <3>2
    <3> QED
      BY <1>2, <1>13, <2>1, <2>2, <2>3, <3>1, <3>2, <3>3
  <2>4. CASE s[1] # "list"
    <3>1. (\E i \in 1 .. n : ss[i][1] = "list" /\ \E l \in ss[i][2] : l.id = t)
            <=> \E i \in 1 .. n - 1 : tl[i][1] = "list" /\ \E l \in tl[i][2] : l.id = t
      <4>1. ASSUME NEW i \in 1 .. n, ss[i][1] = "list", \E l \in ss[i][2] : l.id = t
            PROVE  \E k \in 1 .. n - 1 : tl[k][1] = "list" /\ \E l \in tl[k][2] : l.id = t
        <5>1. PICK k \in 1 .. n - 1 : tl[k] = ss[i]
          BY <1>2, <1>11, <1>12, <2>4, <4>1
        <5> QED
          BY <4>1, <5>1
      <4>2. ASSUME NEW k \in 1 .. n - 1, tl[k][1] = "list", \E l \in tl[k][2] : l.id = t
            PROVE  \E i \in 1 .. n : ss[i][1] = "list" /\ \E l \in ss[i][2] : l.id = t
        <5>1. PICK i \in 1 .. n : ss[i] = tl[k]
          BY <1>10
        <5> QED
          BY <4>2, <5>1
      <4> QED
        BY <4>1, <4>2
    <3>2. (\A i \in 1 .. n : ss[i][1] # "list") <=> \A i \in 1 .. n - 1 : tl[i][1] # "list"
      <4>1. \A i \in 1 .. n : ss[i][1] = "list" => \E k \in 1 .. n - 1 : tl[k] = ss[i]
        BY <1>2, <1>11, <1>12, <2>4
      <4>2. \A k \in 1 .. n - 1 : \E i \in 1 .. n : ss[i] = tl[k]
        BY <1>10
      <4> QED
        BY <4>1, <4>2
    <3>3. CASE s[1] = "unlist"
      <4>1. PICK k \in 1 .. n : ss[k][1] = "list"
        BY <1>2, <1>4, <1>5, <1>13, <3>3 DEF Fits, ListFits
      <4>2. ~ \A i \in 1 .. n : ss[i][1] # "list"
        BY <4>1
      <4> QED
        BY <2>1, <2>2, <3>1, <3>2, <4>2
    <3>4. CASE s[1] # "unlist"
      <4>1. Listed' = Listed
        BY <1>2, <2>4, <3>4, StepLists
      <4> QED
        BY <2>1, <2>2, <3>1, <3>2, <4>1
    <3> QED
      BY <3>3, <3>4
  <2> QED
    BY <2>3, <2>4
<1>17. TrashFits(J, tl)'
  <2>1. \A i \in 1 .. n - 1 : tl[i][1] = "drop" => tl[i][2] \in J
    BY <1>8, <1>10
  <2>2. J' = J
    OBVIOUS
  <2>3. \A t \in (DOMAIN stored \ torn)' : Coming(tl, t)'
    BY <1>0, <1>8, <1>9, <1>15, <1>16 DEF Coming
  <2> QED
    BY <1>4, <1>14, <2>1, <2>3 DEF TrashFits
<1>18. \/ manifest' = Missing /\ tl # <<>> /\ tl[1][1] = "list"
       \/ \A t \in DOMAIN stored' \ (torn \cup J) : Whole(t)'
  <2>1. CASE s[1] = "unlist"
    <3>0. PICK k : k = 1 + 1 /\ k = 2
      OBVIOUS
    <3>1. k \in 1 .. n /\ ss[k][1] = "list"
      <4>1. ListFits(ss, 1) /\ ss[1][1] = "unlist"
        BY <1>2, <1>5, <1>13, <2>1 DEF Fits
      <4>2. 1 + 1 \in DOMAIN ss /\ ss[1 + 1][1] = "list"
        BY <4>1 DEF ListFits
      <4> QED
        BY <1>4, <3>0, <4>2
    <3>2. 1 \in 1 .. n - 1 /\ tl[1] = ss[k]
      BY <1>4, <3>0, <3>1
    <3>3. tl # <<>>
      BY <1>4, <3>2
    <3>4. manifest' = Missing
      BY <1>2, <2>1, StepLists
    <3> QED
      BY <3>1, <3>2, <3>3, <3>4
  <2>2. CASE s[1] = "list"
    <3>1. Listed' = s[2] /\ St = {}
      BY <1>2, <1>9, <2>2, StepLists
    <3>2. \A i \in 1 .. n : ss[i][1] # "drop" /\ (ss[i][1] = "list" => i = 1)
      BY <1>2, <1>4, <1>5, <1>13, <2>2 DEF Fits, ListFits
    <3>3. \A t \in DOMAIN stored : WillStay(ss, t) <=> stored[t] # None
      BY <1>4, <1>7, <3>1, <3>2 DEF WillStay
    <3>4. \A t : WillBeListed(ss, t) <=> \E l \in s[2] : l.id = t
      BY <1>2, <1>4, <1>13, <2>2, <3>2 DEF WillBeListed
    <3>5. \A t \in DOMAIN stored : stored'[t] = stored[t]
      BY <1>9, <2>2
    <3> QED
      BY <1>0, <1>8, <1>9, <3>1, <3>3, <3>4, <3>5 DEF Coming, Whole
  <2>3. CASE s[1] # "list" /\ s[1] # "unlist"
    <3>1. \A t \in DOMAIN stored \ (torn \cup J) : Whole(t)
      BY <1>1, <1>2, <1>6, <2>3 DEF IInv, TrashInv
    <3>2. Listed' = Listed
      BY <1>2, <2>3, StepLists
    <3>3. \A t \in DOMAIN stored \ J : stored'[t] = stored[t]
      BY <1>2, <1>8, <1>9, <1>13
    <3>4. DOMAIN stored' \ (torn \cup J) \subseteq DOMAIN stored \ (torn \cup J)
      BY <1>8, <1>9
    <3> QED
      BY <1>0, <3>1, <3>2, <3>3, <3>4 DEF Whole
  <2> QED
    BY <2>1, <2>2, <2>3
<1>19. CASE n = 1
  <2>1. tl = <<>>
    BY <1>4, <1>19
  <2>2. job'.trash = {}
    BY <1>0, <1>1, <1>2, <1>3, <2>1, StepFacts DEF Idle
  <2>3. TrashFits({}, tl)'
    BY <1>14, <1>17, <2>1 DEF TrashFits
  <2>4. \A t \in DOMAIN stored' \ torn' : Whole(t)'
    <3>1. \A t \in DOMAIN stored' : WillStay(tl, t)' <=> stored'[t] # None
      BY <1>14, <2>1 DEF WillStay
    <3>2. \A t : WillBeListed(tl, t)' <=> \E l \in Listed' : l.id = t
      BY <2>1 DEF WillBeListed
    <3> QED
      BY <1>17, <3>1, <3>2 DEF TrashFits, Coming, Whole
  <2>5. TrashFits(job.trash, job.steps)'
    BY <1>3, <2>2, <2>3 DEF TrashFits, Storing, WillStay, WillBeListed, Coming
  <2> QED
    BY <2>2, <2>4, <2>5 DEF TrashInv
<1>20. CASE n # 1
  <2>1. job' = [job EXCEPT !.steps = Tail(ss)]
    BY <1>1, <1>4, <1>20 DEF Step
  <2>2. job'.trash = J
    BY <1>6, <2>1 DEF IInv, TypeInv
  <2>3. TrashFits(job.trash, job.steps)'
    BY <1>3, <1>17, <2>2 DEF TrashFits, Storing, WillStay, WillBeListed, Coming
  <2> QED
    BY <1>0, <1>3, <1>18, <2>2, <2>3 DEF TrashInv
<1> QED
  BY <1>19, <1>20

\* A step leaves on disk only what was written, and in the lists only what was given out.
LEMMA StepDisk ==
    ASSUME IInv, Step
    PROVE  DiskInv'
<1>0. /\ TypeInv /\ files \in [Paths -> Contents \cup {None}] /\ docs # Missing
      /\ stored \in Seq(Contents \cup {None}) /\ receipts \in Seq(ReceiptType)
      /\ made \in Nat /\ made' \in Nat /\ made <= made'
  <2>1. TypeInv
    BY DEF IInv
  <2>2. docs # Missing
    BY <2>1, StepFacts
  <2>3. made \in Nat /\ made' \in Nat /\ made <= made'
    BY StepGrows
  <2> QED
    BY <2>1, <2>2, <2>3 DEF TypeInv
<1>1. PICK s \in StepType : s = job.steps[1]
  BY <1>0, StepFacts
<1>2. s[1] \in {"move", "store", "fetch", "write", "drop", "unlist", "list", "cut", "keep",
                "receipt", "undone"}
  BY StepParts
<1>2a. docs' # Missing
  <2>1. CASE s[1] = "cut"
    <3>1. docs' = s[2]
      BY <1>0, <1>1, <2>1, Effects
    <3>2. s[2] \in SUBSET Entry
      BY <2>1, StepParts
    <3> QED
      BY <3>1, <3>2, NotMissing
  <2>2. CASE s[1] # "cut"
    BY <1>0, <1>1, <1>2, <2>2, Effects
  <2> QED
    BY <2>1, <2>2
<1>3. /\ Distinct(docs) /\ (registry # Missing => Distinct(registry))
      /\ Trashed(Listed, DOMAIN stored)
      /\ \A i \in DOMAIN receipts : Sensible(receipts[i])
      /\ \A p \in Paths : files[p] # None => files[p].what <= made /\ files[p].what \in Nat
      /\ \A t \in DOMAIN stored : stored[t] # None => stored[t].what <= made /\ stored[t].what \in Nat
  BY <1>0, OpenEntries DEF IInv, DiskInv, Contents
<1>4. /\ Distinct(docs)' /\ (registry' # Missing => Distinct(registry)')
  <2>0. \A d : Distinct(d) => Distinct(d)'
    BY StepGrows
  <2>1. CASE s[1] = "cut"
    <3>1. docs' = s[2] /\ registry' = Missing /\ Distinct(s[2])
      BY <1>0, <1>1, <2>1, Effects, FirstFits
    <3>2. Distinct(s[2])'
      BY <2>0, <3>1
    <3> QED
      BY <3>1, <3>2 DEF Distinct
  <2>2. CASE s[1] = "keep"
    <3>1. docs' = docs /\ registry' = s[2] /\ Distinct(s[2])
      BY <1>0, <1>1, <2>2, Effects, FirstFits
    <3>2. Distinct(s[2])' /\ Distinct(docs)'
      BY <1>3, <2>0, <3>1
    <3> QED
      BY <3>1, <3>2 DEF Distinct
  <2>3. CASE s[1] \in {"move", "store", "fetch", "write", "drop", "unlist", "list", "receipt", "undone"}
    <3>1. docs' = docs /\ registry' = registry
      BY <1>0, <1>1, <2>3, Effects
    <3>2. \A d : Distinct(d) => Distinct(d)'
      BY StepGrows
    <3> QED
      BY <1>3, <3>1, <3>2 DEF Distinct
  <2> QED
    BY <1>2, <2>1, <2>2, <2>3
<1>5. Trashed(Listed, DOMAIN stored)'
  <2>0. /\ DOMAIN stored \subseteq DOMAIN stored'
        /\ \A m, T : Trashed(m, T) => Trashed(m, T)'
    BY StepGrows
  <2>1. PICK m : m = Listed'
    OBVIOUS
  <2>2. Trashed(m, DOMAIN stored)
    <3>1. CASE s[1] = "unlist"
      <4>1. m = {}
        BY <1>0, <1>1, <2>1, <3>1, Effects DEF Listed
      <4> QED
        BY <4>1 DEF Trashed
    <3>2. CASE s[1] = "list"
      <4>1. manifest' = s[2] /\ s[2] \in SUBSET Item /\ Trashed(s[2], DOMAIN stored)
        <5>1. s[2] \in SUBSET Item
          BY <3>2, StepParts
        <5>2. manifest' = s[2]
          BY <1>0, <1>1, <3>2, Effects
        <5>3. Trashed(s[2], DOMAIN stored)
          BY <1>1, <3>2, FirstFits
        <5> QED
          BY <5>1, <5>2, <5>3
      <4>2. m = s[2]
        BY <2>1, <4>1, NotMissing DEF Listed
      <4> QED
        BY <4>1, <4>2
    <3>3. CASE s[1] \in {"move", "store", "fetch", "write", "drop", "cut", "keep", "receipt", "undone"}
      <4>1. manifest' = manifest
        BY <1>0, <1>1, <3>3, Effects
      <4>2. m = Listed
        BY <2>1, <4>1 DEF Listed
      <4> QED
        BY <1>3, <4>2
    <3> QED
      BY <1>2, <3>1, <3>2, <3>3
  <2>3. PICK T : T = DOMAIN stored'
    OBVIOUS
  <2>4. Trashed(m, T)
    BY <2>0, <2>2, <2>3 DEF Trashed
  <2>5. Trashed(m, T)'
    BY <2>0, <2>4
  <2> QED
    BY <2>1, <2>3, <2>5 DEF Trashed
<1>6. \A i \in DOMAIN receipts' : Sensible(receipts[i])'
  <2>0. /\ \A r \in ReceiptType : Sensible(r) => Sensible(r)'
        /\ \A i \in DOMAIN receipts : receipts[i] \in ReceiptType
    BY <1>0, StepGrows
  <2>1. CASE s[1] = "receipt"
    <3>1. receipts' = Append(receipts, s[2]) /\ Sensible(s[2])
      BY <1>0, <1>1, <2>1, Effects, FirstFits
    <3>2. s[2] \in ReceiptType
      BY <2>1, StepParts
    <3>3. \A i \in DOMAIN receipts' : receipts'[i] = s[2] \/ (i \in DOMAIN receipts /\ receipts'[i] = receipts[i])
      BY <1>0, <3>1, <3>2
    <3>4. ASSUME NEW i \in DOMAIN receipts'
          PROVE  Sensible(receipts[i])'
      <4>1. PICK r : r = receipts'[i]
        OBVIOUS
      <4>2. r \in ReceiptType /\ Sensible(r)
        BY <1>3, <2>0, <3>1, <3>2, <3>3, <4>1
      <4>3. Sensible(r)'
        BY <2>0, <4>2
      <4> QED
        BY <4>1, <4>3 DEF Sensible
    <3> QED
      BY <3>4
  <2>2. CASE s[1] = "undone"
    <3>1. receipts' = [receipts EXCEPT ![s[2]].undone = TRUE]
      BY <1>0, <1>1, <2>2, Effects
    <3>2. ASSUME NEW i \in DOMAIN receipts'
          PROVE  Sensible(receipts[i])'
      <4>1. PICK r \in ReceiptType : r = receipts[i] /\ Sensible(r) /\ i \in DOMAIN receipts
        BY <1>3, <2>0, <3>1
      <4>2. PICK u : u = receipts'[i]
        OBVIOUS
      <4>3. u = r \/ u = [r EXCEPT !.undone = TRUE]
        BY <1>0, <3>1, <4>1, <4>2
      <4>4. u.op = r.op /\ u.id = r.id /\ u.before = r.before /\ u.after = r.after /\ u.entry = r.entry
            /\ u.repaired = r.repaired
        BY <4>3 DEF ReceiptType
      <4>5. Sensible(r)'
        BY <2>0, <4>1
      <4>6. Sensible(u)'
        BY <4>4, <4>5 DEF Sensible
      <4> QED
        BY <4>2, <4>6 DEF Sensible
    <3> QED
      BY <3>2
  <2>3. CASE s[1] \in {"move", "store", "fetch", "write", "drop", "unlist", "list", "cut", "keep"}
    <3>1. receipts' = receipts
      BY <1>0, <1>1, <2>3, Effects
    <3>2. ASSUME NEW i \in DOMAIN receipts'
          PROVE  Sensible(receipts[i])'
      <4>1. PICK r \in ReceiptType : r = receipts[i] /\ Sensible(r) /\ r = receipts'[i]
        BY <1>3, <2>0, <3>1
      <4>2. Sensible(r)'
        BY <2>0, <4>1
      <4> QED
        BY <4>1, <4>2 DEF Sensible
    <3> QED
      BY <3>2
  <2> QED
    BY <1>2, <2>1, <2>2, <2>3
<1>7. \A p \in Paths : files'[p] # None => files'[p].what <= made'
  <2>1. CASE s[1] = "move"
    <3>1. files' = Moved(files, s[2], s[3]) /\ made' = made
      BY <1>0, <1>1, <2>1, Effects
    <3>2. s[2] \in Paths
      BY <2>1, StepParts
    <3>3. \A p \in Paths : files'[p] \in {files[p], files[s[2]], None}
      BY <1>0, <3>1 DEF Moved
    <3> QED
      BY <1>3, <3>1, <3>2, <3>3
  <2>2. CASE s[1] = "store"
    <3>1. files' = [files EXCEPT ![s[2]] = None] /\ made' = made
      BY <1>0, <1>1, <2>2, Effects
    <3> QED
      BY <1>0, <1>3, <3>1
  <2>3. CASE s[1] = "fetch"
    <3>1. files' = [files EXCEPT ![s[3]] = stored[s[2]]] /\ made' = made
      BY <1>0, <1>1, <2>3, Effects
    <3>2. s[2] \in DOMAIN stored
      BY <1>1, <2>3, FirstFits
    <3>3. \A p \in Paths : files'[p] \in {files[p], stored[s[2]]}
      BY <1>0, <3>1
    <3> QED
      BY <1>3, <3>1, <3>2, <3>3
  <2>4. CASE s[1] = "write"
    <3>1. files' = [files EXCEPT ![s[2]] = s[3]] /\ made' = IF s[3].what > made THEN s[3].what ELSE made
      BY <1>0, <1>1, <2>4, Effects
    <3>2. s[3].what \in Nat
      BY <2>4, StepParts DEF Contents
    <3>3. s[3].what <= made'
      BY <1>0, <3>1, <3>2
    <3>4. \A p \in Paths : files'[p] \in {files[p], s[3]}
      BY <1>0, <3>1
    <3> QED
      BY <1>0, <1>3, <3>3, <3>4
  <2>5. CASE s[1] \in {"drop", "unlist", "list", "cut", "keep", "receipt", "undone"}
    <3>1. files' = files /\ made' = made
      BY <1>0, <1>1, <2>5, Effects
    <3> QED
      BY <1>3, <3>1
  <2> QED
    BY <1>2, <2>1, <2>2, <2>3, <2>4, <2>5
<1>8. \A t \in DOMAIN stored' : stored'[t] # None => stored'[t].what <= made'
  <2>1. CASE s[1] = "store"
    <3>1. stored' = Append(stored, files[s[2]]) /\ made' = made
      BY <1>0, <1>1, <2>1, Effects
    <3>2. s[2] \in Paths
      BY <2>1, StepParts
    <3>3. files[s[2]] \in Contents \cup {None}
      BY <1>0, <3>2
    <3>4. \A t \in DOMAIN stored' : stored'[t] = files[s[2]] \/ (t \in DOMAIN stored /\ stored'[t] = stored[t])
      BY <1>0, <3>1, <3>3
    <3> QED
      BY <1>3, <3>1, <3>2, <3>4
  <2>2. CASE s[1] = "drop"
    <3>1. stored' = [stored EXCEPT ![s[2]] = None] /\ made' = made
      BY <1>0, <1>1, <2>2, Effects
    <3>2. \A t \in DOMAIN stored' : t \in DOMAIN stored /\ stored'[t] \in {stored[t], None}
      BY <1>0, <3>1
    <3> QED
      BY <1>3, <3>1, <3>2
  <2>3. CASE s[1] \in {"move", "fetch", "write", "unlist", "list", "cut", "keep", "receipt", "undone"}
    <3>1. stored' = stored
      BY <1>0, <1>1, <2>3, Effects
    <3> QED
      BY <1>0, <1>3, <3>1
  <2> QED
    BY <1>2, <2>1, <2>2, <2>3
<1>9. Distinct(Open)'
  <2>1. Open' = docs'
    BY <1>2a DEF Open
  <2> QED
    BY <1>4, <2>1 DEF Distinct
<1> QED
  BY <1>4, <1>5, <1>6, <1>7, <1>8, <1>9 DEF DiskInv

\* The first of the two renames of a commit: the old file becomes the .bak, and the write
\* that follows fits a path where no file is.
LEMMA SetAsideFacts ==
    ASSUME IInv, SetAside
    PROVE  /\ job.steps # <<>> /\ job.steps \in Seq(StepType) /\ 1 \in DOMAIN job.steps
           /\ job.steps[1][1] = "write" /\ aside' = TRUE /\ gone \subseteq gone'
           /\ job.steps[1][2] \in Paths /\ job.steps[1][3] \in Contents
           /\ files' = [files EXCEPT ![job.steps[1][2]] = None]
           /\ baks' = [baks EXCEPT ![job.steps[1][2]] = files[job.steps[1][2]]]
           /\ UNCHANGED <<stored, manifest, registry, receipts, docs, job, owner, made>>
           /\ UNCHANGED <<astray, torn, hidden, latest, expected>>
<1>1. /\ job.steps # <<>> /\ job.steps \in Seq(StepType) /\ 1 \in DOMAIN job.steps
      /\ Head(job.steps) = job.steps[1]
  BY DEF SetAside, NextWrites, IInv, TypeInv
<1>2. PICK s \in StepType : s = job.steps[1]
  BY <1>1
<1>3. s[1] = "write" /\ s[2] \in Paths /\ s[3] \in Contents
  BY <1>1, <1>2, StepParts DEF SetAside, NextWrites
<1> QED
  BY <1>1, <1>2, <1>3 DEF SetAside

LEMMA SetAsideKeeps ==
    ASSUME IInv, SetAside
    PROVE  IInv'
<1>1. PICK ss \in Seq(StepType), p \in Paths :
         /\ ss = job.steps /\ ss # <<>> /\ 1 \in DOMAIN ss /\ ss[1][1] = "write" /\ ss[1][2] = p
         /\ aside' = TRUE /\ gone \subseteq gone'
         /\ files' = [files EXCEPT ![p] = None] /\ baks' = [baks EXCEPT ![p] = files[p]]
         /\ UNCHANGED <<stored, manifest, registry, receipts, docs, job, owner, made>>
         /\ UNCHANGED <<torn, hidden, latest>>
  BY SetAsideFacts
<1>2. /\ files \in [Paths -> Contents \cup {None}] /\ baks \in [Paths -> Contents \cup {None}]
      /\ files' \in [Paths -> Contents \cup {None}] /\ baks' \in [Paths -> Contents \cup {None}]
      /\ None \notin Contents
  BY <1>1, LibraryConstants DEF IInv, TypeInv, LibraryConstants
<1>3. files'[p] = None /\ \A x \in Paths : x # p => files'[x] = files[x]
  BY <1>1, <1>2
<1>4. TypeInv'
  <2>1. NextWrites'
    BY <1>1 DEF SetAside, NextWrites
  <2> QED
    BY <1>1, <1>2, <2>1 DEF IInv, TypeInv, Idle
<1>5. JobInv'
  <2>1. ASSUME NEW i \in DOMAIN ss
        PROVE  Fits(ss, i)'
    <3>0. Fits(ss, i) /\ ss[i] \in StepType /\ i \in Nat /\ i >= 1
      BY <1>1 DEF IInv, JobInv
    <3>0a. i # 1 => 1 \in 1 .. i - 1
      BY <3>0
    <3>1. MoveFits(ss, i)'
      <4> SUFFICES ASSUME ss[i][1] = "move" PROVE MoveFits(ss, i)'
        BY DEF MoveFits
      <4>1. MoveFits(ss, i) /\ i # 1
        BY <1>1, <3>0 DEF Fits
      <4>2. ss[i][3] \in Paths /\ ss[i][3] # p
        BY <1>1, <3>0, <3>0a, <4>1, StepParts DEF MoveFits
      <4> QED
        BY <1>1, <1>3, <4>1, <4>2 DEF MoveFits, FreeFor
    <3>2. WriteFits(ss, i)'
      <4> SUFFICES ASSUME ss[i][1] = "write" PROVE WriteFits(ss, i)'
        BY DEF WriteFits
      <4>1. WriteFits(ss, i) /\ ss[i][2] \in Paths
        BY <3>0, StepParts DEF Fits
      <4>2. File(ss, ss[i][2]) = files[ss[i][2]] /\ File(ss, ss[i][2])' = files'[ss[i][2]]
        BY <1>1 DEF File
      <4> QED
        BY <1>1, <1>3, <4>1, <4>2 DEF WriteFits, FreeFor
    <3>3. StoreFits(ss, i)' /\ FetchFits(ss, i)'
      BY <1>1, <3>0 DEF Fits, StoreFits, FetchFits
    <3>4. DropFits(ss, i)'
      BY <1>1, <3>0, <3>0a DEF Fits, DropFits
    <3>5. ListFits(ss, i)'
      <4>1. Storing(ss)' = Storing(ss)
        BY <1>1 DEF Storing
      <4>2. \A m, T : Trashed(m, T) => Trashed(m, T)'
        BY <1>1 DEF Trashed, Entries
      <4>3. ListFits(ss, i)
        BY <3>0 DEF Fits
      <4> QED
        BY <1>1, <4>1, <4>2, <4>3 DEF ListFits
    <3>6. RegistryFits(ss, i)'
      BY <1>1, <3>0 DEF Fits, RegistryFits, Sensible, Distinct, Entries
    <3> QED
      BY <3>1, <3>2, <3>3, <3>4, <3>5, <3>6 DEF Fits
  <2> QED
    BY <1>1, <2>1 DEF JobInv
<1>6. DiskInv'
  <2>1. \A x \in Paths : files'[x] # None => files'[x].what <= made
    BY <1>1, <1>3 DEF IInv, DiskInv
  <2> QED
    BY <1>1, <2>1 DEF IInv, DiskInv, Open, Listed, Distinct, Trashed, Entries, Sensible
<1>7. TrashInv'
  BY <1>1 DEF IInv, TrashInv, TrashFits, WillStay, WillBeListed, Storing, Listed, Whole, Coming
<1> QED
  BY <1>4, <1>5, <1>6, <1>7 DEF IInv

\* No action of the library undoes the invariant.
LEMMA NextKeeps ==
    ASSUME IInv, Next
    PROVE  IInv'
<1>0. CASE SetAside
  BY <1>0, SetAsideKeeps
<1>1. CASE Step
  BY <1>1, StepTyped, StepJob, StepDisk, StepTrash DEF IInv
<1>2. CASE \E p \in Names : CreateManagedDocument(p)
  <2>1. PICK p \in Paths : CreateManagedDocument(p)
    BY <1>2 DEF Paths, Inside
  <2> QED
    BY <2>1, AddingOps
<1>3. CASE \E x \in Outside, p \in Names : ImportAsManaged(x, p)
  <2>1. PICK x \in Paths, p \in Paths : ImportAsManaged(x, p)
    BY <1>3 DEF Paths, Inside
  <2> QED
    BY <2>1, AddingOps
<1>4. CASE \E e \in Open, p \in Names \cup Outside : DuplicateDocument(e, p)
  <2>1. PICK e \in Open, p \in Paths : DuplicateDocument(e, p)
    BY <1>4 DEF Paths, Inside
  <2> QED
    BY <2>1, AddingOps
<1>5. CASE \E x \in Outside : LinkExternal(x)
  BY <1>5, LinkStep DEF Paths
<1>6. CASE \E e \in Open : RemoveReference(e)
  BY <1>6, RemoveStep
<1>7. CASE ScanAndIndex
  BY <1>7, ScanStep
<1>8. CASE \E e \in Open, q \in Inside : RenameOrMoveDocument(e, q)
  <2>1. PICK e \in Open, q \in Paths : RenameOrMoveDocument(e, q)
    BY <1>8 DEF Paths, Inside
  <2> QED
    BY <2>1, RenameStep
<1>9. CASE \E p, q \in Paths, direct \in BOOLEAN : AddReference(p, q, direct)
  BY <1>9, AddReferenceStep
<1>10. CASE \E e \in Open : DeleteDocumentToTrash(e)
  BY <1>10, DeleteStep
<1>11. CASE \E t \in Listed : \E dest \in Paths : Restore(t, dest)
  BY <1>11, RestoreStep
<1>12. CASE \E t \in Listed : PurgeOne(t)
  <2>1. PICK t \in Listed : Purge({t})
    BY <1>12 DEF PurgeOne
  <2>2. {t} \in SUBSET Listed
    OBVIOUS
  <2> QED
    BY <2>1, <2>2, PurgeStep
<1>13. CASE EmptyTrash
  BY <1>13, PurgeStep DEF EmptyTrash
<1>14. CASE \E i \in DOMAIN receipts : UndoDocumentOp(i)
  BY <1>14, UndoStep
<1>15. CASE Crash \/ OpenWorkspace \/ CreateWorkspace
  BY <1>15, RestartSteps
<1> QED
  BY <1>0, <1>1, <1>2, <1>3, <1>4, <1>5, <1>6, <1>7, <1>8, <1>9, <1>10, <1>11, <1>12, <1>13, <1>14,
     <1>15 DEF Next

\* It holds at the start.
LEMMA InitHolds == Init => IInv
<1> SUFFICES ASSUME Init PROVE IInv
  OBVIOUS
<1>1. /\ files = [p \in Paths |-> IF p \in Outside
                                THEN [what |-> 1, ref |-> None, direct |-> TRUE] ELSE None]
      /\ stored = <<>> /\ manifest = Missing /\ registry = {} /\ docs = {} /\ receipts = <<>>
      /\ job = Idle /\ owner = <<>> /\ made = 1 /\ latest = 0
      /\ baks = [p \in Paths |-> None] /\ aside = FALSE /\ hidden = {}
  BY DEF Init
<1>2. files \in [Paths -> Contents \cup {None}]
  <2>1. [what |-> 1, ref |-> None, direct |-> TRUE] \in Contents
    BY DEF Contents
  <2> QED
    BY <1>1, <2>1
<1>3. docs # Missing
  BY <1>1 DEF Missing
<1>4. job \in [ids : SUBSET Nat, trash : SUBSET Nat, steps : Seq(StepType)]
  BY <1>1 DEF Idle
<1>4a. baks \in [Paths -> Contents \cup {None}] /\ hidden \subseteq DOMAIN stored
  BY <1>1
<1>4b. aside \in BOOLEAN /\ (aside => NextWrites)
  BY <1>1
<1>4c. /\ stored \in Seq(Contents \cup {None}) /\ manifest = Missing /\ docs \in SUBSET Entry
       /\ registry \in SUBSET Entry /\ receipts \in Seq(ReceiptType)
       /\ owner \in Seq(Nat) /\ made \in Nat /\ latest \in 0 .. Len(receipts) /\ job = Idle
  BY <1>1
<1>5. TypeInv
  BY <1>2, <1>3, <1>4, <1>4a, <1>4b, <1>4c DEF TypeInv
<1>6. JobInv
  BY <1>1 DEF JobInv, Idle
<1>7. DiskInv
  <2>1. Open = {} /\ Listed = {}
    BY <1>1, <1>3 DEF Open, Listed
  <2>2. Distinct({}) /\ Trashed({}, DOMAIN stored)
    BY DEF Distinct, Trashed
  <2>3. \A p \in Paths : files[p] # None => files[p].what <= made
    BY <1>1
  <2> QED
    BY <1>1, <2>1, <2>2, <2>3 DEF DiskInv
<1>8. TrashInv
  <2>1. job.steps = <<>> /\ job.trash = {} /\ DOMAIN stored = {}
    BY <1>1 DEF Idle
  <2>2. Storing(<<>>) = {}
    BY DEF Storing
  <2>3. TrashFits({}, <<>>)
    BY <2>1, <2>2 DEF TrashFits
  <2> QED
    BY <2>1, <2>3 DEF TrashInv
<1> QED
  BY <1>5, <1>6, <1>7, <1>8 DEF IInv

\* A stuttering step keeps it.
LEMMA StutterKeeps ==
    ASSUME IInv, UNCHANGED vars
    PROVE  IInv'
<1>1. UNCHANGED <<files, stored, manifest, registry, docs, receipts, job, owner, made, gone, latest,
                 torn, hidden, baks, aside>>
  BY DEF vars, disk, ghosts
<1>2. TypeInv'
  BY <1>1 DEF IInv, TypeInv, Idle, NextWrites
<1>3. JobInv'
  <2>1. job'.steps = job.steps
    BY <1>1
  <2>2. ASSUME NEW i, Fits(job.steps, i)
        PROVE  Fits(job.steps, i)'
    <3>1. MoveFits(job.steps, i)' /\ StoreFits(job.steps, i)' /\ FetchFits(job.steps, i)'
      BY <1>1, <2>2 DEF Fits, MoveFits, StoreFits, FetchFits, FreeFor
    <3>2. WriteFits(job.steps, i)'
      BY <1>1, <2>2 DEF Fits, WriteFits, File, FreeFor
    <3>3. DropFits(job.steps, i)'
      BY <1>1, <2>2 DEF Fits, DropFits, FreeFor
    <3>4. ListFits(job.steps, i)'
      <4>1. Storing(job.steps)' = Storing(job.steps)
        BY <1>1 DEF Storing
      <4>2. Entries' = Entries
        BY <1>1 DEF Entries
      <4>3. \A m, T : Trashed(m, T) => Trashed(m, T)'
        BY <4>2 DEF Trashed
      <4>4. ListFits(job.steps, i)
        BY <2>2 DEF Fits
      <4> QED
        BY <1>1, <4>1, <4>3, <4>4 DEF ListFits
    <3>5. RegistryFits(job.steps, i)'
      BY <1>1, <2>2 DEF Fits, RegistryFits, Sensible, Distinct, Entries
    <3> QED
      BY <3>1, <3>2, <3>3, <3>4, <3>5 DEF Fits
  <2> QED
    BY <1>1, <2>1, <2>2 DEF IInv, JobInv
<1>4. DiskInv'
  BY <1>1 DEF IInv, DiskInv, Open, Listed, Distinct, Trashed, Entries, Sensible
<1>5. TrashInv'
  BY <1>1 DEF IInv, TrashInv, TrashFits, WillStay, WillBeListed, Storing, Listed, Whole, Coming
<1> QED
  BY <1>2, <1>3, <1>4, <1>5 DEF IInv

\* It is an invariant of the library.
LEMMA Invariant == Spec => []IInv
<1>1. IInv /\ [Next]_vars => IInv'
  BY NextKeeps, StutterKeeps
<1> QED
  BY <1>1, InitHolds, PTL DEF Spec

\* The type invariant of the library: every entry, of the registry or in memory, and every
\* listed item is one that was given out, whatever crashed; two entries never share an id.
THEOREM TypesAreOK == Spec => []TypeOK
<1>1. IInv => TypeOK
  <2> SUFFICES ASSUME IInv PROVE TypeOK
    OBVIOUS
  <2>1. docs # Missing => docs \subseteq Entries
    BY DEF IInv, DiskInv, Distinct, Open
  <2>2. \A d, e \in Open : d.id = e.id => d = e
    BY DEF IInv, DiskInv, Distinct
  <2>3. registry # Missing => registry \subseteq Entries
    BY DEF IInv, DiskInv, Distinct
  <2>4. \A t \in Listed : /\ t.id \in DOMAIN stored /\ t.path \in Paths
                          /\ t.entry = None \/ t.entry \in Entries
    BY ListedItems
  <2>5. job.trash \subseteq Nat /\ job.ids \subseteq Nat
    BY DEF IInv, TypeInv
  <2> QED
    BY <2>1, <2>2, <2>3, <2>4, <2>5 DEF IInv, TypeInv, TypeOK
<1> QED
  BY <1>1, Invariant, PTL

\* The trash, after every operation: each of its files is listed and each listed file is
\* there, but for what an interrupted operation was about; a file that a crash between the
\* two renames of the manifest left unlisted is there.
THEOREM TrashIsWhole == Spec => []TrashIsComplete
<1>1. IInv => TrashIsComplete
  <2> SUFFICES ASSUME IInv, job = Idle
               PROVE  TrashIsComplete
    BY DEF TrashIsComplete, Quiet
  <2>1. job.steps = <<>>
    BY DEF Idle
  <2>2. \A t \in DOMAIN stored \ torn : Whole(t)
    BY <2>1, CompleteBefore
  <2> QED
    BY <2>2 DEF TrashIsComplete, Whole
<1> QED
  BY <1>1, Invariant, PTL

\* The bytes w are at a path, in a .bak or in the trash.
Kept(w) == \/ \E p \in Paths : files[p] # None /\ files[p].what = w
           \/ \E p \in Paths : baks[p] # None /\ baks[p].what = w
           \/ \E t \in DOMAIN stored : stored[t] # None /\ stored[t].what = w

\* The file that a commit has set aside is given up, or written anew with the same bytes.
AsideInv ==
    aside => LET s == job.steps[1]
             IN  FreeFor(baks[s[2]], gone \cup {s[3].what})

LEMMA AsideKeeps ==
    ASSUME IInv, AsideInv, [Next]_vars
    PROVE  AsideInv'
<1>0. TypeInv
  BY DEF IInv
<1>1. CASE SetAside
  <2>1. PICK s : s = job.steps[1]
    OBVIOUS
  <2>2. /\ s[1] = "write" /\ s[2] \in Paths /\ gone \subseteq gone'
        /\ baks' = [baks EXCEPT ![s[2]] = files[s[2]]] /\ job' = job
        /\ 1 \in DOMAIN job.steps
    BY <1>1, <2>1, SetAsideFacts
  <2>3. WriteFits(job.steps, 1)
    BY <2>2 DEF IInv, JobInv, Fits
  <2>4. FreeFor(files[s[2]], gone \cup {s[3].what})
    BY <2>1, <2>2, <2>3 DEF WriteFits, File
  <2>5. baks'[s[2]] = files[s[2]]
    BY <1>0, <2>2 DEF TypeInv
  <2> QED
    BY <2>1, <2>2, <2>4, <2>5 DEF AsideInv, FreeFor
<1>2. CASE Step
  BY <1>2 DEF Step, AsideInv
<1>3. CASE Crash
  BY <1>3 DEF Crash, AsideInv
<1>4. CASE job = Idle /\ aside' = aside
  BY <1>0, <1>4 DEF Idle, TypeInv, NextWrites, AsideInv
<1>5. CASE UNCHANGED vars
  BY <1>5 DEF vars, disk, ghosts, AsideInv, FreeFor
<1>6. (\E ids, trash, ss : Begin(ids, trash, ss)) => job = Idle /\ aside' = aside
  BY DEF Begin
<1>7. CASE \/ \E p \in Names : CreateManagedDocument(p)
           \/ \E x \in Outside, p \in Names : ImportAsManaged(x, p)
           \/ \E e \in Open, p \in Names \cup Outside : DuplicateDocument(e, p)
           \/ \E x \in Outside : LinkExternal(x)
           \/ \E e \in Open : RemoveReference(e)
           \/ ScanAndIndex
           \/ \E t \in Listed : \E dest \in Paths : Restore(t, dest)
           \/ \E e \in Open, q \in Inside : RenameOrMoveDocument(e, q)
           \/ \E e \in Open : DeleteDocumentToTrash(e)
           \/ \E t \in Listed : PurgeOne(t)
           \/ EmptyTrash
           \/ \E i \in DOMAIN receipts : UndoDocumentOp(i)
  <2>1. \E ids, trash, ss : Begin(ids, trash, ss)
    BY <1>7 DEF CreateManagedDocument, ImportAsManaged, DuplicateDocument, LinkExternal,
                RemoveReference, ScanAndIndex, Restore, RenameOrMoveDocument,
                DeleteDocumentToTrash, PurgeOne, EmptyTrash, Purge, UndoDocumentOp
  <2> QED
    BY <1>4, <1>6, <2>1
<1>8. CASE \E p, q \in Paths, direct \in BOOLEAN : AddReference(p, q, direct)
  BY <1>4, <1>8 DEF AddReference
<1>9. CASE OpenWorkspace \/ CreateWorkspace
  <2>1. docs = Missing /\ aside' = aside
    BY <1>9 DEF OpenWorkspace, CreateWorkspace
  <2> QED
    BY <1>0, <1>4, <2>1 DEF TypeInv
<1> QED
  BY <1>1, <1>2, <1>3, <1>5, <1>7, <1>8, <1>9 DEF Next

\* The beginning of an operation, a crash and a start take nothing from the disk; what is
\* given up is only added to.
LEMMA QuietSteps ==
    ASSUME IInv, Next
    PROVE  Step \/ SetAside
                \/ /\ made' = made /\ gone \subseteq gone' /\ stored' = stored /\ baks' = baks
                   /\ \A p \in Paths : files[p] # None => /\ files'[p] # None
                                                          /\ files'[p].what = files[p].what
<1>0. TypeInv
  BY DEF IInv
<1>1. CASE \/ \E p \in Names : CreateManagedDocument(p)
           \/ \E x \in Outside, p \in Names : ImportAsManaged(x, p)
           \/ \E e \in Open, p \in Names \cup Outside : DuplicateDocument(e, p)
           \/ \E x \in Outside : LinkExternal(x)
           \/ \E e \in Open : RemoveReference(e)
           \/ ScanAndIndex
           \/ \E t \in Listed : \E dest \in Paths : Restore(t, dest)
  <2>1. gone' = gone /\ \E ids, trash, ss : Begin(ids, trash, ss)
    BY <1>1 DEF CreateManagedDocument, ImportAsManaged, DuplicateDocument, LinkExternal,
                RemoveReference, ScanAndIndex, Restore, Harmless
  <2> QED
    BY <1>0, <2>1, BeginFacts
<1>2. CASE \/ \E e \in Open, q \in Inside : RenameOrMoveDocument(e, q)
           \/ \E e \in Open : DeleteDocumentToTrash(e)
  <2>1. gone' = gone /\ \E ids, trash, ss : Begin(ids, trash, ss)
    BY <1>2 DEF RenameOrMoveDocument, DeleteDocumentToTrash, TakesFile
  <2> QED
    BY <1>0, <2>1, BeginFacts
<1>3. CASE \/ \E t \in Listed : PurgeOne(t)
           \/ EmptyTrash
           \/ \E i \in DOMAIN receipts : UndoDocumentOp(i)
  <2>1. gone \subseteq gone' /\ \E ids, trash, ss : Begin(ids, trash, ss)
    BY <1>3 DEF PurgeOne, EmptyTrash, Purge, UndoDocumentOp
  <2> QED
    BY <1>0, <2>1, BeginFacts
<1>4. CASE \E p, q \in Paths, direct \in BOOLEAN : AddReference(p, q, direct)
  <2>1. PICK p \in Paths, q \in Paths, direct \in BOOLEAN : AddReference(p, q, direct)
    BY <1>4
  <2>2. /\ files \in [Paths -> Contents \cup {None}] /\ files[p] # None /\ None \notin Contents
        /\ files' = [files EXCEPT ![p].ref = q, ![p].direct = direct]
        /\ UNCHANGED <<stored, baks, made, gone>>
    BY <1>0, <2>1, LibraryConstants DEF AddReference, TypeInv, LibraryConstants
  <2>3. PICK c : c = [[files[p] EXCEPT !.ref = q] EXCEPT !.direct = direct]
    OBVIOUS
  <2>4. c \in Contents /\ c.what = files[p].what
    <3>1. files[p] \in Contents
      BY <2>2
    <3> QED
      BY <2>3, <3>1 DEF Contents
  <2>5. files' = [files EXCEPT ![p] = c]
    BY <2>2, <2>3
  <2> QED
    BY <2>2, <2>4, <2>5
<1>5. CASE Crash \/ OpenWorkspace \/ CreateWorkspace
  BY <1>5 DEF Crash, OpenWorkspace, CreateWorkspace, disk, ghosts
<1> QED
  BY <1>1, <1>2, <1>3, <1>4, <1>5 DEF Next

\* A step of an operation loses no bytes but those that were given up.
LEMMA StepSurvives ==
    ASSUME IInv, AsideInv, Step, NEW w, w \in gone \/ Kept(w)
    PROVE  w \in gone' \/ Kept(w)'
<1>0. /\ TypeInv /\ files \in [Paths -> Contents \cup {None}] /\ gone' = gone
      /\ stored \in Seq(Contents \cup {None})
  BY StepFacts DEF IInv, TypeInv
<1>1. PICK s \in StepType : s = job.steps[1]
  BY <1>0, StepFacts
<1>2. s[1] \in {"move", "store", "fetch", "write", "drop", "unlist", "list", "cut", "keep",
                "receipt", "undone"}
  BY StepParts
<1>2a. s[1] # "write" => baks' = baks
  BY <1>0, <1>1, StepFacts DEF Step
<1>2b. CASE s[1] # "write" /\ \E p \in Paths : baks[p] # None /\ baks[p].what = w
  BY <1>2a, <1>2b DEF Kept
<1> SUFFICES ASSUME w \notin gone, Kept(w),
                    s[1] = "write" \/ ~ \E p \in Paths : baks[p] # None /\ baks[p].what = w
             PROVE  Kept(w)'
  BY <1>0, <1>2b
<1>3. CASE s[1] = "move"
  <2>1. PICK p \in Paths, q \in Paths : p = s[2] /\ q = s[3]
    BY <1>3, StepParts
  <2>2. /\ p # q /\ FreeFor(files[q], gone) /\ files' = [files EXCEPT ![q] = files[p], ![p] = None]
        /\ stored' = stored
    BY <1>0, <1>1, <1>3, <2>1, Effects, FirstFits DEF Moved
  <2>3. CASE \E t \in DOMAIN stored : stored[t] # None /\ stored[t].what = w
    BY <2>2, <2>3 DEF Kept
  <2>4. CASE \E x \in Paths : files[x] # None /\ files[x].what = w
    <3>1. PICK x \in Paths : files[x] # None /\ files[x].what = w
      BY <2>4
    <3>2. x # q
      BY <2>2, <3>1 DEF FreeFor
    <3>3. x = p => files'[q] = files[x]
      BY <1>0, <2>2
    <3>4. x # p => files'[x] = files[x]
      BY <1>0, <2>2, <3>2
    <3> QED
      BY <3>1, <3>3, <3>4 DEF Kept
  <2> QED
    BY <1>3, <2>3, <2>4 DEF Kept
<1>4. CASE s[1] = "store"
  <2>1. PICK p \in Paths : p = s[2]
    BY <1>4, StepParts
  <2>2. files' = [files EXCEPT ![p] = None] /\ stored' = Append(stored, files[p])
    BY <1>0, <1>1, <1>4, <2>1, Effects
  <2>3. /\ \A t \in DOMAIN stored : t \in DOMAIN stored' /\ stored'[t] = stored[t]
        /\ Len(stored) + 1 \in DOMAIN stored' /\ stored'[Len(stored) + 1] = files[p]
    BY <1>0, <2>2
  <2>4. \A x \in Paths : x # p => files'[x] = files[x]
    BY <1>0, <2>2
  <2> QED
    BY <1>4, <2>3, <2>4 DEF Kept
<1>5. CASE s[1] = "fetch"
  <2>1. PICK p \in Paths : p = s[3]
    BY <1>5, StepParts
  <2>2. files[p] = None /\ files' = [files EXCEPT ![p] = stored[s[2]]] /\ stored' = stored
    BY <1>0, <1>1, <1>5, <2>1, Effects, FirstFits
  <2>3. \A x \in Paths : files[x] # None => files'[x] = files[x]
    BY <1>0, <2>2
  <2> QED
    BY <1>5, <2>2, <2>3 DEF Kept
<1>6. CASE s[1] = "write"
  <2>1. PICK p \in Paths, c \in Contents : p = s[2] /\ c = s[3]
    BY <1>6, StepParts
  <2>2. FreeFor(files[p], gone \cup {c.what}) /\ files' = [files EXCEPT ![p] = c] /\ stored' = stored
    BY <1>0, <1>1, <1>6, <2>1, Effects, FirstFits
  <2>3. files'[p] = c /\ c # None /\ \A x \in Paths : x # p => files'[x] = files[x]
    BY <1>0, <2>2, LibraryConstants DEF LibraryConstants
  <2>4. aside /\ FreeFor(baks[p], gone \cup {c.what})
    <3>1. job.steps[1] = Head(job.steps) /\ job.steps # <<>>
      BY <1>0, <1>1, StepFacts
    <3>2. aside
      BY <1>1, <1>6, <3>1 DEF Step, NextWrites
    <3> QED
      BY <1>1, <2>1, <3>2 DEF AsideInv
  <2>5. \A x \in Paths : x # p => baks'[x] = baks[x]
    <3>1. baks' = [baks EXCEPT ![p] = None]
      BY <1>0, <1>1, <1>6, <2>1, StepFacts DEF Step
    <3> QED
      BY <1>0, <3>1 DEF TypeInv
  <2> QED
    BY <2>2, <2>3, <2>4, <2>5 DEF Kept, FreeFor
<1>7. CASE s[1] = "drop"
  <2>1. PICK t : t = s[2]
    OBVIOUS
  <2>2. /\ t \in DOMAIN stored /\ files' = files /\ stored' = [stored EXCEPT ![t] = None]
        /\ \/ FreeFor(stored[t], gone)
           \/ \E p \in Paths : files[p] # None /\ files[p].what = stored[t].what
    BY <1>0, <1>1, <1>7, <2>1, Effects, FirstFits
  <2>3. \A u \in DOMAIN stored : u # t => u \in DOMAIN stored' /\ stored'[u] = stored[u]
    BY <1>0, <2>2
  <2> QED
    BY <1>7, <2>2, <2>3 DEF Kept, FreeFor
<1>8. CASE s[1] \in {"unlist", "list", "cut", "keep", "receipt", "undone"}
  <2>1. files' = files /\ stored' = stored
    BY <1>0, <1>1, <1>8, Effects
  <2> QED
    BY <1>8, <2>1 DEF Kept
<1> QED
  BY <1>2, <1>3, <1>4, <1>5, <1>6, <1>7, <1>8

\* A step makes at most one number of bytes new, and those are on disk.
LEMMA StepMakes ==
    ASSUME IInv, Step, NEW w \in 1 .. made', w \notin 1 .. made
    PROVE  Kept(w)'
<1>0. /\ TypeInv /\ files \in [Paths -> Contents \cup {None}] /\ made \in Nat
  BY DEF IInv, TypeInv
<1>1. PICK s \in StepType : s = job.steps[1]
  BY <1>0, StepFacts
<1>2. s[1] \in {"move", "store", "fetch", "write", "drop", "unlist", "list", "cut", "keep",
                "receipt", "undone"}
  BY StepParts
<1>3. s[1] = "write"
  <2>1. made' # made
    OBVIOUS
  <2> QED
    BY <1>0, <1>1, <1>2, <2>1, Effects
<1>4. PICK p \in Paths, c \in Contents : p = s[2] /\ c = s[3]
  BY <1>3, StepParts
<1>5. /\ files' = [files EXCEPT ![p] = c] /\ made' = (IF c.what > made THEN c.what ELSE made)
      /\ c.what <= made + 1
  BY <1>0, <1>1, <1>3, <1>4, Effects, FirstFits
<1>6. c.what = w
  <2>1. c.what \in Nat
    BY DEF Contents
  <2> QED
    BY <1>0, <1>5, <2>1
<1>7. files'[p] = c /\ c # None
  BY <1>0, <1>5, LibraryConstants DEF LibraryConstants
<1> QED
  BY <1>6, <1>7 DEF Kept

\* The first rename of a commit keeps the old file as the .bak, and gives up no other bytes
\* than those of the .bak that was there before.
LEMMA SetAsideSurvives ==
    ASSUME IInv, SetAside, NEW w, w \in gone \/ Kept(w)
    PROVE  w \in gone' \/ Kept(w)'
<1>1. PICK p \in Paths :
         /\ files' = [files EXCEPT ![p] = None] /\ baks' = [baks EXCEPT ![p] = files[p]]
         /\ gone' = (IF baks[p] = None THEN gone ELSE gone \cup {baks[p].what})
         /\ stored' = stored
  <2>1. PICK p \in Paths : p = job.steps[1][2]
    BY SetAsideFacts
  <2>2. /\ files' = [files EXCEPT ![p] = None] /\ baks' = [baks EXCEPT ![p] = files[p]]
        /\ stored' = stored
    BY <2>1, SetAsideFacts
  <2>3. Head(job.steps) = job.steps[1]
    BY SetAsideFacts
  <2>4. gone' = (IF baks[p] = None THEN gone ELSE gone \cup {baks[p].what})
    BY <2>1, <2>3 DEF SetAside
  <2> QED
    BY <2>2, <2>4
<1>2. files \in [Paths -> Contents \cup {None}] /\ baks \in [Paths -> Contents \cup {None}]
  BY DEF IInv, TypeInv
<1>3. baks'[p] = files[p] /\ \A x \in Paths : x # p => files'[x] = files[x] /\ baks'[x] = baks[x]
  BY <1>1, <1>2
<1>4. CASE w \in gone
  BY <1>1, <1>4
<1>5. CASE \E x \in Paths : files[x] # None /\ files[x].what = w
  BY <1>3, <1>5 DEF Kept
<1>6. CASE \E x \in Paths : baks[x] # None /\ baks[x].what = w
  BY <1>1, <1>3, <1>6 DEF Kept
<1>7. CASE \E t \in DOMAIN stored : stored[t] # None /\ stored[t].what = w
  BY <1>1, <1>7 DEF Kept
<1> QED
  BY <1>4, <1>5, <1>6, <1>7 DEF Kept

\* No operation, interrupted or not, loses the bytes of a document: they are at a path, in
\* the .bak beside one or in the trash, but for an explicit purge, for what an undo writes
\* over without looking, and for a .bak that the next save at its path removes.
THEOREM BytesAreSafe == Spec => []BytesSurvive
<1>0. BytesSurvive <=> \A w \in 1 .. made : w \in gone \/ Kept(w)
  BY DEF BytesSurvive, Kept
<1>1. Init => BytesSurvive
  <2> SUFFICES ASSUME Init PROVE BytesSurvive
    OBVIOUS
  <2>1. /\ made = 1
        /\ files = [p \in Paths |-> IF p \in Outside
                                THEN [what |-> 1, ref |-> None, direct |-> TRUE] ELSE None]
    BY DEF Init
  <2>2. PICK p \in Outside : p \in Paths
    BY LibraryConstants DEF LibraryConstants, Paths
  <2>3. files[p] = [what |-> 1, ref |-> None, direct |-> TRUE]
    BY <2>1, <2>2
  <2>4. files[p].what = 1 /\ files[p] # None
    <3>1. files[p] \in Contents
      BY <2>3 DEF Contents
    <3>2. files[p].what = 1
      BY <2>3
    <3> QED
      BY <3>1, <3>2, LibraryConstants DEF LibraryConstants
  <2>5. \A w \in 1 .. made : w = 1
    BY <2>1
  <2> QED
    BY <2>2, <2>4, <2>5 DEF BytesSurvive
<1>2. IInv /\ AsideInv /\ BytesSurvive /\ [Next]_vars => BytesSurvive'
  <2> SUFFICES ASSUME IInv, AsideInv, BytesSurvive, [Next]_vars
               PROVE  BytesSurvive'
    OBVIOUS
  <2> SUFFICES ASSUME NEW w \in 1 .. made'
               PROVE  w \in gone' \/ Kept(w)'
    BY DEF BytesSurvive, Kept
  <2>1. CASE Step
    <3>1. CASE w \in 1 .. made
      BY <1>0, <2>1, <3>1, StepSurvives
    <3>2. CASE w \notin 1 .. made
      BY <2>1, <3>2, StepMakes
    <3> QED
      BY <3>1, <3>2
  <2>1a. CASE SetAside
    <3>1. w \in 1 .. made
      BY <2>1a, SetAsideFacts
    <3> QED
      BY <1>0, <2>1a, <3>1, SetAsideSurvives
  <2>2. CASE Next /\ ~Step /\ ~SetAside
    <3>1. /\ made' = made /\ gone \subseteq gone' /\ stored' = stored /\ baks' = baks
          /\ \A p \in Paths : files[p] # None => /\ files'[p] # None
                                                 /\ files'[p].what = files[p].what
      BY <2>2, QuietSteps
    <3>2. w \in gone \/ Kept(w)
      BY <1>0, <3>1
    <3> QED
      BY <3>1, <3>2 DEF Kept
  <2>3. CASE UNCHANGED vars
    <3>1. UNCHANGED <<files, baks, stored, made, gone>>
      BY <2>3 DEF vars, disk, ghosts
    <3>2. w \in gone \/ Kept(w)
      BY <1>0, <3>1
    <3> QED
      BY <3>1, <3>2 DEF Kept
  <2> QED
    BY <2>1, <2>1a, <2>2, <2>3
<1>3. Init => AsideInv
  BY DEF Init, AsideInv
<1>4. IInv /\ AsideInv /\ [Next]_vars => AsideInv'
  BY AsideKeeps
<1> QED
  BY <1>1, <1>2, <1>3, <1>4, Invariant, PTL DEF Spec
=============================================================================
