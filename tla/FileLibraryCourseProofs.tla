--------------------- MODULE FileLibraryCourseProofs ---------------------
(***************************************************************************)
(* Where the operations of the file library lead: IdsAreStable,            *)
(* UndoRestores and ReferencesFollow, for every sequence of operations,    *)
(* crashes and starts.                                                     *)
(*                                                                         *)
(* What these properties say of the moment between two operations is not   *)
(* inductive on its own: in the middle of a rename the file has its new    *)
(* path and the entry the old one.  CourseInv follows the steps that are   *)
(* left: they lead from the state that there is to a state in which every  *)
(* entry is right again (GoesTo), and every state on the way is right but  *)
(* for the ids that a crash would leave in doubt (Leads, Sound), which is  *)
(* what makes a crash between any two of them harmless for the others.     *)
(* The last step of an operation that can be undone writes its receipt;    *)
(* what the operation did to what it found is then what the receipt says   *)
(* (Matches), and an undo leads back from there.                           *)
(***************************************************************************)
EXTENDS FileLibraryProofs

\* What the steps of an operation read and change.
State == [files : [Paths -> Contents \cup {None}], stored : Seq(Contents \cup {None}),
          manifest : (SUBSET Item) \cup {Missing}, docs : (SUBSET Entry) \cup {Missing},
          registry : (SUBSET Entry) \cup {Missing}]

\* The files, the one that the next write has made the .bak being where it was.
Unmoved == IF aside THEN [files EXCEPT ![job.steps[1][2]] = baks[job.steps[1][2]]] ELSE files

Now == [files |-> Unmoved, stored |-> stored, manifest |-> manifest, docs |-> docs,
        registry |-> registry]

\* A state with other files, another trash, or another registry, on disk and in memory.
WithFiles(st, fs) ==
    [files |-> fs, stored |-> st.stored, manifest |-> st.manifest, docs |-> st.docs,
     registry |-> st.registry]

WithTrash(st, td, m) ==
    [files |-> st.files, stored |-> td, manifest |-> m, docs |-> st.docs,
     registry |-> st.registry]

WithEntries(st, ds, reg) ==
    [files |-> st.files, stored |-> st.stored, manifest |-> st.manifest, docs |-> ds,
     registry |-> reg]

\* The state that a step leaves (Effects says so of Step).
Effect(s, st) ==
    CASE s[1] = "move" -> WithFiles(st, Moved(st.files, s[2], s[3]))
      [] s[1] = "store" -> WithTrash(WithFiles(st, [st.files EXCEPT ![s[2]] = None]),
                                     Append(st.stored, st.files[s[2]]), st.manifest)
      [] s[1] = "fetch" -> WithFiles(st, [st.files EXCEPT ![s[3]] = st.stored[s[2]]])
      [] s[1] = "write" -> WithFiles(st, [st.files EXCEPT ![s[2]] = s[3]])
      [] s[1] = "drop" -> WithTrash(st, [st.stored EXCEPT ![s[2]] = None], st.manifest)
      [] s[1] = "unlist" -> WithTrash(st, st.stored, Missing)
      [] s[1] = "list" -> WithTrash(st, st.stored, s[2])
      [] s[1] = "cut" -> WithEntries(st, s[2], Missing)
      [] s[1] = "keep" -> WithEntries(st, st.docs, s[2])
      [] OTHER -> st

\* The entry leads to the document that its id was given to, o saying which.
Right(fs, e, o) == fs[e.path] # None /\ fs[e.path].what = o[e.id]

\* The file of the item is the document that the id of its entry was given to.
Held(td, t, X, o) ==
    /\ t.id \in DOMAIN td
    /\ t.entry = None \/ t.entry.id \in X \/ td[t.id] = None \/ td[t.id].what = o[t.entry.id]

RightAll(fs, ds, X, o) == \A e \in Entry : e \in ds => e.id \in X \/ Right(fs, e, o)
HeldAll(td, m, X, o) == \A t \in Item : t \in m => Held(td, t, X, o)

\* Every entry leads to its document, in the registry, in memory and in the trash, but for
\* those whose id is in X.
Sound(st, X, o) ==
    /\ RightAll(st.files, st.docs \cup st.registry, X, o)
    /\ HeldAll(st.stored, st.manifest, X, o)

\* No entry of the paths ps is right, but those whose id is in X.
Free(st, ps, X, o) ==
    \A e \in Entry : e \in st.docs \cup st.registry /\ Right(st.files, e, o) /\ e.path \in ps
                     => e.id \in X

\* The contents c are those of every right entry of the path p.
Same(st, p, c, X, o) ==
    \A e \in Entry : e \in st.docs \cup st.registry /\ Right(st.files, e, o) /\ e.path = p
                     => e.id \in X \/ c.what = o[e.id]

\* The files fs are those that the writes ws make of the files old.
Written(old, ws, fs) ==
    /\ \A i \in DOMAIN ws : fs[ws[i][2]] = ws[i][3]
    /\ \A p \in Paths : (\A i \in DOMAIN ws : ws[i][2] # p) => fs[p] = old[p]

AllSame(st, ws, X, o) ==
    \A i \in DOMAIN ws : ws[i][1] = "write" /\ Same(st, ws[i][2], ws[i][3], X, o)

\* The steps ss bring the state st to the state end, through sound states only.
Course(ss, st, end, X, o, f) ==
    /\ f \in [0 .. Len(ss) -> State] /\ f[0] = st /\ f[Len(ss)] = end
    /\ \A i \in 1 .. Len(ss) : f[i] = Effect(ss[i], f[i - 1])
    /\ \A i \in 0 .. Len(ss) : Sound(f[i], X, o)

Leads(ss, st, end, X, o) == \E f : Course(ss, st, end, X, o, f)

\* Whoever is led somewhere starts and ends in sound states.
LEMMA Ends ==
    ASSUME NEW ss \in Seq(StepType), NEW st, NEW end, NEW X, NEW o, Leads(ss, st, end, X, o)
    PROVE  st \in State /\ end \in State /\ Sound(st, X, o) /\ Sound(end, X, o)
<1>1. PICK f : Course(ss, st, end, X, o, f)
  BY DEF Leads
<1>2. Len(ss) \in Nat /\ 0 \in 0 .. Len(ss) /\ Len(ss) \in 0 .. Len(ss)
  OBVIOUS
<1> QED
  BY <1>1, <1>2 DEF Course

\* No step leads nowhere else.
LEMMA Stay ==
    ASSUME NEW st \in State, NEW X, NEW o, Sound(st, X, o)
    PROVE  Leads(<<>>, st, st, X, o)
<1>1. PICK f : f = [i \in 0 .. 0 |-> st]
  OBVIOUS
<1>2. Len(<<>>) = 0
  OBVIOUS
<1>3. \A i \in 0 .. 0 : f[i] = st
  BY <1>1
<1>4. f \in [0 .. 0 -> State]
  BY <1>1
<1>5. 0 \in 0 .. 0 /\ 1 .. 0 = {}
  OBVIOUS
<1> QED
  BY <1>2, <1>3, <1>4, <1>5 DEF Leads, Course

\* And no step leads nowhere else than to where it starts.
LEMMA Stayed ==
    ASSUME NEW st, NEW end, NEW X, NEW o, Leads(<<>>, st, end, X, o)
    PROVE  end = st
<1>1. Len(<<>>) = 0
  OBVIOUS
<1> QED
  BY <1>1 DEF Leads, Course

\* One step leads to its effect.
LEMMA One ==
    ASSUME NEW st \in State, NEW s \in StepType, NEW end \in State, end = Effect(s, st),
           NEW X, NEW o, Sound(st, X, o), Sound(end, X, o)
    PROVE  Leads(<<s>>, st, end, X, o)
<1>1. PICK ss : ss = <<s>>
  OBVIOUS
<1>2. ss[1] = s /\ Len(ss) = 1
  BY <1>1
<1>3. PICK f : f = [i \in 0 .. 1 |-> IF i = 0 THEN st ELSE end]
  OBVIOUS
<1>4. f[0] = st /\ f[1] = end /\ f \in [0 .. 1 -> State]
  BY <1>3
<1>5. \A i \in 0 .. 1 : i = 0 \/ i = 1
  OBVIOUS
<1>6. \A i \in 1 .. 1 : i = 1 /\ i - 1 = 0
  OBVIOUS
<1>7. Course(ss, st, end, X, o, f)
  BY <1>2, <1>4, <1>5, <1>6 DEF Course
<1> QED
  BY <1>1, <1>7 DEF Leads

\* What leads on from where something else leads.
LEMMA Then ==
    ASSUME NEW a \in Seq(StepType), NEW b \in Seq(StepType), NEW st, NEW mid, NEW end, NEW X, NEW o,
           Leads(a, st, mid, X, o), Leads(b, mid, end, X, o)
    PROVE  Leads(a \o b, st, end, X, o)
<1>1. PICK f : Course(a, st, mid, X, o, f)
  BY DEF Leads
<1>2. PICK g : Course(b, mid, end, X, o, g)
  BY DEF Leads
<1>3. PICK ss : ss = a \o b
  OBVIOUS
<1>4. PICK m, n : m = Len(a) /\ n = Len(b)
  OBVIOUS
<1>5. /\ ss \in Seq(StepType) /\ Len(ss) = m + n /\ m \in Nat /\ n \in Nat
      /\ \A i \in 1 .. m + n : ss[i] = IF i <= m THEN a[i] ELSE b[i - m]
  BY <1>3, <1>4, Concatenated
<1>6. PICK h : h = [i \in 0 .. m + n |-> IF i <= m THEN f[i] ELSE g[i - m]]
  OBVIOUS
<1>7. /\ f \in [0 .. m -> State] /\ f[0] = st /\ f[m] = mid
      /\ \A i \in 1 .. m : f[i] = Effect(a[i], f[i - 1])
      /\ \A i \in 0 .. m : Sound(f[i], X, o)
  BY <1>1, <1>4 DEF Course
<1>8. /\ g \in [0 .. n -> State] /\ g[0] = mid /\ g[n] = end
      /\ \A i \in 1 .. n : g[i] = Effect(b[i], g[i - 1])
      /\ \A i \in 0 .. n : Sound(g[i], X, o)
  BY <1>2, <1>4 DEF Course
<1>9. \A i \in 0 .. m : i \in 0 .. m + n /\ h[i] = f[i]
  BY <1>5, <1>6
<1>9a. ASSUME NEW i \in m .. m + n
       PROVE  i \in 0 .. m + n /\ i - m \in 0 .. n /\ h[i] = g[i - m]
  <2>1. CASE i = m
    <3>1. m \in 0 .. m /\ i - m = 0 /\ 0 \in 0 .. n /\ i \in 0 .. m + n
      BY <1>5, <2>1
    <3>2. h[m] = f[m] /\ f[m] = g[0]
      BY <1>7, <1>8, <1>9, <3>1
    <3> QED
      BY <2>1, <3>1, <3>2
  <2>2. CASE i # m
    <3>1. i \in 0 .. m + n /\ ~(i <= m) /\ i - m \in 0 .. n
      BY <1>5, <2>2
    <3> QED
      BY <1>6, <3>1
  <2> QED
    BY <2>1, <2>2
<1>10. h \in [0 .. m + n -> State]
  <2>1. ASSUME NEW i \in 0 .. m + n
        PROVE  h[i] \in State
    <3>1. i \in 0 .. m \/ i \in m .. m + n
      BY <1>5
    <3> QED
      BY <1>7, <1>8, <1>9, <1>9a, <3>1
  <2> QED
    BY <1>6, <2>1
<1>11. h[0] = st /\ h[m + n] = end
  <2>1. 0 \in 0 .. m /\ m + n \in m .. m + n /\ (m + n) - m = n
    BY <1>5
  <2>2. h[0] = f[0] /\ h[m + n] = g[n]
    BY <1>9, <1>9a, <2>1
  <2> QED
    BY <1>7, <1>8, <2>2
<1>12. ASSUME NEW i \in 1 .. m + n
       PROVE  h[i] = Effect(ss[i], h[i - 1])
  <2>1. CASE i <= m
    <3>1. i \in 1 .. m /\ i - 1 \in 0 .. m /\ i \in 0 .. m /\ ss[i] = a[i]
      BY <1>5, <2>1
    <3> QED
      BY <1>7, <1>9, <3>1
  <2>2. CASE i > m
    <3>1. i \in m .. m + n /\ i - 1 \in m .. m + n /\ ss[i] = b[i - m] /\ i - m \in 1 .. n
          /\ (i - 1) - m = (i - m) - 1
      BY <1>5, <2>2
    <3>2. h[i] = g[i - m] /\ h[i - 1] = g[(i - m) - 1]
      BY <1>9a, <3>1
    <3> QED
      BY <1>8, <3>1, <3>2
  <2> QED
    BY <1>5, <2>1, <2>2
<1>13. ASSUME NEW i \in 0 .. m + n
       PROVE  Sound(h[i], X, o)
  <2>1. CASE i <= m
    <3>1. i \in 0 .. m
      BY <1>5, <2>1
    <3> QED
      BY <1>7, <1>9, <3>1
  <2>2. CASE i > m
    <3>1. i \in m .. m + n
      BY <1>5, <2>2
    <3> QED
      BY <1>8, <1>9a, <3>1
  <2> QED
    BY <1>5, <2>1, <2>2
<1>14. Course(ss, st, end, X, o, h)
  BY <1>5, <1>10, <1>11, <1>12, <1>13 DEF Course
<1> QED
  BY <1>3, <1>14 DEF Leads

\* What leads somewhere leads there from the effect of its first step.
LEMMA Rest ==
    ASSUME NEW ss \in Seq(StepType), ss # <<>>, NEW st, NEW end, NEW X, NEW o,
           Leads(ss, st, end, X, o)
    PROVE  /\ Leads(Tail(ss), Effect(ss[1], st), end, X, o)
           /\ Tail(ss) = <<>> => end = Effect(ss[1], st)
<1>1. PICK f : Course(ss, st, end, X, o, f)
  BY DEF Leads
<1>2. PICK n : n = Len(ss)
  OBVIOUS
<1>3. n \in Nat /\ n >= 1
  BY <1>2
<1>4. PICK tl : tl = Tail(ss)
  OBVIOUS
<1>5. tl \in Seq(StepType) /\ Len(tl) = n - 1 /\ \A i \in 1 .. n - 1 : tl[i] = ss[i + 1]
  BY <1>2, <1>3, <1>4
<1>6. PICK g : g = [i \in 0 .. n - 1 |-> f[i + 1]]
  OBVIOUS
<1>7. /\ f \in [0 .. n -> State] /\ f[0] = st /\ f[n] = end
      /\ \A i \in 1 .. n : f[i] = Effect(ss[i], f[i - 1])
      /\ \A i \in 0 .. n : Sound(f[i], X, o)
  BY <1>1, <1>2 DEF Course
<1>8. \A i \in 0 .. n - 1 : g[i] = f[i + 1] /\ i + 1 \in 0 .. n /\ i + 1 \in 1 .. n
  BY <1>3, <1>6
<1>9. g \in [0 .. n - 1 -> State]
  <2>1. \A i \in 0 .. n - 1 : g[i] \in State
    BY <1>7, <1>8
  <2> QED
    BY <1>6, <2>1
<1>10. g[0] = Effect(ss[1], st) /\ g[n - 1] = end
  <2>1. 0 \in 0 .. n - 1 /\ n - 1 \in 0 .. n - 1 /\ 1 \in 1 .. n /\ (n - 1) + 1 = n /\ 1 - 1 = 0
    BY <1>3
  <2>2. g[0] = f[1] /\ g[n - 1] = f[n]
    BY <1>8, <2>1
  <2> QED
    BY <1>7, <2>1, <2>2
<1>11. ASSUME NEW i \in 1 .. n - 1
       PROVE  g[i] = Effect(tl[i], g[i - 1])
  <2>1. i \in 0 .. n - 1 /\ i - 1 \in 0 .. n - 1 /\ (i - 1) + 1 = i /\ (i + 1) - 1 = i /\ i + 1 \in 1 .. n
    BY <1>3
  <2>2. g[i] = f[i + 1] /\ g[i - 1] = f[i]
    BY <1>8, <2>1
  <2>3. f[i + 1] = Effect(ss[i + 1], f[i])
    BY <1>7, <2>1
  <2> QED
    BY <1>5, <2>2, <2>3
<1>12. \A i \in 0 .. n - 1 : Sound(g[i], X, o)
  BY <1>7, <1>8
<1>13. Course(tl, Effect(ss[1], st), end, X, o, g)
  BY <1>5, <1>9, <1>10, <1>11, <1>12 DEF Course
<1>14. tl = <<>> => end = Effect(ss[1], st)
  <2>1. tl = <<>> => n - 1 = 0
    BY <1>3, <1>5
  <2> QED
    BY <1>10, <2>1
<1> QED
  BY <1>4, <1>13, <1>14 DEF Leads

\* What a state consists of.
LEMMA StateParts ==
    ASSUME NEW st \in State
    PROVE  /\ st.files \in [Paths -> Contents \cup {None}] /\ st.stored \in Seq(Contents \cup {None})
           /\ st.manifest \in (SUBSET Item) \cup {Missing}
           /\ st.docs \in (SUBSET Entry) \cup {Missing} /\ st.registry \in (SUBSET Entry) \cup {Missing}
           /\ st = WithFiles(st, st.files)
           /\ None \notin Contents /\ None \notin Entry /\ None \notin Item
           /\ \A e \in Entry : e \notin Missing
           /\ \A t \in Item : t \notin Missing
BY LibraryConstants DEF State, WithFiles, LibraryConstants, Missing

\* What the changed ones consist of.
LEMMA WithParts ==
    ASSUME NEW st
    PROVE  /\ \A fs : /\ WithFiles(st, fs).files = fs /\ WithFiles(st, fs).stored = st.stored
                      /\ WithFiles(st, fs).manifest = st.manifest
                      /\ WithFiles(st, fs).docs = st.docs /\ WithFiles(st, fs).registry = st.registry
           /\ \A td, m : /\ WithTrash(st, td, m).files = st.files /\ WithTrash(st, td, m).stored = td
                         /\ WithTrash(st, td, m).manifest = m
                         /\ WithTrash(st, td, m).docs = st.docs
                         /\ WithTrash(st, td, m).registry = st.registry
           /\ \A ds, reg : /\ WithEntries(st, ds, reg).files = st.files
                           /\ WithEntries(st, ds, reg).stored = st.stored
                           /\ WithEntries(st, ds, reg).manifest = st.manifest
                           /\ WithEntries(st, ds, reg).docs = ds
                           /\ WithEntries(st, ds, reg).registry = reg
BY DEF WithFiles, WithTrash, WithEntries

\* A state stays sound when other files leave every entry right that was.
LEMMA SoundFiles ==
    ASSUME NEW st \in State, NEW X, NEW o, Sound(st, X, o),
           NEW fs \in [Paths -> Contents \cup {None}],
           RightAll(fs, st.docs \cup st.registry, X, o)
    PROVE  WithFiles(st, fs) \in State /\ Sound(WithFiles(st, fs), X, o)
<1>1. WithFiles(st, fs) \in State
  BY StateParts DEF WithFiles, State
<1>2. PICK en : en = WithFiles(st, fs)
  OBVIOUS
<1>3. /\ en.files = fs /\ en.docs = st.docs /\ en.registry = st.registry /\ en.manifest = st.manifest
      /\ en.stored = st.stored
  BY <1>2, WithParts
<1>4. Sound(en, X, o)
  BY <1>3 DEF Sound
<1> QED
  BY <1>1, <1>2, <1>4

\* The same for another trash.
LEMMA SoundTrash ==
    ASSUME NEW st \in State, NEW X, NEW o, Sound(st, X, o),
           NEW td \in Seq(Contents \cup {None}), NEW m \in (SUBSET Item) \cup {Missing},
           HeldAll(td, m, X, o)
    PROVE  WithTrash(st, td, m) \in State /\ Sound(WithTrash(st, td, m), X, o)
<1>1. WithTrash(st, td, m) \in State
  BY StateParts DEF WithTrash, State
<1>2. PICK en : en = WithTrash(st, td, m)
  OBVIOUS
<1>3. /\ en.files = st.files /\ en.docs = st.docs /\ en.registry = st.registry /\ en.manifest = m
      /\ en.stored = td
  BY <1>2 DEF WithTrash
<1>4. Sound(en, X, o)
  BY <1>3 DEF Sound
<1> QED
  BY <1>1, <1>2, <1>4

\* And for other entries.
LEMMA SoundEntries ==
    ASSUME NEW st \in State, NEW X, NEW o, Sound(st, X, o),
           NEW ds \in (SUBSET Entry) \cup {Missing}, NEW reg \in (SUBSET Entry) \cup {Missing},
           RightAll(st.files, ds \cup reg, X, o)
    PROVE  WithEntries(st, ds, reg) \in State /\ Sound(WithEntries(st, ds, reg), X, o)
<1>1. WithEntries(st, ds, reg) \in State
  BY StateParts DEF WithEntries, State
<1>2. PICK en : en = WithEntries(st, ds, reg)
  OBVIOUS
<1>3. /\ en.files = st.files /\ en.docs = ds /\ en.registry = reg /\ en.manifest = st.manifest
      /\ en.stored = st.stored
  BY <1>2, WithParts
<1>4. Sound(en, X, o)
  BY <1>3 DEF Sound
<1> QED
  BY <1>1, <1>2, <1>4

\* A write of what all entries of the path lead to, or of a path that no entry to be kept has.
LEMMA WriteLeads ==
    ASSUME NEW st \in State, NEW X, NEW o, Sound(st, X, o), NEW p \in Paths, NEW c \in Contents,
           Same(st, p, c, X, o),
           NEW fs, fs = [st.files EXCEPT ![p] = c]
    PROVE  /\ WithFiles(st, fs) \in State /\ Sound(WithFiles(st, fs), X, o)
           /\ WithFiles(st, fs) = Effect(<<"write", p, c>>, st)
           /\ Leads(<< <<"write", p, c>> >>, st, WithFiles(st, fs), X, o)
<1>1. /\ fs \in [Paths -> Contents \cup {None}] /\ fs[p] = c /\ c # None
      /\ \A x \in Paths : x # p => fs[x] = st.files[x]
  BY StateParts
<1>2. RightAll(fs, st.docs \cup st.registry, X, o)
  <2> SUFFICES ASSUME NEW e \in Entry, e \in st.docs \cup st.registry, e.id \notin X
               PROVE  Right(fs, e, o)
    BY DEF RightAll
  <2>1. e.path \in Paths
    BY DEF Entry
  <2>2. Right(st.files, e, o)
    BY DEF Sound, RightAll
  <2> QED
    BY <1>1, <2>1, <2>2 DEF Right, Same
<1>3. WithFiles(st, fs) \in State /\ Sound(WithFiles(st, fs), X, o)
  BY <1>1, <1>2, SoundFiles
<1>4. PICK s \in StepType : s = <<"write", p, c>>
  BY StepTypes
<1>5. Effect(s, st) = WithFiles(st, fs)
  BY <1>4 DEF Effect
<1> QED
  BY <1>3, <1>4, <1>5, One

\* A move of a file between paths that no entry to be kept has.
LEMMA MoveLeads ==
    ASSUME NEW st \in State, NEW X, NEW o, Sound(st, X, o), NEW p \in Paths, NEW q \in Paths,
           Free(st, {p, q}, X, o),
           NEW fs, fs = Moved(st.files, p, q)
    PROVE  /\ WithFiles(st, fs) \in State /\ Sound(WithFiles(st, fs), X, o)
           /\ Leads(<< <<"move", p, q>> >>, st, WithFiles(st, fs), X, o)
<1>1. /\ fs \in [Paths -> Contents \cup {None}]
      /\ \A x \in Paths \ {p, q} : fs[x] = st.files[x]
  BY StateParts DEF Moved
<1>2. RightAll(fs, st.docs \cup st.registry, X, o)
  <2> SUFFICES ASSUME NEW e \in Entry, e \in st.docs \cup st.registry, e.id \notin X
               PROVE  Right(fs, e, o)
    BY DEF RightAll
  <2>1. e.path \in Paths
    BY DEF Entry
  <2>2. Right(st.files, e, o)
    BY DEF Sound, RightAll
  <2> QED
    BY <1>1, <2>1, <2>2 DEF Right, Free
<1>3. WithFiles(st, fs) \in State /\ Sound(WithFiles(st, fs), X, o)
  BY <1>1, <1>2, SoundFiles
<1>4. PICK s \in StepType : s = <<"move", p, q>>
  BY StepTypes
<1>5. Effect(s, st) = WithFiles(st, fs)
  BY <1>4 DEF Effect
<1> QED
  BY <1>3, <1>4, <1>5, One

\* A file into the trash, from a path that no entry to be kept has.
LEMMA StoreLeads ==
    ASSUME NEW st \in State, NEW X, NEW o, Sound(st, X, o), NEW p \in Paths,
           Free(st, {p}, X, o),
           NEW fs, fs = [st.files EXCEPT ![p] = None],
           NEW td, td = Append(st.stored, st.files[p]),
           NEW end, end = WithTrash(WithFiles(st, fs), td, st.manifest)
    PROVE  /\ end \in State /\ Sound(end, X, o)
           /\ Leads(<< <<"store", p>> >>, st, end, X, o)
<1>1. /\ fs \in [Paths -> Contents \cup {None}]
      /\ \A x \in Paths : x # p => fs[x] = st.files[x]
  BY StateParts
<1>2. RightAll(fs, st.docs \cup st.registry, X, o)
  <2> SUFFICES ASSUME NEW e \in Entry, e \in st.docs \cup st.registry, e.id \notin X
               PROVE  Right(fs, e, o)
    BY DEF RightAll
  <2>1. e.path \in Paths
    BY DEF Entry
  <2>2. Right(st.files, e, o)
    BY DEF Sound, RightAll
  <2> QED
    BY <1>1, <2>1, <2>2 DEF Right, Free
<1>3. WithFiles(st, fs) \in State /\ Sound(WithFiles(st, fs), X, o)
  BY <1>1, <1>2, SoundFiles
<1>4. PICK mid \in State : mid = WithFiles(st, fs)
  BY <1>3
<1>5. mid.manifest = st.manifest /\ st.manifest \in (SUBSET Item) \cup {Missing}
  BY <1>4, WithParts, StateParts
<1>6. /\ td \in Seq(Contents \cup {None})
      /\ \A i \in DOMAIN st.stored : i \in DOMAIN td /\ td[i] = st.stored[i]
  <2>1. st.stored \in Seq(Contents \cup {None}) /\ st.files[p] \in Contents \cup {None}
    BY StateParts
  <2> QED
    BY <2>1
<1>7. HeldAll(td, st.manifest, X, o)
  BY <1>6 DEF Sound, HeldAll, Held
<1>8. end \in State /\ Sound(end, X, o)
  BY <1>3, <1>4, <1>5, <1>6, <1>7, SoundTrash
<1>9. PICK s \in StepType : s = <<"store", p>>
  BY StepTypes
<1>10. Effect(s, st) = end
  BY <1>9 DEF Effect
<1> QED
  BY <1>8, <1>9, <1>10, One

\* A file out of the trash, to where no file is.
LEMMA FetchLeads ==
    ASSUME NEW st \in State, NEW X, NEW o, Sound(st, X, o), NEW t \in Nat, NEW p \in Paths,
           t \in DOMAIN st.stored, st.files[p] = None,
           NEW fs, fs = [st.files EXCEPT ![p] = st.stored[t]]
    PROVE  /\ WithFiles(st, fs) \in State /\ Sound(WithFiles(st, fs), X, o)
           /\ Leads(<< <<"fetch", t, p>> >>, st, WithFiles(st, fs), X, o)
<1>0. st.stored[t] \in Contents \cup {None}
  BY StateParts
<1>1. /\ fs \in [Paths -> Contents \cup {None}]
      /\ \A x \in Paths : x # p => fs[x] = st.files[x]
  BY <1>0, StateParts
<1>2. RightAll(fs, st.docs \cup st.registry, X, o)
  <2> SUFFICES ASSUME NEW e \in Entry, e \in st.docs \cup st.registry, e.id \notin X
               PROVE  Right(fs, e, o)
    BY DEF RightAll
  <2>1. e.path \in Paths
    BY DEF Entry
  <2>2. Right(st.files, e, o)
    BY DEF Sound, RightAll
  <2> QED
    BY <1>1, <2>1, <2>2 DEF Right
<1>3. WithFiles(st, fs) \in State /\ Sound(WithFiles(st, fs), X, o)
  BY <1>1, <1>2, SoundFiles
<1>4. PICK s \in StepType : s = <<"fetch", t, p>>
  BY StepTypes
<1>5. Effect(s, st) = WithFiles(st, fs)
  BY <1>4 DEF Effect
<1> QED
  BY <1>3, <1>4, <1>5, One

\* The removal of a file of the trash.
LEMMA DropLeads ==
    ASSUME NEW st \in State, NEW X, NEW o, Sound(st, X, o), NEW t \in DOMAIN st.stored,
           NEW td, td = [st.stored EXCEPT ![t] = None],
           NEW end, end = WithTrash(st, td, st.manifest)
    PROVE  /\ end \in State /\ Sound(end, X, o)
           /\ end = Effect(<<"drop", t>>, st)
           /\ Leads(<< <<"drop", t>> >>, st, end, X, o)
<1>0. st.stored \in Seq(Contents \cup {None}) /\ st.manifest \in (SUBSET Item) \cup {Missing} /\ t \in Nat
  BY StateParts
<1>1. /\ td \in Seq(Contents \cup {None}) /\ DOMAIN td = DOMAIN st.stored
      /\ \A i \in DOMAIN td : td[i] = None \/ td[i] = st.stored[i]
  BY <1>0
<1>2. HeldAll(td, st.manifest, X, o)
  BY <1>1 DEF Sound, HeldAll, Held
<1>3. end \in State /\ Sound(end, X, o)
  BY <1>0, <1>1, <1>2, SoundTrash
<1>4. PICK s \in StepType : s = <<"drop", t>>
  BY <1>0, StepTypes
<1>5. Effect(s, st) = end
  BY <1>4 DEF Effect
<1> QED
  BY <1>3, <1>4, <1>5, One

\* One step and two.
LEMMA TwoSteps ==
    \A s, u \in StepType : /\ <<s>> \in Seq(StepType) /\ <<u>> \in Seq(StepType)
                           /\ <<s>> \o <<u>> = <<s, u>> /\ <<s, u>> \in Seq(StepType)
<1> SUFFICES ASSUME NEW s \in StepType, NEW u \in StepType
             PROVE  /\ <<s>> \in Seq(StepType) /\ <<u>> \in Seq(StepType)
                    /\ <<s>> \o <<u>> = <<s, u>> /\ <<s, u>> \in Seq(StepType)
  OBVIOUS
<1>1. <<s>> \in Seq(StepType) /\ <<u>> \in Seq(StepType) /\ <<s, u>> \in Seq(StepType)
  OBVIOUS
<1>2. <<s>> \o <<u>> = <<s, u>>
  <2>1. PICK x : x = <<s>> \o <<u>>
    OBVIOUS
  <2>2. PICK b \in Seq(StepType) : b = <<s>> /\ Len(b) = 1 /\ b[1] = s
    BY <1>1
  <2>3. x \in Seq(StepType) /\ Len(x) = 2 /\ x[2] = u /\ x[1] = s
    <3>1. /\ x \in Seq(StepType) /\ Len(x) = Len(b) + 1 /\ x[Len(b) + 1] = u
          /\ \A i \in 1 .. Len(b) : x[i] = b[i]
      BY <2>1, <2>2, After
    <3>2. 1 \in 1 .. Len(b) /\ Len(b) + 1 = 2
      BY <2>2
    <3> QED
      BY <2>2, <3>1, <3>2
  <2>4. x = <<s, u>>
    BY <2>3
  <2> QED
    BY <2>1, <2>4
<1> QED
  BY <1>1, <1>2

\* The manifest written anew: every item has its file.
LEMMA SaveManifestLeads ==
    ASSUME NEW st \in State, NEW X, NEW o, Sound(st, X, o), NEW m \in SUBSET Item,
           HeldAll(st.stored, m, X, o),
           NEW end, end = WithTrash(st, st.stored, m)
    PROVE  /\ end \in State /\ Sound(end, X, o)
           /\ SaveManifest(m) \in Seq(StepType)
           /\ Leads(SaveManifest(m), st, end, X, o)
<1>1. st.stored \in Seq(Contents \cup {None})
  BY StateParts
<1>2. end \in State /\ Sound(end, X, o)
  BY <1>1, SoundTrash
<1>3. PICK mid : mid = WithTrash(st, st.stored, Missing)
  OBVIOUS
<1>4. mid \in State /\ Sound(mid, X, o)
  <2>1. HeldAll(st.stored, Missing, X, o)
    BY StateParts DEF HeldAll
  <2>2. Missing \in (SUBSET Item) \cup {Missing}
    OBVIOUS
  <2> QED
    BY <1>1, <1>3, <2>1, <2>2, SoundTrash
<1>5. PICK s \in StepType, u \in StepType : s = <<"unlist">> /\ u = <<"list", m>>
  BY StepTypes
<1>6. mid = Effect(s, st) /\ end = Effect(u, mid) /\ end = Effect(u, st)
  <2>1. mid = Effect(s, st) /\ end = Effect(u, st)
    BY <1>3, <1>5 DEF Effect
  <2>2. Effect(u, mid) = WithTrash(mid, mid.stored, m)
    BY <1>5 DEF Effect
  <2>3. mid.files = st.files /\ mid.stored = st.stored /\ mid.docs = st.docs /\ mid.registry = st.registry
    BY <1>3 DEF WithTrash
  <2>4. WithTrash(mid, mid.stored, m) = WithTrash(st, st.stored, m)
    BY <2>3 DEF WithTrash
  <2> QED
    BY <2>1, <2>2, <2>4
<1>7. Leads(<<s>>, st, mid, X, o) /\ Leads(<<u>>, mid, end, X, o) /\ Leads(<<u>>, st, end, X, o)
  BY <1>2, <1>4, <1>6, One
<1>8. <<s>> \in Seq(StepType) /\ <<u>> \in Seq(StepType) /\ <<s>> \o <<u>> = <<s, u>>
      /\ <<s, u>> \in Seq(StepType)
  BY TwoSteps
<1>9. PICK one \in Seq(StepType), two \in Seq(StepType) : one = <<u>> /\ two = <<s, u>>
  BY <1>8
<1>10. Leads(one, st, end, X, o) /\ Leads(two, st, end, X, o)
  BY <1>7, <1>8, <1>9, Then
<1>11. SaveManifest(m) = one \/ SaveManifest(m) = two
  BY <1>5, <1>9 DEF SaveManifest
<1> QED
  BY <1>2, <1>10, <1>11

\* The registry written anew: every entry leads to its document.
LEMMA SaveRegistryLeads ==
    ASSUME NEW st \in State, NEW X, NEW o, Sound(st, X, o), NEW ds \in SUBSET Entry,
           RightAll(st.files, ds, X, o),
           NEW end, end = WithEntries(st, ds, ds)
    PROVE  /\ end \in State /\ Sound(end, X, o)
           /\ SaveRegistry(ds) \in Seq(StepType)
           /\ Leads(SaveRegistry(ds), st, end, X, o)
<1>1. end \in State /\ Sound(end, X, o)
  <2>1. ds \in (SUBSET Entry) \cup {Missing} /\ ds \cup ds = ds
    OBVIOUS
  <2> QED
    BY <2>1, SoundEntries
<1>2. PICK mid : mid = WithEntries(st, ds, Missing)
  OBVIOUS
<1>3. mid \in State /\ Sound(mid, X, o)
  <2>1. RightAll(st.files, ds \cup Missing, X, o)
    BY StateParts DEF RightAll
  <2>2. Missing \in (SUBSET Entry) \cup {Missing} /\ ds \in (SUBSET Entry) \cup {Missing}
    OBVIOUS
  <2> QED
    BY <1>2, <2>1, <2>2, SoundEntries
<1>4. PICK s \in StepType, u \in StepType : s = <<"cut", ds>> /\ u = <<"keep", ds>>
  BY StepTypes
<1>5. mid = Effect(s, st) /\ end = Effect(u, mid)
  <2>1. mid = Effect(s, st)
    BY <1>2, <1>4 DEF Effect
  <2>2. Effect(u, mid) = WithEntries(mid, mid.docs, ds)
    BY <1>4 DEF Effect
  <2>3. mid.files = st.files /\ mid.stored = st.stored /\ mid.docs = ds /\ mid.manifest = st.manifest
    BY <1>2 DEF WithEntries
  <2>4. WithEntries(mid, mid.docs, ds) = WithEntries(st, ds, ds)
    BY <2>3 DEF WithEntries
  <2> QED
    BY <2>1, <2>2, <2>4
<1>6. Leads(<<s>>, st, mid, X, o) /\ Leads(<<u>>, mid, end, X, o)
  BY <1>1, <1>3, <1>5, One
<1>7. <<s>> \in Seq(StepType) /\ <<u>> \in Seq(StepType) /\ <<s>> \o <<u>> = <<s, u>>
      /\ <<s, u>> \in Seq(StepType)
  BY TwoSteps
<1>8. PICK ss \in Seq(StepType) : ss = <<s, u>>
  BY <1>7
<1>9. Leads(ss, st, end, X, o)
  BY <1>6, <1>7, <1>8, Then
<1>10. SaveRegistry(ds) = ss
  BY <1>4, <1>8 DEF SaveRegistry
<1> QED
  BY <1>1, <1>9, <1>10

\* What a step says in the receipts leads nowhere else.
LEMMA NoteLeads ==
    ASSUME NEW st \in State, NEW X, NEW o, Sound(st, X, o), NEW s \in StepType,
           s[1] \in {"receipt", "undone"}
    PROVE  <<s>> \in Seq(StepType) /\ Leads(<<s>>, st, st, X, o)
<1>1. st = Effect(s, st)
  BY DEF Effect
<1> QED
  BY <1>1, One

\* Writes one after the other, to which fs is what they leave.
LEMMA WritesLead ==
    ASSUME NEW st \in State, NEW X, NEW o, Sound(st, X, o), NEW ws \in Seq(StepType),
           AllSame(st, ws, X, o),
           NEW fs \in [Paths -> Contents \cup {None}], Written(st.files, ws, fs)
    PROVE  /\ WithFiles(st, fs) \in State /\ Sound(WithFiles(st, fs), X, o)
           /\ Leads(ws, st, WithFiles(st, fs), X, o)
<1>1. PICK n \in Nat : n = Len(ws) /\ DOMAIN ws = 1 .. n
  OBVIOUS
<1>2. \A i \in 1 .. n : ws[i] \in StepType /\ ws[i][2] \in Paths /\ ws[i][3] \in Contents
  BY <1>1, StepParts DEF AllSame
<1>2a. /\ \A i \in 1 .. n : ws[i][1] = "write" /\ Same(st, ws[i][2], ws[i][3], X, o)
       /\ \A i \in 1 .. n : fs[ws[i][2]] = ws[i][3]
       /\ \A p \in Paths : (\A i \in 1 .. n : ws[i][2] # p) => fs[p] = st.files[p]
  BY <1>1 DEF AllSame, Written
<1>3. PICK P : P = [k \in 0 .. n |-> [p \in Paths |-> IF \E i \in 1 .. k : ws[i][2] = p
                                                     THEN fs[p] ELSE st.files[p]]]
  OBVIOUS
<1>4. \A k \in 0 .. n : /\ P[k] \in [Paths -> Contents \cup {None}]
                        /\ \A p \in Paths : P[k][p] = IF \E i \in 1 .. k : ws[i][2] = p
                                                      THEN fs[p] ELSE st.files[p]
  BY <1>3, StateParts
<1>5. P[0] = st.files
  <2>1. 1 .. 0 = {} /\ 0 \in 0 .. n
    BY <1>1
  <2>2. \A p \in Paths : P[0][p] = st.files[p]
    BY <1>4, <2>1
  <2> QED
    BY <1>4, <2>1, <2>2, StateParts
<1>6. P[n] = fs
  <2>1. n \in 0 .. n
    BY <1>1
  <2>2. \A p \in Paths : P[n][p] = fs[p]
    BY <1>2a, <1>4, <2>1
  <2> QED
    BY <1>4, <2>1, <2>2
<1>7. ASSUME NEW k \in 0 .. n
      PROVE  WithFiles(st, P[k]) \in State /\ Sound(WithFiles(st, P[k]), X, o)
  <2>1. ASSUME NEW e \in Entry, e \in st.docs \cup st.registry, e.id \notin X
        PROVE  Right(P[k], e, o)
    <3>0. Right(st.files, e, o)
      BY <2>1 DEF Sound, RightAll
    <3>1. e.path \in Paths
      BY DEF Entry
    <3>2. CASE \E i \in 1 .. k : ws[i][2] = e.path
      <4>1. PICK i \in 1 .. n : ws[i][2] = e.path
        BY <1>1, <3>2
      <4>2. P[k][e.path] = fs[e.path] /\ fs[e.path] = ws[i][3]
        BY <1>2a, <1>4, <3>1, <3>2, <4>1
      <4>3. ws[i][3].what = o[e.id]
        BY <1>2a, <2>1, <3>0, <4>1 DEF Same
      <4>4. ws[i][3] # None
        BY <1>2, <4>1, StateParts
      <4> QED
        BY <4>2, <4>3, <4>4 DEF Right
    <3>3. CASE ~ \E i \in 1 .. k : ws[i][2] = e.path
      <4>1. P[k][e.path] = st.files[e.path]
        BY <1>4, <3>1, <3>3
      <4> QED
        BY <3>0, <4>1 DEF Right
    <3> QED
      BY <3>2, <3>3
  <2>2. RightAll(P[k], st.docs \cup st.registry, X, o)
    BY <2>1 DEF RightAll
  <2> QED
    BY <1>4, <2>2, SoundFiles
<1>8. PICK f : f = [k \in 0 .. n |-> WithFiles(st, P[k])]
  OBVIOUS
<1>9. ASSUME NEW k \in 1 .. n
      PROVE  f[k] = Effect(ws[k], f[k - 1])
  <2>1. k \in 0 .. n /\ k - 1 \in 0 .. n
    BY <1>1
  <2>2. PICK p \in Paths, c \in Contents : p = ws[k][2] /\ c = ws[k][3]
    BY <1>2
  <2>3. PICK g : g = [P[k - 1] EXCEPT ![p] = c]
    OBVIOUS
  <2>4. g = P[k]
    <3>1. ASSUME NEW x \in Paths
          PROVE  g[x] = P[k][x]
      <4>1. CASE x = p
        <5>1. P[k][x] = fs[x] /\ fs[x] = c
          BY <1>1, <1>2a, <1>4, <2>1, <2>2, <4>1
        <5> QED
          BY <1>4, <2>1, <2>3, <4>1, <5>1
      <4>2. CASE x # p
        <5>1. (\E i \in 1 .. k : ws[i][2] = x) <=> (\E i \in 1 .. k - 1 : ws[i][2] = x)
          <6>1. \A i \in 1 .. k : i = k \/ i \in 1 .. k - 1
            BY <1>1
          <6>2. \A i \in 1 .. k - 1 : i \in 1 .. k
            BY <1>1
          <6> QED
            BY <2>2, <4>2, <6>1, <6>2
        <5>2. P[k][x] = P[k - 1][x]
          BY <1>4, <2>1, <5>1
        <5> QED
          BY <1>4, <2>1, <2>3, <4>2, <5>2
      <4> QED
        BY <4>1, <4>2
    <3>2. g \in [Paths -> Contents \cup {None}]
      BY <1>4, <2>1, <2>3
    <3> QED
      BY <1>4, <2>1, <3>1, <3>2
  <2>5. PICK m : m = WithFiles(st, P[k - 1])
    OBVIOUS
  <2>6. f[k] = WithFiles(st, P[k]) /\ f[k - 1] = m
    BY <1>8, <2>1, <2>5
  <2>7. Effect(ws[k], m) = WithFiles(m, [m.files EXCEPT ![p] = c])
    BY <1>2a, <2>2 DEF Effect
  <2>8. /\ m.files = P[k - 1] /\ m.stored = st.stored /\ m.manifest = st.manifest
        /\ m.docs = st.docs /\ m.registry = st.registry
    BY <2>5 DEF WithFiles
  <2>9. WithFiles(m, g) = WithFiles(st, g)
    BY <2>8 DEF WithFiles
  <2> QED
    BY <2>3, <2>4, <2>6, <2>7, <2>8, <2>9
<1>10. \A k \in 0 .. n : f[k] \in State /\ Sound(f[k], X, o)
  BY <1>7, <1>8
<1>11. f \in [0 .. n -> State]
  BY <1>8, <1>10
<1>12. f[0] = st /\ f[n] = WithFiles(st, fs)
  <2>1. 0 \in 0 .. n /\ n \in 0 .. n
    BY <1>1
  <2>2. f[0] = WithFiles(st, st.files) /\ f[n] = WithFiles(st, fs)
    BY <1>5, <1>6, <1>8, <2>1
  <2> QED
    BY <2>2, StateParts
<1>13. Course(ws, st, WithFiles(st, fs), X, o, f)
  BY <1>1, <1>9, <1>10, <1>11, <1>12 DEF Course
<1>14. n \in 0 .. n
  BY <1>1
<1> QED
  BY <1>10, <1>12, <1>13, <1>14 DEF Leads

\* Steps that remove files of the trash.
Drop(st, ss) == \A i \in DOMAIN ss : ss[i][1] = "drop" /\ ss[i][2] \in DOMAIN st.stored

\* Removals of files of the trash one after the other, to which td is what they leave.
LEMMA DropsLead ==
    ASSUME NEW st \in State, NEW X, NEW o, Sound(st, X, o), NEW ss \in Seq(StepType),
           Drop(st, ss),
           NEW td, td = [t \in DOMAIN st.stored |-> IF \E i \in DOMAIN ss : ss[i][2] = t
                                                    THEN None ELSE st.stored[t]],
           NEW end, end = WithTrash(st, td, st.manifest)
    PROVE  /\ end \in State /\ Sound(end, X, o)
           /\ Leads(ss, st, end, X, o)
<1>1. PICK n \in Nat : n = Len(ss) /\ DOMAIN ss = 1 .. n
  OBVIOUS
<1>1a. \A i \in 1 .. n : ss[i][1] = "drop" /\ ss[i][2] \in DOMAIN st.stored
  BY <1>1 DEF Drop
<1>2. PICK N \in Nat : /\ DOMAIN st.stored = 1 .. N /\ st.stored \in [1 .. N -> Contents \cup {None}]
                       /\ st.manifest \in (SUBSET Item) \cup {Missing}
  <2>1. st.stored \in Seq(Contents \cup {None}) /\ st.manifest \in (SUBSET Item) \cup {Missing}
    BY StateParts
  <2> QED
    BY <2>1
<1>3. PICK P : P = [k \in 0 .. n |-> [t \in 1 .. N |-> IF \E i \in 1 .. k : ss[i][2] = t
                                                       THEN None ELSE st.stored[t]]]
  OBVIOUS
<1>4. \A k \in 0 .. n : /\ P[k] \in [1 .. N -> Contents \cup {None}]
                        /\ \A t \in 1 .. N : P[k][t] = IF \E i \in 1 .. k : ss[i][2] = t
                                                       THEN None ELSE st.stored[t]
  BY <1>2, <1>3
<1>5. P[0] = st.stored
  <2>1. 1 .. 0 = {} /\ 0 \in 0 .. n
    BY <1>1
  <2>2. \A t \in 1 .. N : P[0][t] = st.stored[t]
    BY <1>4, <2>1
  <2> QED
    BY <1>2, <1>4, <2>1, <2>2
<1>6. P[n] = td
  <2>1. n \in 0 .. n
    BY <1>1
  <2> QED
    BY <1>1, <1>2, <1>3, <2>1
<1>7. ASSUME NEW k \in 0 .. n
      PROVE  /\ WithTrash(st, P[k], st.manifest) \in State
             /\ Sound(WithTrash(st, P[k], st.manifest), X, o)
  <2>0. P[k] \in [1 .. N -> Contents \cup {None}]
    BY <1>4
  <2>1. P[k] \in Seq(Contents \cup {None})
    BY <2>0
  <2>2. \A u \in 1 .. N : P[k][u] = None \/ P[k][u] = st.stored[u]
    BY <1>4
  <2>3. DOMAIN P[k] = 1 .. N
    BY <1>4
  <2>4. HeldAll(P[k], st.manifest, X, o)
    BY <1>2, <2>2, <2>3 DEF Sound, HeldAll, Held
  <2> QED
    BY <1>2, <2>1, <2>4, SoundTrash
<1>8. PICK f : f = [k \in 0 .. n |-> WithTrash(st, P[k], st.manifest)]
  OBVIOUS
<1>9. ASSUME NEW k \in 1 .. n
      PROVE  f[k] = Effect(ss[k], f[k - 1])
  <2>1. k \in 0 .. n /\ k - 1 \in 0 .. n
    BY <1>1
  <2>2. PICK t \in 1 .. N : t = ss[k][2] /\ ss[k][1] = "drop"
    BY <1>1, <1>1a, <1>2
  <2>3. PICK g : g = [P[k - 1] EXCEPT ![t] = None]
    OBVIOUS
  <2>4. g = P[k]
    <3>0. P[k - 1] \in [1 .. N -> Contents \cup {None}]
      BY <1>4, <2>1
    <3>1. ASSUME NEW x \in 1 .. N
          PROVE  g[x] = P[k][x]
      <4>1. CASE x = t
        <5>1. P[k][x] = None
          BY <1>1, <1>4, <2>1, <2>2, <4>1
        <5> QED
          BY <1>4, <2>1, <2>3, <4>1, <5>1
      <4>2. CASE x # t
        <5>1. (\E i \in 1 .. k : ss[i][2] = x) <=> (\E i \in 1 .. k - 1 : ss[i][2] = x)
          <6>1. \A i \in 1 .. k : i = k \/ i \in 1 .. k - 1
            BY <1>1
          <6>2. \A i \in 1 .. k - 1 : i \in 1 .. k
            BY <1>1
          <6> QED
            BY <2>2, <4>2, <6>1, <6>2
        <5>2. P[k][x] = P[k - 1][x]
          <6>1. P[k][x] = IF \E i \in 1 .. k : ss[i][2] = x THEN None ELSE st.stored[x]
            BY <1>4, <2>1
          <6>2. P[k - 1][x] = IF \E i \in 1 .. k - 1 : ss[i][2] = x THEN None ELSE st.stored[x]
            BY <1>4, <2>1
          <6> QED
            BY <5>1, <6>1, <6>2
        <5> QED
          BY <1>4, <2>1, <2>3, <4>2, <5>2
      <4> QED
        BY <4>1, <4>2
    <3>2. g \in [1 .. N -> Contents \cup {None}]
      BY <1>4, <2>1, <2>3
    <3> QED
      BY <1>4, <2>1, <3>1, <3>2
  <2>5. PICK m : m = WithTrash(st, P[k - 1], st.manifest)
    OBVIOUS
  <2>6. f[k] = WithTrash(st, P[k], st.manifest) /\ f[k - 1] = m
    BY <1>8, <2>1, <2>5
  <2>7. Effect(ss[k], m) = WithTrash(m, [m.stored EXCEPT ![t] = None], m.manifest)
    BY <2>2 DEF Effect
  <2>8. /\ m.files = st.files /\ m.stored = P[k - 1] /\ m.manifest = st.manifest
        /\ m.docs = st.docs /\ m.registry = st.registry
    BY <2>5 DEF WithTrash
  <2>9. WithTrash(m, g, m.manifest) = WithTrash(st, g, st.manifest)
    BY <2>8 DEF WithTrash
  <2> QED
    BY <2>3, <2>4, <2>6, <2>7, <2>8, <2>9
<1>10. \A k \in 0 .. n : f[k] \in State /\ Sound(f[k], X, o)
  BY <1>7, <1>8
<1>11. f \in [0 .. n -> State]
  BY <1>8, <1>10
<1>12. f[0] = st /\ f[n] = end
  <2>1. 0 \in 0 .. n /\ n \in 0 .. n
    BY <1>1
  <2>2. f[0] = WithTrash(st, st.stored, st.manifest) /\ f[n] = end
    BY <1>5, <1>6, <1>8, <2>1
  <2>3. WithTrash(st, st.stored, st.manifest) = WithFiles(st, st.files)
    BY DEF WithTrash, WithFiles
  <2> QED
    BY <2>2, <2>3, StateParts
<1>13. Course(ss, st, end, X, o, f)
  BY <1>1, <1>9, <1>10, <1>11, <1>12 DEF Course
<1>14. n \in 0 .. n
  BY <1>1
<1> QED
  BY <1>10, <1>12, <1>13, <1>14 DEF Leads

\* The state st is what the operation of the receipt r leaves, by what it found (r.then).
AddMatches(st, r) ==
    /\ r.then.files[r.after] = None
    /\ \A p \in Paths : p # r.after => st.files[p] = r.then.files[p]
    /\ \E e \in Entry : e.id = r.id /\ st.docs = r.then.docs \cup {e}
    /\ \A e \in r.then.docs : e.id # r.id

RemoveMatches(st, r) ==
    /\ st.files = r.then.files
    /\ r.entry \in r.then.docs /\ st.docs = r.then.docs \ {r.entry}
    /\ \A e \in r.then.docs : e.id = r.id => e = r.entry

\* What a rename moves, and which paths it repairs.
MovedBy(r) == Moved(r.then.files, r.before, r.after)
RepairedBy(r) == Referring(MovedBy(r), r.then.docs, r.id, r.before)

RenameMatches(st, r, X) ==
    /\ r.entry \in r.then.docs /\ r.entry.id = r.id /\ r.entry.path = r.before
    /\ \A e \in r.then.docs : e.id = r.id => e = r.entry
    /\ \A e \in r.then.docs : e.path = r.before /\ e # r.entry => e.id \in X
    /\ r.then.files[r.before] # None /\ r.then.files[r.after] = None
    /\ st.docs = (r.then.docs \ {r.entry}) \cup {[r.entry EXCEPT !.path = r.after]}
    /\ \A p \in Paths : st.files[p] = IF p \in RepairedBy(r)
                                      THEN Repointed(MovedBy(r)[p], r.after)
                                      ELSE MovedBy(r)[p]
    /\ \A i \in DOMAIN r.repaired : /\ r.repaired[i].path \in RepairedBy(r)
                                    /\ r.repaired[i].backup = MovedBy(r)[r.repaired[i].path]
    /\ \A p \in RepairedBy(r) : \E i \in DOMAIN r.repaired : r.repaired[i].path = p

Matches(st, r, X) ==
    /\ r.op \in {"create", "import", "duplicate"} => AddMatches(st, r)
    /\ r.op = "remove" => RemoveMatches(st, r)
    /\ r.op = "rename" => RenameMatches(st, r, X)

\* The entry of a removal is the one of the path that its undo comes back to.
Placed(r) == r.op = "remove" => r.entry.path = r.before

\* Where the steps of the operation under way lead.
GoesTo(end) ==
    /\ Leads(job.steps, Now, end, astray \cup job.ids, owner)
    /\ Sound(end, astray, owner)
    /\ docs # Missing => end.docs = end.registry
    /\ expected # None => end.files = expected.files /\ end.docs = expected.docs
    /\ \A i \in DOMAIN job.steps :
          job.steps[i][1] = "receipt" => Matches(end, job.steps[i][2], astray)

\* What the steps of an operation and the receipts rely on.
ReceiptInv ==
    /\ docs = Missing => expected = None
    /\ latest # 0 => /\ job.steps = <<>> /\ docs # Missing
                     /\ Matches(Now, receipts[latest], astray)
    /\ \A i \in DOMAIN receipts : Placed(receipts[i])
    /\ \A i \in DOMAIN job.steps :
          job.steps[i][1] = "receipt" => i = Len(job.steps) /\ Placed(job.steps[i][2])

CourseInv == ReceiptInv /\ \E end : GoesTo(end)

\* The steps ss end with the receipt that they hold, if any, of what leads to the state end.
Reports(ss, end, A) ==
    \A i \in DOMAIN ss :
        ss[i][1] = "receipt" => i = Len(ss) /\ Placed(ss[i][2]) /\ Matches(end, ss[i][2], A)

Silent(ss) == \A i \in DOMAIN ss : ss[i][1] # "receipt"

\* More that is astray makes no state less sound.
LEMMA SoundMore ==
    ASSUME NEW st, NEW X, NEW Y, X \subseteq Y, NEW o, Sound(st, X, o)
    PROVE  Sound(st, Y, o)
BY DEF Sound, RightAll, HeldAll, Held

\* Between two operations no file is a .bak that a write has still to replace.
LEMMA AtRest ==
    ASSUME TypeInv, job.steps = <<>>
    PROVE  aside = FALSE /\ Unmoved = files
<1>1. aside = FALSE
  BY DEF TypeInv, NextWrites
<1> QED
  BY <1>1 DEF Unmoved

\* Between two operations.
LEMMA QuietNow ==
    ASSUME IInv, CourseInv, job.steps = <<>>, docs # Missing
    PROVE  /\ Now \in State /\ Sound(Now, astray, owner) /\ docs = registry
           /\ Now.files = files /\ Now.stored = stored /\ Now.manifest = manifest
           /\ Now.docs = docs /\ Now.registry = registry
           /\ expected # None => files = expected.files /\ docs = expected.docs
<1>1. PICK end : GoesTo(end)
  BY DEF CourseInv
<1>2. job.ids = {}
  BY DEF IInv, TypeInv, Idle
<1>3. Leads(<<>>, Now, end, astray, owner)
  BY <1>1, <1>2 DEF GoesTo
<1>4. end = Now
  BY <1>3, Stayed
<1>5. <<>> \in Seq(StepType)
  OBVIOUS
<1>6. Now \in State
  BY <1>3, <1>5, Ends
<1>7. /\ Now.files = files /\ Now.stored = stored /\ Now.manifest = manifest
      /\ Now.docs = docs /\ Now.registry = registry
  BY AtRest DEF Now, IInv
<1> QED
  BY <1>1, <1>4, <1>6, <1>7 DEF GoesTo

\* What an operation that begins has to show of where its steps lead.
LEMMA BeginCourse ==
    ASSUME IInv, CourseInv, NEW ids, NEW trash, NEW ss \in Seq(StepType), Begin(ids, trash, ss),
           NEW X, X = astray' \cup ids, NEW o, o = owner', NEW end,
           Leads(ss, Now, end, X, o), Sound(end, astray', o), end.docs = end.registry,
           expected' = None \/ (end.files = expected'.files /\ end.docs = expected'.docs),
           Reports(ss, end, astray')
    PROVE  CourseInv'
<1>1. /\ docs # Missing /\ job'.steps = ss /\ latest' = 0
      /\ job' = IF ss = <<>> THEN Idle ELSE [ids |-> ids, trash |-> trash, steps |-> ss]
      /\ UNCHANGED <<files, stored, manifest, registry, receipts, docs, made, aside>>
  BY BeginFacts DEF IInv
<1>2. Now' = Now
  <2>1. job.steps = <<>>
    BY BeginFacts DEF IInv
  <2>2. aside = FALSE /\ Unmoved = files
    BY <2>1, AtRest DEF IInv
  <2>3. Unmoved' = files
    BY <1>1, <2>2 DEF Unmoved
  <2> QED
    BY <1>1, <2>2, <2>3 DEF Now
<1>3. ReceiptInv'
  BY <1>1 DEF CourseInv, ReceiptInv, Reports
<1>4. Leads(ss, Now, end, astray' \cup job'.ids, o)
  <2>1. CASE ss = <<>>
    <3>1. job'.ids = {}
      BY <1>1, <2>1 DEF Idle
    <3>2. end = Now /\ Now \in State
      BY <2>1, Stayed, Ends
    <3>3. Leads(<<>>, Now, Now, astray', o)
      BY <3>2, Stay
    <3>4. astray' \cup job'.ids = astray'
      BY <3>1
    <3> QED
      BY <2>1, <3>2, <3>3, <3>4
  <2>2. CASE ss # <<>>
    <3>1. job'.ids = ids
      BY <1>1, <2>2
    <3>2. astray' \cup job'.ids = X
      BY <3>1
    <3> QED
      BY <3>2
  <2> QED
    BY <2>1, <2>2
<1>5. Leads(job.steps, Now, end, astray \cup job.ids, owner)'
  BY <1>1, <1>2, <1>4
<1>6. GoesTo(end)'
  BY <1>1, <1>5 DEF GoesTo, Reports
<1> QED
  BY <1>3, <1>6 DEF CourseInv

\* The next state, of what the steps read and change.
LEMMA NowNext ==
    ASSUME IInv, Step, NEW s, s = job.steps[1]
    PROVE  Now' = Effect(s, Now)
<1>0. TypeInv /\ s \in StepType
  BY StepFacts DEF IInv
<1>1. s[1] \in {"move", "store", "fetch", "write", "drop", "unlist", "list", "cut", "keep",
                "receipt", "undone"}
  BY <1>0, StepParts
<1>1a. /\ aside' = FALSE /\ Unmoved' = files'
       /\ s[1] # "write" => Unmoved = files
       /\ s[1] = "write" => Unmoved = files \/ Unmoved = [files EXCEPT ![s[2]] = baks[s[2]]]
  <2>1. aside' = FALSE
    BY DEF Step
  <2>2. s = Head(job.steps)
    BY <1>0 DEF Step, TypeInv
  <2>3. aside \in BOOLEAN /\ (aside => s[1] = "write")
    BY <1>0, <2>2 DEF TypeInv, NextWrites
  <2> QED
    BY <2>1, <2>3 DEF Unmoved
<1>1b. files \in [Paths -> Contents \cup {None}]
  BY <1>0 DEF TypeInv
<1>2. CASE s[1] = "move"
  <2>1. files' = Moved(files, s[2], s[3]) /\ UNCHANGED <<stored, manifest, docs, registry>>
    BY <1>0, <1>2, Effects
  <2> QED
    BY <1>1a, <1>2, <2>1 DEF Effect, Now, WithFiles
<1>3. CASE s[1] = "store"
  <2>1. /\ files' = [files EXCEPT ![s[2]] = None] /\ stored' = Append(stored, files[s[2]])
        /\ UNCHANGED <<manifest, docs, registry>>
    BY <1>0, <1>3, Effects
  <2> QED
    BY <1>1a, <1>3, <2>1 DEF Effect, Now, WithFiles, WithTrash
<1>4. CASE s[1] = "fetch"
  <2>1. files' = [files EXCEPT ![s[3]] = stored[s[2]]] /\ UNCHANGED <<stored, manifest, docs, registry>>
    BY <1>0, <1>4, Effects
  <2> QED
    BY <1>1a, <1>4, <2>1 DEF Effect, Now, WithFiles
<1>5. CASE s[1] = "write"
  <2>1. files' = [files EXCEPT ![s[2]] = s[3]] /\ UNCHANGED <<stored, manifest, docs, registry>>
    BY <1>0, <1>5, Effects
  <2>2. [Unmoved EXCEPT ![s[2]] = s[3]] = [files EXCEPT ![s[2]] = s[3]]
    BY <1>1a, <1>1b, <1>5
  <2> QED
    BY <1>1a, <1>5, <2>1, <2>2 DEF Effect, Now, WithFiles
<1>6. CASE s[1] = "drop"
  <2>1. stored' = [stored EXCEPT ![s[2]] = None] /\ UNCHANGED <<files, manifest, docs, registry>>
    BY <1>0, <1>6, Effects
  <2> QED
    BY <1>1a, <1>6, <2>1 DEF Effect, Now, WithTrash
<1>7. CASE s[1] = "unlist"
  <2>1. manifest' = Missing /\ UNCHANGED <<files, stored, docs, registry>>
    BY <1>0, <1>7, Effects
  <2> QED
    BY <1>1a, <1>7, <2>1 DEF Effect, Now, WithTrash
<1>8. CASE s[1] = "list"
  <2>1. manifest' = s[2] /\ UNCHANGED <<files, stored, docs, registry>>
    BY <1>0, <1>8, Effects
  <2> QED
    BY <1>1a, <1>8, <2>1 DEF Effect, Now, WithTrash
<1>9. CASE s[1] = "cut"
  <2>1. docs' = s[2] /\ registry' = Missing /\ UNCHANGED <<files, stored, manifest>>
    BY <1>0, <1>9, Effects
  <2> QED
    BY <1>1a, <1>9, <2>1 DEF Effect, Now, WithEntries
<1>10. CASE s[1] = "keep"
  <2>1. registry' = s[2] /\ UNCHANGED <<files, stored, manifest, docs>>
    BY <1>0, <1>10, Effects
  <2> QED
    BY <1>1a, <1>10, <2>1 DEF Effect, Now, WithEntries
<1>11. CASE s[1] \in {"receipt", "undone"}
  <2>1. UNCHANGED <<files, stored, manifest, docs, registry>>
    BY <1>0, <1>11, Effects
  <2> QED
    BY <1>1a, <1>11, <2>1 DEF Effect, Now
<1> QED
  BY <1>1, <1>2, <1>3, <1>4, <1>5, <1>6, <1>7, <1>8, <1>9, <1>10, <1>11

\* Setting the old file aside changes nothing that the steps lead to.
LEMMA SetAsideCourse ==
    ASSUME IInv, CourseInv, SetAside
    PROVE  CourseInv'
<1>1. PICK p \in Paths :
         /\ p = job.steps[1][2] /\ job.steps # <<>> /\ aside = FALSE /\ aside' = TRUE
         /\ files' = [files EXCEPT ![p] = None] /\ baks' = [baks EXCEPT ![p] = files[p]]
         /\ UNCHANGED <<stored, manifest, registry, docs, receipts, job, owner, astray, latest,
                        expected>>
  <2>1. aside = FALSE
    BY DEF SetAside, IInv, TypeInv
  <2> QED
    BY <2>1, SetAsideFacts
<1>2. Unmoved' = Unmoved
  <2>1. files \in [Paths -> Contents \cup {None}] /\ baks \in [Paths -> Contents \cup {None}]
    BY DEF IInv, TypeInv
  <2>2. Unmoved = files
    BY <1>1 DEF Unmoved
  <2>3. Unmoved' = [files' EXCEPT ![p] = baks'[p]]
    BY <1>1 DEF Unmoved
  <2>4. baks'[p] = files[p]
    BY <1>1, <2>1
  <2>5. [[files EXCEPT ![p] = None] EXCEPT ![p] = files[p]] = files
    BY <2>1
  <2> QED
    BY <1>1, <2>2, <2>3, <2>4, <2>5
<1>3. Now' = Now
  BY <1>1, <1>2 DEF Now
<1>4. PICK end : GoesTo(end)
  BY DEF CourseInv
<1>5. GoesTo(end)'
  BY <1>1, <1>3, <1>4 DEF GoesTo
<1>6. ReceiptInv'
  BY <1>1, <1>3 DEF CourseInv, ReceiptInv
<1> QED
  BY <1>5, <1>6 DEF CourseInv

\* A step leads on along the way of its operation.
LEMMA StepCourse ==
    ASSUME IInv, CourseInv, Step
    PROVE  CourseInv'
<1>0. TypeInv /\ receipts \in Seq(ReceiptType) /\ Len(receipts) \in Nat
  BY DEF IInv, TypeInv
<1>1. PICK ss, s : ss = job.steps /\ s = ss[1]
  OBVIOUS
<1>2. /\ ss \in Seq(StepType) /\ ss # <<>> /\ Len(ss) \in Nat /\ Len(ss) >= 1
      /\ DOMAIN ss = 1 .. Len(ss) /\ s \in StepType
      /\ job'.steps = Tail(ss) /\ DOMAIN job'.steps = 1 .. Len(ss) - 1
      /\ job'.steps \in Seq(StepType)
      /\ \A i \in 1 .. Len(ss) - 1 : job'.steps[i] = ss[i + 1]
      /\ job'.steps = <<>> => job' = Idle
      /\ docs # Missing
      /\ UNCHANGED <<owner, astray, expected>>
  BY <1>0, <1>1, StepFacts
<1>3. PICK end : GoesTo(end)
  BY DEF CourseInv
<1>4. PICK X : X = astray \cup job.ids
  OBVIOUS
<1>5. /\ Leads(Tail(ss), Effect(s, Now), end, X, owner)
      /\ Tail(ss) = <<>> => end = Effect(s, Now)
  <2>1. Leads(ss, Now, end, X, owner)
    BY <1>1, <1>3, <1>4 DEF GoesTo
  <2> QED
    BY <1>1, <1>2, <2>1, Rest
<1>6. Now' = Effect(s, Now)
  BY <1>1, NowNext
<1>7. Leads(job.steps, Now, end, astray \cup job.ids, owner)'
  <2>1. CASE Tail(ss) = <<>>
    <3>1. job'.ids = {} /\ job'.steps = <<>> /\ end = Now'
      BY <1>2, <1>5, <1>6, <2>1 DEF Idle
    <3>2. Sound(end, astray, owner) /\ end \in State
      BY <1>2, <1>3, <1>5, Ends DEF GoesTo
    <3>3. Leads(<<>>, end, end, astray, owner)
      BY <3>2, Stay
    <3>4. astray' \cup job'.ids = astray /\ owner' = owner
      BY <1>2, <3>1
    <3> QED
      BY <3>1, <3>3, <3>4
  <2>2. CASE Tail(ss) # <<>>
    <3>1. job'.ids = job.ids
      <4>1. job' = IF Len(ss) = 1 THEN Idle ELSE [job EXCEPT !.steps = Tail(ss)]
        BY <1>1 DEF Step
      <4>2. job \in [ids : SUBSET Nat, trash : SUBSET Nat, steps : Seq(StepType)]
        BY <1>0 DEF TypeInv
      <4>3. Len(ss) # 1
        BY <1>2, <2>2, <4>1 DEF Idle
      <4> QED
        BY <4>1, <4>2, <4>3
    <3>2. astray' \cup job'.ids = X /\ owner' = owner /\ job'.steps = Tail(ss)
      BY <1>2, <1>4, <3>1
    <3> QED
      BY <1>5, <1>6, <3>2
  <2> QED
    BY <2>1, <2>2
<1>8. \A i \in 1 .. Len(ss) - 1 : i + 1 \in 1 .. Len(ss)
  BY <1>2
<1>9. GoesTo(end)'
  <2>1. \A i \in DOMAIN job'.steps :
           job'.steps[i][1] = "receipt" => Matches(end, job'.steps[i][2], astray)
    BY <1>1, <1>2, <1>3, <1>8 DEF GoesTo
  <2> QED
    BY <1>2, <1>3, <1>7, <2>1 DEF GoesTo
<1>10. \A i \in DOMAIN job'.steps :
          job'.steps[i][1] = "receipt" => i = Len(job'.steps) /\ Placed(job'.steps[i][2])
  <2>1. Len(job'.steps) = Len(ss) - 1
    BY <1>2
  <2> QED
    BY <1>1, <1>2, <1>8, <2>1 DEF CourseInv, ReceiptInv
<1>11. docs' # Missing
  <2>1. docs' = IF s[1] = "cut" THEN s[2] ELSE docs
    <3>1. s = Head(job.steps)
      BY <1>1, <1>2
    <3> QED
      BY <3>1 DEF Step
  <2>2. s[1] = "cut" => s[2] \in SUBSET Entry
    BY <1>2, StepParts
  <2> QED
    BY <1>2, <2>1, <2>2, NotMissing
<1>12. latest = 0
  BY <1>1, <1>2 DEF CourseInv, ReceiptInv
<1>13. CASE s[1] = "receipt"
  <2>1. receipts' = Append(receipts, s[2]) /\ latest' = Len(receipts) + 1
    <3>1. s = job.steps[1]
      BY <1>1
    <3> QED
      BY <1>0, <1>13, <3>1, Effects
  <2>2. 1 = Len(ss) /\ Placed(s[2]) /\ Matches(end, s[2], astray)
    <3>1. 1 \in DOMAIN ss /\ ss[1][1] = "receipt" /\ s = ss[1]
      BY <1>1, <1>2, <1>13
    <3>2. 1 = Len(ss) /\ Placed(ss[1][2])
      BY <1>1, <3>1 DEF CourseInv, ReceiptInv
    <3>3. Matches(end, ss[1][2], astray)
      BY <1>1, <1>3, <3>1 DEF GoesTo
    <3> QED
      BY <3>1, <3>2, <3>3
  <2>3. Tail(ss) = <<>> /\ job'.steps = <<>>
    BY <1>2, <2>2
  <2>4. end = Now' /\ s[2] \in ReceiptType
    BY <1>2, <1>5, <1>6, <1>13, <2>3, StepParts
  <2>5. /\ receipts'[Len(receipts) + 1] = s[2]
        /\ \A i \in DOMAIN receipts' :
                 receipts'[i] = s[2] \/ (i \in DOMAIN receipts /\ receipts'[i] = receipts[i])
    BY <1>0, <2>1, <2>4
  <2>6. \A i \in DOMAIN receipts' : Placed(receipts'[i])
    BY <2>2, <2>5 DEF CourseInv, ReceiptInv
  <2>7. Matches(Now', receipts'[latest'], astray')
    BY <1>2, <2>1, <2>2, <2>4, <2>5
  <2>8. ReceiptInv'
    BY <1>10, <1>11, <2>3, <2>6, <2>7 DEF ReceiptInv
  <2> QED
    BY <1>9, <2>8 DEF CourseInv
<1>14. CASE s[1] # "receipt"
  <2>1. latest' = 0
    <3>1. s[1] \in {"move", "store", "fetch", "write", "drop", "unlist", "list", "cut", "keep",
                    "receipt", "undone"}
      BY <1>2, StepParts
    <3> QED
      BY <1>0, <1>1, <1>12, <1>14, <3>1, Effects
  <2>2. \A i \in DOMAIN receipts' : Placed(receipts'[i])
    <3>1. CASE s[1] = "undone"
      <4>1. receipts' = [receipts EXCEPT ![s[2]].undone = TRUE]
        BY <1>0, <1>1, <3>1, Effects
      <4>2. ASSUME NEW i \in DOMAIN receipts'
            PROVE  Placed(receipts'[i])
        <5>1. PICK r \in ReceiptType : r = receipts[i] /\ Placed(r) /\ i \in DOMAIN receipts
          BY <1>0, <4>1 DEF CourseInv, ReceiptInv
        <5>2. PICK u : u = receipts'[i]
          OBVIOUS
        <5>3. u = r \/ u = [r EXCEPT !.undone = TRUE]
          BY <1>0, <4>1, <5>1, <5>2
        <5>4. u.op = r.op /\ u.before = r.before /\ u.entry = r.entry
          BY <5>3 DEF ReceiptType
        <5> QED
          BY <5>1, <5>2, <5>4 DEF Placed
      <4> QED
        BY <4>2
    <3>2. CASE s[1] # "undone"
      <4>1. s[1] \in {"move", "store", "fetch", "write", "drop", "unlist", "list", "cut", "keep",
                      "receipt", "undone"}
        BY <1>2, StepParts
      <4>2. receipts' = receipts
        BY <1>0, <1>1, <1>14, <3>2, <4>1, Effects
      <4> QED
        BY <4>2 DEF CourseInv, ReceiptInv
    <3> QED
      BY <3>1, <3>2
  <2>3. ReceiptInv'
    BY <1>10, <1>11, <2>1, <2>2 DEF ReceiptInv
  <2> QED
    BY <1>9, <2>3 DEF CourseInv
<1> QED
  BY <1>13, <1>14

\* What was given out stays what it is when more is.
LEMMA OwnersStay ==
    ASSUME IInv, NEW os \in Seq(Nat), NEW o, o = owner \o os
    PROVE  /\ \A id \in 1 .. Len(owner) : o[id] = owner[id]
           /\ \A i \in 1 .. Len(os) : o[Len(owner) + i] = os[i]
           /\ \A X : Sound(Now, X, owner) => Sound(Now, X, o)
           /\ \A e \in Entry : e \in Now.docs \cup Now.registry => e.id \in 1 .. Len(owner)
<1>0. owner \in Seq(Nat) /\ Len(owner) \in Nat /\ Len(os) \in Nat
  BY DEF IInv, TypeInv
<1>1. /\ \A id \in 1 .. Len(owner) : o[id] = owner[id]
      /\ \A i \in 1 .. Len(os) : o[Len(owner) + i] = os[i]
  BY <1>0
<1>2. \A e \in Entry : e \in docs \cup registry => e.id \in 1 .. Len(owner)
  <2>1. \A e \in Entry : e \notin Missing
    BY LibraryConstants DEF Missing, LibraryConstants
  <2>2. ASSUME NEW e \in Entry, e \in docs \cup registry
        PROVE  e \in Entries
    <3>1. CASE e \in docs
      BY <2>1, <3>1 DEF IInv, DiskInv, Distinct, Open
    <3>2. CASE e \in registry
      BY <2>1, <3>2 DEF IInv, DiskInv, Distinct
    <3> QED
      BY <2>2, <3>1, <3>2
  <2> QED
    BY <1>0, <2>2, EntriesGiven
<1>3. \A t \in Item : t \in manifest => t.entry = None \/ t.entry.id \in 1 .. Len(owner)
  <2>1. \A t \in Item : t \in manifest => t \in Listed
    BY LibraryConstants DEF Missing, LibraryConstants, Listed
  <2> QED
    BY <1>0, <2>1, ListedItems, EntriesGiven
<1>4. /\ Now.files = Unmoved /\ Now.stored = stored /\ Now.manifest = manifest
      /\ Now.docs = docs /\ Now.registry = registry
  BY DEF Now
<1>5. ASSUME NEW X, Sound(Now, X, owner)
      PROVE  Sound(Now, X, o)
  <2>1. RightAll(Unmoved, docs \cup registry, X, owner)
    BY <1>4, <1>5 DEF Sound
  <2>2. RightAll(Unmoved, docs \cup registry, X, o)
    BY <1>1, <1>2, <2>1 DEF RightAll, Right
  <2>3. HeldAll(stored, manifest, X, owner)
    BY <1>4, <1>5 DEF Sound
  <2>4. HeldAll(stored, manifest, X, o)
    BY <1>1, <1>3, <2>3 DEF HeldAll, Held
  <2> QED
    BY <1>4, <2>2, <2>4 DEF Sound
<1> QED
  BY <1>1, <1>2, <1>4, <1>5

\* Where an operation begins.
LEMMA Beginning ==
    ASSUME IInv, CourseInv, NEW ids, NEW trash, NEW ss, Begin(ids, trash, ss),
           NEW os \in Seq(Nat), NEW o, o = owner \o os, NEW A, astray \subseteq A, NEW X, A \subseteq X
    PROVE  /\ Now \in State /\ Sound(Now, A, o) /\ Sound(Now, X, o)
           /\ Now.files = files /\ Now.stored = stored /\ Now.manifest = manifest
           /\ Now.docs = docs /\ Now.registry = docs
           /\ docs \in SUBSET Entry /\ docs # Missing /\ job.steps = <<>>
           /\ files \in [Paths -> Contents \cup {None}]
           /\ RightAll(files, docs, astray, o)
           /\ \A e \in docs : e \in Entry /\ e.path \in Paths /\ e.id \in 1 .. Len(owner)
<1>1. docs # Missing /\ docs \in SUBSET Entry /\ job.steps = <<>>
  BY BeginFacts DEF IInv
<1>2. /\ Now \in State /\ Sound(Now, astray, owner) /\ docs = registry
      /\ Now.files = files /\ Now.stored = stored /\ Now.manifest = manifest
      /\ Now.docs = docs /\ Now.registry = registry
  BY <1>1, QuietNow
<1>3. Sound(Now, astray, o)
  BY <1>2, OwnersStay
<1>4. Sound(Now, A, o) /\ Sound(Now, X, o)
  BY <1>3, SoundMore
<1>5. RightAll(files, docs, astray, o)
  BY <1>2, <1>3 DEF Sound, RightAll
<1>6. \A e \in docs : e \in Entry /\ e.path \in Paths /\ e.id \in 1 .. Len(owner)
  BY <1>1, OpenEntries
<1>7. files \in [Paths -> Contents \cup {None}]
  BY DEF IInv, TypeInv
<1> QED
  BY <1>1, <1>2, <1>4, <1>5, <1>6, <1>7

\* A crash leaves what the first of the remaining steps finds, and a start reads that.
LEMMA RestartCourse ==
    ASSUME IInv, CourseInv, Crash \/ OpenWorkspace \/ CreateWorkspace
    PROVE  CourseInv'
<1>0. /\ TypeInv /\ job \in [ids : SUBSET Nat, trash : SUBSET Nat, steps : Seq(StepType)]
  BY DEF IInv, TypeInv
<1>1. PICK end : GoesTo(end)
  BY DEF CourseInv
<1>2. Now \in State /\ Sound(Now, astray \cup job.ids, owner) /\ Sound(end, astray, owner)
  BY <1>0, <1>1, Ends DEF GoesTo
<1>3. /\ Now.files = Unmoved /\ Now.stored = stored /\ Now.manifest = manifest
      /\ Now.docs = docs /\ Now.registry = registry
  BY DEF Now
<1>4. <<>> \in Seq(StepType) /\ DOMAIN << >> = {}
  OBVIOUS
<1>5. CASE Crash
  <2>1. /\ docs # Missing /\ job' = Idle /\ docs' = Missing
        /\ astray' = astray \cup job.ids \cup Displaced
        /\ aside' = FALSE /\ latest' = 0 /\ expected' = None
        /\ UNCHANGED <<files, stored, manifest, registry, receipts, owner>>
    BY <1>5 DEF Crash, disk
  <2>2. job'.steps = <<>> /\ job'.ids = {}
    BY <2>1 DEF Idle
  <2>3. PICK st : st = WithFiles(Now, files)
    OBVIOUS
  <2>3a. Now' = WithEntries(st, Missing, registry)
    <3>1. Unmoved' = files
      BY <2>1 DEF Unmoved
    <3>2. st.files = files /\ st.stored = stored /\ st.manifest = manifest
      BY <1>3, <2>3 DEF WithFiles
    <3> QED
      BY <2>1, <3>1, <3>2 DEF Now, WithEntries
  <2>3b. RightAll(files, registry, astray', owner)
    <3> SUFFICES ASSUME NEW e \in Entry, e \in registry, e.id \notin astray'
                 PROVE  Right(files, e, owner)
      BY DEF RightAll
    <3>1. Right(Unmoved, e, owner) /\ e.path \in Paths
      BY <1>2, <1>3, <2>1 DEF Sound, RightAll, Entry
    <3>2. CASE aside = FALSE
      BY <3>1, <3>2 DEF Unmoved
    <3>3. CASE aside = TRUE
      <4>1. PICK p : p = job.steps[1][2] /\ p = Head(job.steps)[2]
        BY <1>0, <3>3 DEF TypeInv, NextWrites
      <4>2. Unmoved = [files EXCEPT ![p] = baks[p]]
        BY <3>3, <4>1 DEF Unmoved
      <4>3. files \in [Paths -> Contents \cup {None}]
        BY <1>0 DEF TypeInv
      <4>4. e.path = p => baks[p] = None
        BY <2>1, <3>3, <4>1 DEF Displaced, At
      <4>5. e.path # p
        BY <3>1, <4>2, <4>3, <4>4 DEF Right
      <4>6. Unmoved[e.path] = files[e.path]
        BY <3>1, <4>2, <4>3, <4>5
      <4> QED
        BY <3>1, <4>6 DEF Right
    <3> QED
      BY <1>0, <3>2, <3>3 DEF TypeInv
  <2>4. Now' \in State /\ Sound(Now', astray', owner')
    <3>1. registry \in (SUBSET Entry) \cup {Missing}
      BY <1>2, <1>3, StateParts
    <3>2. RightAll(files, Missing \cup registry, astray', owner)
      BY <1>2, <2>3b, StateParts DEF RightAll
    <3>3. HeldAll(stored, manifest, astray', owner) /\ owner' = owner
      <4>1. HeldAll(stored, manifest, astray \cup job.ids, owner)
        BY <1>2, <1>3 DEF Sound
      <4> QED
        BY <2>1, <4>1 DEF HeldAll, Held
    <3>3a. files \in [Paths -> Contents \cup {None}]
      BY <1>0 DEF TypeInv
    <3>4. Missing \in (SUBSET Entry) \cup {Missing}
      OBVIOUS
    <3>5. PICK X : X = astray'
      OBVIOUS
    <3>6. PICK n : n = WithEntries(st, Missing, registry)
      OBVIOUS
    <3>6a. /\ n.files = files /\ n.stored = stored /\ n.manifest = manifest
           /\ n.docs = Missing /\ n.registry = registry
      BY <1>3, <2>3, <3>6 DEF WithFiles, WithEntries
    <3>7. n \in State
      <4>1. /\ stored \in Seq(Contents \cup {None}) /\ manifest \in (SUBSET Item) \cup {Missing}
        BY <1>2, <1>3, StateParts
      <4>2. n = [files |-> files, stored |-> stored, manifest |-> manifest, docs |-> Missing,
                 registry |-> registry]
        BY <1>3, <2>3, <3>6 DEF WithFiles, WithEntries
      <4> QED
        BY <3>1, <3>3a, <3>4, <4>1, <4>2 DEF State
    <3>8. Sound(n, X, owner)
      BY <3>2, <3>3, <3>5, <3>6a DEF Sound
    <3> QED
      BY <2>3a, <3>3, <3>5, <3>6, <3>7, <3>8
  <2>5. Leads(<<>>, Now', Now', astray', owner')
    <3>1. PICK n, X, o : n = Now' /\ X = astray' /\ o = owner'
      OBVIOUS
    <3>2. Leads(<<>>, n, n, X, o)
      BY <2>4, <3>1, Stay
    <3> QED
      BY <3>1, <3>2
  <2>6. astray' \cup job'.ids = astray'
    BY <2>2
  <2>7. PICK n : n = Now'
    OBVIOUS
  <2>8. GoesTo(n)'
    BY <1>4, <2>1, <2>2, <2>4, <2>5, <2>6, <2>7 DEF GoesTo
  <2>9. ReceiptInv'
    BY <1>4, <2>1, <2>2 DEF CourseInv, ReceiptInv
  <2> QED
    BY <2>8, <2>9 DEF CourseInv
<1>6. CASE OpenWorkspace \/ CreateWorkspace
  <2>1. PICK reg : reg = IF OpenWorkspace THEN registry ELSE {}
    OBVIOUS
  <2>2. /\ docs = Missing /\ docs' = reg /\ registry' = reg
        /\ reg = {} \/ (reg = registry /\ registry # Missing)
        /\ UNCHANGED <<files, stored, manifest, receipts, job, owner, astray, latest, expected>>
        /\ aside' = aside
    BY <1>6, <2>1 DEF OpenWorkspace, CreateWorkspace, disk, ghosts
  <2>3. job = Idle /\ job'.steps = <<>> /\ job'.ids = {} /\ job.ids = {}
    BY <1>0, <2>2 DEF TypeInv, Idle
  <2>4. expected' = None /\ latest' = 0
    BY <2>2 DEF CourseInv, ReceiptInv
  <2>5. reg \in SUBSET Entry /\ reg # Missing
    <3>1. registry \in (SUBSET Entry) \cup {Missing}
      BY <1>2, <1>3, StateParts
    <3> QED
      BY <2>2, <3>1, NotMissing
  <2>5a. Unmoved = files /\ Unmoved' = files
    <3>1. aside = FALSE /\ Unmoved = files
      BY <1>0, <2>3, AtRest DEF Idle
    <3> QED
      BY <2>2, <3>1 DEF Unmoved
  <2>6. Now' = WithEntries(Now, reg, reg)
    BY <1>3, <2>2, <2>5a DEF Now, WithEntries
  <2>7. Now' \in State /\ Sound(Now', astray, owner)
    <3>1. RightAll(files, reg \cup reg, astray, owner)
      BY <1>2, <1>3, <2>2, <2>3, <2>5a DEF Sound, RightAll
    <3>2. Sound(Now, astray, owner)
      <4>1. astray \cup job.ids = astray
        BY <2>3
      <4> QED
        BY <1>2, <4>1
    <3>3. reg \in (SUBSET Entry) \cup {Missing}
      BY <2>5
    <3>4. PICK n : n = WithEntries(Now, reg, reg)
      OBVIOUS
    <3>5. n \in State /\ Sound(n, astray, owner)
      BY <1>2, <1>3, <2>5a, <3>1, <3>2, <3>3, <3>4, SoundEntries
    <3> QED
      BY <2>6, <3>4, <3>5
  <2>8. PICK n : n = Now'
    OBVIOUS
  <2>9. Leads(<<>>, n, n, astray, owner)
    BY <2>7, <2>8, Stay
  <2>10. astray' \cup job'.ids = astray /\ owner' = owner /\ astray' = astray
    BY <2>2, <2>3
  <2>11. Now'.docs = Now'.registry
    BY <2>2 DEF Now
  <2>12. GoesTo(n)'
    BY <1>4, <2>3, <2>4, <2>7, <2>8, <2>9, <2>10, <2>11 DEF GoesTo
  <2>13. ReceiptInv'
    BY <1>4, <2>2, <2>3, <2>4, <2>5 DEF CourseInv, ReceiptInv
  <2> QED
    BY <2>12, <2>13 DEF CourseInv
<1> QED
  BY <1>5, <1>6

\* A reference added changes no document but what it says.
LEMMA AddReferenceCourse ==
    ASSUME IInv, CourseInv, NEW p \in Paths, NEW q \in Paths, NEW direct \in BOOLEAN,
           AddReference(p, q, direct)
    PROVE  CourseInv'
<1>0. /\ job = Idle /\ docs # Missing /\ files[p] # None
      /\ files' = [files EXCEPT ![p] = [files[p] EXCEPT !.ref = q, !.direct = direct]]
      /\ latest' = 0 /\ expected' = None /\ aside' = aside
      /\ UNCHANGED <<stored, manifest, registry, receipts, docs, job, owner, astray>>
  BY DEF AddReference, IInv, TypeInv
<1>1. job.steps = <<>> /\ job'.steps = <<>> /\ job'.ids = {}
  BY <1>0 DEF Idle
<1>2. /\ Now \in State /\ Sound(Now, astray, owner) /\ docs = registry
      /\ Now.files = files /\ Now.stored = stored /\ Now.manifest = manifest
      /\ Now.docs = docs /\ Now.registry = registry
  BY <1>0, <1>1, QuietNow
<1>3. PICK c : c = [files[p] EXCEPT !.ref = q, !.direct = direct]
  OBVIOUS
<1>4. c \in Contents /\ c.what = files[p].what
  <2>1. files[p] \in Contents
    BY <1>0 DEF IInv, TypeInv
  <2> QED
    BY <1>3, <2>1 DEF Contents
<1>5. PICK fs : fs = [files EXCEPT ![p] = c]
  OBVIOUS
<1>6. PICK n : n = WithFiles(Now, fs)
  OBVIOUS
<1>7. n \in State /\ Sound(n, astray, owner)
  <2>1. Same(Now, p, c, astray, owner)
    BY <1>2, <1>4 DEF Same, Right
  <2>2. fs = [Now.files EXCEPT ![p] = c]
    BY <1>2, <1>5
  <2> QED
    BY <1>2, <1>4, <1>6, <2>1, <2>2, WriteLeads
<1>8. Now' = n
  <2>1. Unmoved' = files'
    <3>1. aside = FALSE
      BY <1>1, AtRest DEF IInv
    <3> QED
      BY <1>0, <3>1 DEF Unmoved
  <2> QED
    BY <1>0, <1>2, <1>3, <1>5, <1>6, <2>1 DEF Now, WithFiles
<1>9. Leads(<<>>, n, n, astray, owner)
  BY <1>7, Stay
<1>10. astray' \cup job'.ids = astray /\ owner' = owner /\ astray' = astray
  BY <1>0, <1>1
<1>11. Now'.docs = Now'.registry
  BY <1>0, <1>2 DEF Now
<1>12. <<>> \in Seq(StepType) /\ DOMAIN << >> = {}
  OBVIOUS
<1>13. GoesTo(n)'
  BY <1>0, <1>1, <1>7, <1>8, <1>9, <1>10, <1>11, <1>12 DEF GoesTo
<1>14. ReceiptInv'
  BY <1>0, <1>1, <1>12 DEF CourseInv, ReceiptInv
<1> QED
  BY <1>13, <1>14 DEF CourseInv

\* Steps without a receipt.
LEMMA SilentSteps ==
    /\ Silent(<<>>)
    /\ \A s \in StepType : s[1] # "receipt" => Silent(<<s>>)
    /\ \A ds \in SUBSET Entry : Silent(SaveRegistry(ds))
    /\ \A m \in SUBSET Item : Silent(SaveManifest(m))
<1>1. Silent(<<>>)
  BY DEF Silent
<1>2. \A s \in StepType : s[1] # "receipt" => Silent(<<s>>)
  BY DEF Silent
<1>3. \A ds \in SUBSET Entry : Silent(SaveRegistry(ds))
  BY DEF Silent, SaveRegistry
<1>4. \A m \in SUBSET Item : Silent(SaveManifest(m))
  BY DEF Silent, SaveManifest
<1> QED
  BY <1>1, <1>2, <1>3, <1>4

\* One after the other.
LEMMA SilentBoth ==
    ASSUME NEW a \in Seq(StepType), NEW b \in Seq(StepType), Silent(a), Silent(b)
    PROVE  Silent(a \o b)
<1> USE DEF Silent
<1>1. PICK ss : ss = a \o b
  OBVIOUS
<1>2. /\ DOMAIN ss = 1 .. Len(a) + Len(b) /\ Len(a) \in Nat /\ Len(b) \in Nat
      /\ \A i \in 1 .. Len(a) + Len(b) : ss[i] = IF i <= Len(a) THEN a[i] ELSE b[i - Len(a)]
      /\ DOMAIN a = 1 .. Len(a) /\ DOMAIN b = 1 .. Len(b)
  BY <1>1, Concatenated
<1>3. ASSUME NEW i \in DOMAIN ss
      PROVE  ss[i][1] # "receipt"
  <2>1. CASE i <= Len(a)
    BY <1>2, <2>1
  <2>2. CASE ~(i <= Len(a))
    <3>1. i - Len(a) \in 1 .. Len(b) /\ ss[i] = b[i - Len(a)]
      BY <1>2, <2>2
    <3> QED
      BY <1>2, <3>1
  <2> QED
    BY <2>1, <2>2
<1> QED
  BY <1>1, <1>3

\* A receipt only after everything else.
LEMMA ReportLast ==
    ASSUME NEW a \in Seq(StepType), Silent(a), NEW r \in ReceiptType, NEW end, NEW A,
           Placed(r), Matches(end, r, A), NEW ss, ss = a \o << <<"receipt", r>> >>
    PROVE  Reports(ss, end, A)
<1>1. PICK s \in StepType : s = <<"receipt", r>> /\ s[2] = r
  BY StepTypes
<1>2. /\ ss \in Seq(StepType) /\ Len(ss) = Len(a) + 1 /\ Len(a) \in Nat
      /\ ss[Len(a) + 1] = s /\ \A i \in 1 .. Len(a) : ss[i] = a[i]
  BY <1>1, After
<1>3. ASSUME NEW i \in DOMAIN ss, ss[i][1] = "receipt"
      PROVE  i = Len(ss) /\ Placed(ss[i][2]) /\ Matches(end, ss[i][2], A)
  <2>1. i \in 1 .. Len(a) \/ i = Len(a) + 1
    BY <1>2
  <2>2. i \notin 1 .. Len(a)
    BY <1>2, <1>3 DEF Silent
  <2> QED
    BY <1>1, <1>2, <2>1, <2>2
<1> QED
  BY <1>3 DEF Reports

\* Steps that write no receipt report nothing wrong.
LEMMA ReportNone ==
    ASSUME NEW ss, Silent(ss)
    PROVE  \A end, A : Reports(ss, end, A)
<1> SUFFICES ASSUME NEW end, NEW A
             PROVE  Reports(ss, end, A)
  OBVIOUS
<1>1. \A i \in DOMAIN ss : ss[i][1] # "receipt"
  BY DEF Silent
<1> QED
  BY <1>1 DEF Reports

\* The registry saved with one entry more.
LEMMA LinkCourse ==
    ASSUME IInv, CourseInv, NEW x \in Paths, LinkExternal(x)
    PROVE  CourseInv'
<1>0. /\ TypeInv /\ DiskInv /\ owner \in Seq(Nat) /\ Len(owner) \in Nat
      /\ files \in [Paths -> Contents \cup {None}] /\ docs # Missing
  BY DEF IInv, TypeInv, LinkExternal
<1>1. PICK e : e = [id |-> NextId, path |-> x, kind |-> "linked"]
  OBVIOUS
<1>2. e \in Entry /\ e.id = Len(owner) + 1 /\ e.path = x
  BY <1>0, <1>1 DEF Entry, NextId
<1>3. PICK w : w = files[x].what
  OBVIOUS
<1>4. w \in Nat /\ files[x] # None
  BY <1>0, <1>3 DEF LinkExternal, Contents
<1>5. PICK os \in Seq(Nat) : os = <<w>>
  <2>1. <<w>> \in Seq(Nat)
    BY <1>4
  <2> QED
    BY <2>1
<1>6. owner' = owner \o os /\ Len(os) = 1 /\ os[1] = w
  BY <1>0, <1>3, <1>5 DEF LinkExternal
<1>7. PICK ds : ds = docs \cup {e}
  OBVIOUS
<1>8. PICK ss : ss = SaveRegistry(ds)
  OBVIOUS
<1>9. Begin({}, {}, ss)
  BY <1>1, <1>7, <1>8 DEF LinkExternal
<1>10. astray' = astray /\ expected' = None
  BY DEF LinkExternal, Harmless
<1>11. PICK o : o = owner'
  OBVIOUS
<1>12. PICK A : A = astray
  OBVIOUS
<1>13. /\ Now \in State /\ Sound(Now, A, o) /\ Now.files = files /\ docs \in SUBSET Entry
       /\ RightAll(files, docs, A, o)
  <2>1. astray \subseteq A /\ A \subseteq A /\ o = owner \o os
    BY <1>6, <1>11, <1>12
  <2> QED
    BY <1>9, <1>12, <2>1, Beginning
<1>14. ds \in SUBSET Entry /\ RightAll(files, ds, A, o)
  <2>1. o[e.id] = w
    <3>1. 1 \in 1 .. Len(os)
      BY <1>6
    <3>2. \A i \in 1 .. Len(os) : o[Len(owner) + i] = os[i]
      BY <1>6, <1>11, OwnersStay
    <3>3. o[Len(owner) + 1] = os[1]
      BY <3>1, <3>2
    <3> QED
      BY <1>2, <1>6, <3>3
  <2>2. Right(files, e, o)
    BY <1>2, <1>3, <1>4, <2>1 DEF Right
  <2> QED
    BY <1>2, <1>7, <1>13, <2>2 DEF RightAll
<1>15. PICK end : end = WithEntries(Now, ds, ds)
  OBVIOUS
<1>16. Sound(end, A, o) /\ ss \in Seq(StepType) /\ Leads(ss, Now, end, A, o)
  BY <1>8, <1>13, <1>14, <1>15, SaveRegistryLeads
<1>17. end.docs = end.registry
  BY <1>15 DEF WithEntries
<1>18. Reports(ss, end, astray')
  BY <1>8, <1>14, SilentSteps, ReportNone
<1>19. astray' = A /\ A = astray' \cup {}
  BY <1>10, <1>12
<1>20. Sound(end, astray', o)
  BY <1>16, <1>19
<1> QED
  BY <1>9, <1>10, <1>11, <1>16, <1>17, <1>18, <1>19, <1>20, BeginCourse

\* Silent steps before a report.
LEMMA ReportAfter ==
    ASSUME NEW a \in Seq(StepType), NEW b \in Seq(StepType), NEW end, NEW A,
           Silent(a), Reports(b, end, A), NEW ss, ss = a \o b
    PROVE  Reports(ss, end, A)
<1>1. /\ DOMAIN ss = 1 .. Len(a) + Len(b) /\ Len(a) \in Nat /\ Len(b) \in Nat
      /\ Len(ss) = Len(a) + Len(b)
      /\ \A i \in 1 .. Len(a) + Len(b) : ss[i] = IF i <= Len(a) THEN a[i] ELSE b[i - Len(a)]
      /\ DOMAIN a = 1 .. Len(a) /\ DOMAIN b = 1 .. Len(b)
  BY Concatenated
<1>2. ASSUME NEW i \in DOMAIN ss, ss[i][1] = "receipt"
      PROVE  i = Len(ss) /\ Placed(ss[i][2]) /\ Matches(end, ss[i][2], A)
  <2>1. ~(i <= Len(a))
    BY <1>1, <1>2 DEF Silent
  <2>2. PICK j \in DOMAIN b : j = i - Len(a) /\ ss[i] = b[j]
    BY <1>1, <2>1
  <2>3. j = Len(b) /\ Placed(b[j][2]) /\ Matches(end, b[j][2], A)
    BY <1>2, <2>2 DEF Reports
  <2>4. i = Len(ss)
    BY <1>1, <2>2, <2>3
  <2> QED
    BY <2>2, <2>3, <2>4
<1> QED
  BY <1>2 DEF Reports

\* The registry saved, and a receipt.
Saves(ds, r, b) == b = SaveRegistry(ds) \o << <<"receipt", r>> >>

\* The registry saved and the receipt written, from a state that the receipt tells of.
LEMMA SavedAndReported ==
    ASSUME NEW st \in State, NEW X, NEW o, Sound(st, X, o), NEW ds \in SUBSET Entry,
           RightAll(st.files, ds, X, o), NEW r \in ReceiptType, Placed(r),
           NEW end, end = WithEntries(st, ds, ds), NEW A, Matches(end, r, A),
           NEW b, Saves(ds, r, b)
    PROVE  /\ end \in State /\ Sound(end, X, o) /\ b \in Seq(StepType)
           /\ Leads(b, st, end, X, o) /\ Reports(b, end, A)
           /\ end.docs = ds /\ end.registry = ds /\ end.files = st.files
<1>1. PICK sr \in Seq(StepType) : /\ sr = SaveRegistry(ds) /\ end \in State /\ Sound(end, X, o)
                                  /\ Leads(sr, st, end, X, o)
  BY SaveRegistryLeads
<1>2. PICK s \in StepType : s = <<"receipt", r>>
  BY StepTypes
<1>3. <<s>> \in Seq(StepType) /\ Leads(<<s>>, end, end, X, o)
  <2>1. s[1] \in {"receipt", "undone"}
    BY <1>2
  <2> QED
    BY <1>1, <2>1, NoteLeads
<1>4. PICK l \in Seq(StepType) : l = <<s>>
  BY <1>3
<1>5. Leads(sr \o l, st, end, X, o)
  BY <1>1, <1>3, <1>4, Then
<1>6. Silent(sr)
  BY <1>1, SilentSteps
<1>7. b = sr \o << <<"receipt", r>> >> /\ b = sr \o l
  BY <1>1, <1>2, <1>4 DEF Saves
<1>8. b \in Seq(StepType)
  BY <1>1, <1>2, <1>7, After
<1>9. Reports(b, end, A)
  BY <1>6, <1>7, ReportLast
<1>10. end.docs = ds /\ end.registry = ds /\ end.files = st.files
  BY DEF WithEntries
<1> QED
  BY <1>1, <1>5, <1>7, <1>8, <1>9, <1>10

\* A reference is removed.
LEMMA RemoveCourse ==
    ASSUME IInv, CourseInv, NEW e \in Open, RemoveReference(e)
    PROVE  CourseInv'
<1>0. /\ TypeInv /\ owner \in Seq(Nat) /\ docs # Missing
  BY DEF IInv, TypeInv, Open
<1>1. e \in Entry /\ e.id \in Nat /\ e.path \in Paths /\ e \in docs
      /\ \A d \in docs : d.id = e.id => d = e
  BY <1>0, OpenEntries DEF Distinct
<1>2. PICK r : r = Receipt("remove", e.id, e.path, None, e, <<>>)
  OBVIOUS
<1>3. /\ r \in ReceiptType /\ r.op = "remove" /\ r.id = e.id /\ r.before = e.path
      /\ r.entry = e /\ r.then.files = files /\ r.then.docs = docs
  <2>1. /\ <<>> \in Seq(Backup) /\ e \in Entry \cup {None} /\ e.path \in Paths \cup {None}
        /\ None \in Paths \cup {None}
        /\ "remove" \in {"create", "import", "duplicate", "rename", "remove"}
    BY <1>1
  <2>2. r \in ReceiptType
    BY <1>0, <1>1, <1>2, <2>1 DEF Receipt, ReceiptType, TypeInv
  <2> QED
    BY <1>2, <2>2 DEF Receipt
<1>4. PICK ds : ds = docs \ {e}
  OBVIOUS
<1>5. PICK ss : ss = SaveRegistry(ds) \o << <<"receipt", r>> >>
  OBVIOUS
<1>6. Begin({}, {}, ss) /\ Saves(ds, r, ss)
  BY <1>2, <1>4, <1>5 DEF RemoveReference, Saves
<1>7. owner' = owner \o <<>> /\ <<>> \in Seq(Nat) /\ astray' = astray /\ expected' = None
  BY <1>0 DEF RemoveReference, Harmless
<1>8. PICK o, A : o = owner' /\ A = astray
  OBVIOUS
<1>9. /\ Now \in State /\ Sound(Now, A, o) /\ Now.files = files /\ docs \in SUBSET Entry
      /\ RightAll(files, docs, A, o)
  <2>1. astray \subseteq A /\ A \subseteq A /\ o = owner \o <<>>
    BY <1>7, <1>8
  <2> QED
    BY <1>6, <1>7, <1>8, <2>1, Beginning
<1>10. ds \in SUBSET Entry /\ RightAll(files, ds, A, o)
  BY <1>4, <1>9 DEF RightAll
<1>11. PICK end : end = WithEntries(Now, ds, ds)
  OBVIOUS
<1>12. Matches(end, r, A)
  <2>1. end.files = files /\ end.docs = ds
    BY <1>9, <1>11 DEF WithEntries
  <2>2. RemoveMatches(end, r)
    BY <1>1, <1>3, <1>4, <2>1 DEF RemoveMatches
  <2> QED
    BY <1>3, <2>2 DEF Matches
<1>13. Placed(r)
  BY <1>3 DEF Placed
<1>14. /\ Sound(end, A, o) /\ ss \in Seq(StepType) /\ Leads(ss, Now, end, A, o)
       /\ Reports(ss, end, A) /\ end.docs = end.registry
  <2>1. PICK st : st = Now
    OBVIOUS
  <2>2. /\ st \in State /\ st.files = files /\ Sound(st, A, o) /\ RightAll(st.files, ds, A, o)
        /\ end = WithEntries(st, ds, ds) /\ r \in ReceiptType /\ ds \in SUBSET Entry
    BY <1>3, <1>9, <1>10, <1>11, <2>1
  <2>3. /\ Sound(end, A, o) /\ ss \in Seq(StepType) /\ Leads(ss, st, end, A, o)
        /\ Reports(ss, end, A) /\ end.docs = ds /\ end.registry = ds
    BY <1>6, <1>12, <1>13, <2>2, SavedAndReported
  <2> QED
    BY <2>1, <2>3
<1>15. astray' = A /\ A = astray' \cup {} /\ Sound(end, astray', o) /\ Reports(ss, end, astray')
  BY <1>7, <1>8, <1>14
<1> QED
  BY <1>6, <1>7, <1>8, <1>14, <1>15, BeginCourse

\* The scan adds what it finds.
LEMMA ScanCourse ==
    ASSUME IInv, CourseInv, ScanAndIndex
    PROVE  CourseInv'
<1>0. /\ TypeInv /\ owner \in Seq(Nat) /\ Len(owner) \in Nat
      /\ files \in [Paths -> Contents \cup {None}] /\ docs # Missing
  BY DEF IInv, TypeInv, ScanAndIndex
<1>1. PICK S \in SUBSET Paths : S = {p \in Inside : files[p] # None /\ At(docs, p) = {}}
  BY DEF Paths
<1>2. PICK new : new = SetToSeq(S)
  OBVIOUS
<1>3. new \in Seq(S)
  BY <1>2, FinitePaths, SeqOfSet
<1>4. PICK ws : ws = [i \in DOMAIN new |-> files[new[i]].what]
  OBVIOUS
<1>5. /\ new \in [1 .. Len(new) -> S] /\ Len(new) \in Nat /\ DOMAIN new = 1 .. Len(new)
  BY <1>3
<1>6. ws \in Seq(Nat) /\ Len(ws) = Len(new)
  <2>1. \A p \in S : files[p].what \in Nat
    BY <1>0, <1>1 DEF Contents
  <2>2. ws \in [1 .. Len(new) -> Nat]
    BY <1>4, <1>5, <2>1
  <2> QED
    BY <1>5, <2>2
<1>7. PICK N : N = {[id |-> Len(owner) + i, path |-> new[i], kind |-> "managed"] : i \in DOMAIN new}
  OBVIOUS
<1>8. PICK ds : ds = docs \cup N
  OBVIOUS
<1>9. PICK ss : ss = SaveRegistry(ds)
  OBVIOUS
<1>10. Begin({}, {}, ss) /\ owner' = owner \o ws
  BY <1>1, <1>2, <1>4, <1>7, <1>8, <1>9 DEF ScanAndIndex
<1>11. astray' = astray /\ expected' = None
  BY DEF ScanAndIndex, Harmless
<1>12. PICK o, A : o = owner' /\ A = astray
  OBVIOUS
<1>13. /\ Now \in State /\ Sound(Now, A, o) /\ Now.files = files /\ docs \in SUBSET Entry
       /\ RightAll(files, docs, A, o)
  <2>1. astray \subseteq A /\ A \subseteq A /\ o = owner \o ws
    BY <1>10, <1>12
  <2> QED
    BY <1>6, <1>10, <1>12, <2>1, Beginning
<1>14. \A i \in 1 .. Len(ws) : o[Len(owner) + i] = ws[i]
  BY <1>6, <1>10, <1>12, OwnersStay
<1>15. \A e \in N : e \in Entry /\ Right(files, e, o)
  <2> SUFFICES ASSUME NEW i \in DOMAIN new,
                      NEW e, e = [id |-> Len(owner) + i, path |-> new[i], kind |-> "managed"]
               PROVE  e \in Entry /\ Right(files, e, o)
    BY <1>7
  <2>1. new[i] \in S /\ new[i] \in Paths /\ i \in 1 .. Len(ws)
    BY <1>5, <1>6
  <2>2. e \in Entry
    BY <1>0, <1>5, <2>1 DEF Entry
  <2>3. o[Len(owner) + i] = files[new[i]].what
    BY <1>4, <1>14, <2>1
  <2> QED
    BY <1>1, <2>1, <2>2, <2>3 DEF Right
<1>16. ds \in SUBSET Entry /\ RightAll(files, ds, A, o)
  <2>1. ds \in SUBSET Entry
    BY <1>8, <1>13, <1>15
  <2> QED
    BY <1>8, <1>13, <1>15, <2>1 DEF RightAll
<1>17. PICK end : end = WithEntries(Now, ds, ds)
  OBVIOUS
<1>18. Sound(end, A, o) /\ ss \in Seq(StepType) /\ Leads(ss, Now, end, A, o)
  BY <1>9, <1>13, <1>16, <1>17, SaveRegistryLeads
<1>19. end.docs = end.registry
  BY <1>17 DEF WithEntries
<1>20. Reports(ss, end, astray')
  BY <1>9, <1>16, SilentSteps, ReportNone
<1>21. astray' = A /\ A = astray' \cup {} /\ Sound(end, astray', o)
  BY <1>11, <1>12, <1>18
<1> QED
  BY <1>10, <1>11, <1>12, <1>18, <1>19, <1>20, <1>21, BeginCourse

\* New bytes where no file is, and an entry for them unless the path has one.
LEMMA AddsCourse ==
    ASSUME IInv, CourseInv, NEW p \in Paths, files[p] = None,
           NEW kind \in {"managed", "linked"}, NEW c \in Contents,
           NEW op \in {"create", "import", "duplicate"},
           NEW ss, ss = Adds(p, kind, c, op), Begin({}, {}, ss),
           owner' = Append(owner, c.what), astray' = astray, expected' = None
    PROVE  CourseInv'
<1>0. /\ TypeInv /\ owner \in Seq(Nat) /\ Len(owner) \in Nat /\ docs # Missing
      /\ c # None
  BY LibraryConstants, BeginFacts DEF IInv, TypeInv, LibraryConstants
<1>1. PICK os \in Seq(Nat) : os = <<c.what>>
  <2>1. <<c.what>> \in Seq(Nat)
    BY DEF Contents
  <2> QED
    BY <2>1
<1>2. owner' = owner \o os /\ Len(os) = 1 /\ os[1] = c.what
  BY <1>0, <1>1
<1>3. PICK e : e = [id |-> NextId, path |-> p, kind |-> kind]
  OBVIOUS
<1>4. e \in Entry /\ e.id = Len(owner) + 1 /\ e.path = p
  BY <1>0, <1>3 DEF Entry, NextId
<1>5. PICK r : r = Receipt(op, NextId, None, p, None, <<>>)
  OBVIOUS
<1>6. /\ r \in ReceiptType /\ r.op = op /\ r.id = e.id /\ r.after = p
      /\ r.then.files = files /\ r.then.docs = docs
  BY <1>0, <1>4, <1>5 DEF Receipt, ReceiptType, NextId, TypeInv
<1>7. PICK o, A : o = owner' /\ A = astray
  OBVIOUS
<1>8a. PICK st : st = Now
  OBVIOUS
<1>8. /\ st \in State /\ Sound(st, A, o) /\ st.files = files /\ st.docs = docs
      /\ st.registry = docs
      /\ docs \in SUBSET Entry /\ \A d \in docs : d.id \in 1 .. Len(owner)
      /\ files \in [Paths -> Contents \cup {None}]
  <2>1. astray \subseteq A /\ A \subseteq A /\ o = owner \o os
    BY <1>2, <1>7
  <2> QED
    BY <1>7, <1>8a, <2>1, Beginning
<1>9. PICK fs : fs = [st.files EXCEPT ![p] = c]
  OBVIOUS
<1>10. PICK mid : mid = WithFiles(st, fs)
  OBVIOUS
<1>11. PICK s \in StepType : s = <<"write", p, c>>
  BY StepTypes
<1>12. PICK w \in Seq(StepType) : w = <<s>> /\ w = << <<"write", p, c>> >>
  <2>1. <<s>> \in Seq(StepType)
    OBVIOUS
  <2> QED
    BY <1>11, <2>1
<1>13. mid \in State /\ Sound(mid, A, o) /\ Leads(w, st, mid, A, o)
  <2>1. Same(st, p, c, A, o)
    BY <1>8 DEF Same, Right
  <2>2. st \in State /\ Sound(st, A, o)
    BY <1>8
  <2> QED
    BY <1>9, <1>10, <1>12, <2>1, <2>2, WriteLeads
<1>14. Silent(w)
  BY <1>11, <1>12, SilentSteps
<1>15. mid.files = fs /\ mid.docs = docs /\ mid.registry = docs
  BY <1>8, <1>10 DEF WithFiles
<1>16. PICK ds : ds = docs \cup {e}
  OBVIOUS
<1>17. ds \in SUBSET Entry
  BY <1>4, <1>8, <1>16
<1>18. \A d \in docs : d.id # e.id
  BY <1>0, <1>4, <1>8
<1>19. RightAll(mid.files, ds, A, o)
  <2>1. RightAll(fs, docs, A, o)
    BY <1>13, <1>15 DEF Sound, RightAll
  <2>2. o[e.id] = c.what
    <3>1. 1 \in 1 .. Len(os)
      BY <1>2
    <3>2. \A i \in 1 .. Len(os) : o[Len(owner) + i] = os[i]
      BY <1>2, <1>7, OwnersStay
    <3>3. o[Len(owner) + 1] = os[1]
      BY <3>1, <3>2
    <3> QED
      BY <1>2, <1>4, <3>3
  <2>3. fs[p] = c
    BY <1>8, <1>9
  <2>4. Right(fs, e, o)
    BY <1>0, <1>4, <2>2, <2>3 DEF Right
  <2> QED
    BY <1>15, <1>16, <2>1, <2>4 DEF RightAll
<1>20. PICK end : end = WithEntries(mid, ds, ds)
  OBVIOUS
<1>21. Matches(end, r, A) /\ Placed(r)
  <2>1. end.files = fs /\ end.docs = ds
    BY <1>15, <1>20 DEF WithEntries
  <2>2. \A x \in Paths : x # p => fs[x] = files[x]
    BY <1>8, <1>9
  <2>3. AddMatches(end, r)
    <3>1. r.then.files[r.after] = None /\ \A x \in Paths : x # r.after => end.files[x] = r.then.files[x]
      BY <1>6, <2>1, <2>2
    <3>2. e.id = r.id /\ end.docs = r.then.docs \cup {e} /\ \A d \in r.then.docs : d.id # r.id
      BY <1>6, <1>16, <1>18, <2>1
    <3> QED
      BY <1>4, <3>1, <3>2 DEF AddMatches
  <2> QED
    BY <1>6, <2>3 DEF Matches, Placed
<1>22a. PICK b : b = SaveRegistry(ds) \o << <<"receipt", r>> >>
  OBVIOUS
<1>22. Saves(ds, r, b)
  BY <1>22a DEF Saves
<1>23. /\ Sound(end, A, o) /\ b \in Seq(StepType) /\ Leads(b, mid, end, A, o)
       /\ Reports(b, end, A) /\ end.docs = ds /\ end.registry = ds
  <2>1. r \in ReceiptType
    BY <1>6
  <2> QED
    BY <1>13, <1>17, <1>19, <1>20, <1>21, <1>22, <2>1, SavedAndReported
<1>24. ss = w \o (IF At(docs, p) # {} THEN <<>> ELSE b)
  BY <1>3, <1>5, <1>12, <1>16, <1>22a DEF Adds
<1>25. astray' = A /\ A = astray' \cup {}
  BY <1>7
<1>26. CASE At(docs, p) # {}
  <2>1. ss = w
    BY <1>24, <1>26
  <2>2. Reports(ss, mid, astray')
    BY <1>14, <2>1, ReportNone
  <2>3. Leads(ss, Now, mid, A, o) /\ Sound(mid, astray', o) /\ mid.docs = mid.registry
    BY <1>8a, <1>13, <1>15, <1>25, <2>1
  <2>4. ss \in Seq(StepType)
    BY <2>1
  <2> QED
    BY <1>7, <1>25, <2>2, <2>3, <2>4, BeginCourse
<1>27. CASE At(docs, p) = {}
  <2>1. ss = w \o b
    BY <1>24, <1>27
  <2>2. Reports(ss, end, A)
    BY <1>14, <1>23, <2>1, ReportAfter
  <2>3. Leads(ss, st, end, A, o)
    BY <1>13, <1>23, <2>1, Then
  <2>4. ss \in Seq(StepType)
    BY <1>23, <2>1
  <2>5. Leads(ss, Now, end, A, o) /\ Sound(end, astray', o) /\ end.docs = end.registry
        /\ Reports(ss, end, astray')
    BY <1>8a, <1>23, <1>25, <2>2, <2>3
  <2> QED
    BY <1>7, <1>25, <2>4, <2>5, BeginCourse
<1> QED
  BY <1>26, <1>27

\* Create, import and duplicate.
LEMMA AddingCourse ==
    ASSUME IInv, CourseInv, NEW e, NEW p \in Paths, NEW x \in Paths,
           \/ CreateManagedDocument(p)
           \/ ImportAsManaged(x, p)
           \/ e \in Open /\ DuplicateDocument(e, p)
    PROVE  CourseInv'
<1>0. /\ TypeInv /\ made \in Nat
      /\ files \in [Paths -> Contents \cup {None}] /\ None \notin Contents
  BY LibraryConstants DEF IInv, TypeInv, LibraryConstants
<1>0a. \A d \in Contents : Copied(d) \in Contents /\ Copied(d).what = made + 1
  BY <1>0 DEF Copied, Contents
<1>1. PICK kind, c, op :
         /\ files[p] = None
         /\ kind \in {"managed", "linked"} /\ c \in Contents /\ c.what = made + 1
         /\ op \in {"create", "import", "duplicate"}
         /\ Begin({}, {}, Adds(p, kind, c, op))
         /\ owner' = Append(owner, made + 1) /\ astray' = astray /\ expected' = None
  <2>1. CASE CreateManagedDocument(p)
    <3>1. PICK d : d = [what |-> made + 1, ref |-> None, direct |-> TRUE]
      OBVIOUS
    <3>2. d \in Contents /\ d.what = made + 1
      BY <1>0, <3>1 DEF Contents
    <3> QED
      BY <2>1, <3>1, <3>2 DEF CreateManagedDocument, Harmless
  <2>2. CASE ImportAsManaged(x, p)
    <3>1. PICK d : d = Copied(files[x])
      OBVIOUS
    <3>2. d \in Contents /\ d.what = made + 1
      BY <1>0, <1>0a, <2>2, <3>1 DEF ImportAsManaged
    <3> QED
      BY <2>2, <3>1, <3>2 DEF ImportAsManaged, Harmless
  <2>3. CASE e \in Open /\ DuplicateDocument(e, p)
    <3>1. docs # Missing /\ e \in Entry
      BY <1>0, <2>3 DEF Open, TypeInv
    <3>2. PICK d : d = Copied(files[e.path])
      OBVIOUS
    <3>3. e.kind \in {"managed", "linked"} /\ d \in Contents /\ d.what = made + 1
      BY <1>0, <1>0a, <2>3, <3>1, <3>2 DEF DuplicateDocument, Entry
    <3> QED
      BY <2>3, <3>1, <3>2, <3>3 DEF DuplicateDocument, Harmless
  <2> QED
    BY <2>1, <2>2, <2>3
<1>2. PICK ss : ss = Adds(p, kind, c, op)
  OBVIOUS
<1>3. Begin({}, {}, ss) /\ owner' = Append(owner, c.what)
  BY <1>1, <1>2
<1> QED
  BY <1>1, <1>2, <1>3, AddsCourse

\* A way through sound states is one when more is astray.
LEMMA LeadsMore ==
    ASSUME NEW ss \in Seq(StepType), NEW st, NEW end, NEW X, NEW Y, X \subseteq Y, NEW o,
           Leads(ss, st, end, X, o)
    PROVE  Leads(ss, st, end, Y, o)
<1>1. PICK f : Course(ss, st, end, X, o, f)
  BY DEF Leads
<1>2. \A s : Sound(s, X, o) => Sound(s, Y, o)
  BY SoundMore
<1>3. Course(ss, st, end, Y, o, f)
  BY <1>1, <1>2 DEF Course
<1> QED
  BY <1>3 DEF Leads

\* Items of the trash, of which some stay listed.
LEMMA HeldListed ==
    ASSUME IInv, NEW td, NEW X, NEW o, HeldAll(td, manifest, X, o), NEW m \in SUBSET Listed
    PROVE  HeldAll(td, m, X, o) /\ m \in SUBSET Item
<1>1. Listed \in SUBSET Item
  BY ListedItems
<1>2. \A t \in Listed : t \in manifest
  BY DEF Listed
<1> QED
  BY <1>1, <1>2 DEF HeldAll

\* A purge takes away files of the trash and their items.
LEMMA PurgeCourse ==
    ASSUME IInv, CourseInv, NEW ts \in SUBSET Listed, Purge(ts)
    PROVE  CourseInv'
<1>0. TypeInv /\ owner \in Seq(Nat) /\ stored \in Seq(Contents \cup {None})
  BY DEF IInv, TypeInv
<1>1. PICK I : I = {t.id : t \in {t \in ts : stored[t.id] # None}}
  OBVIOUS
<1>3. I \subseteq DOMAIN stored /\ I \subseteq Nat
  BY <1>1, ListedItems
<1>4. IsFiniteSet(I)
  <2>1. DOMAIN stored = 1 .. Len(stored) /\ Len(stored) \in Nat
    BY <1>0
  <2>2. IsFiniteSet(1 .. Len(stored))
    BY <2>1, FS_Interval
  <2> QED
    BY <1>3, <2>1, <2>2, FS_Subset
<1>5. PICK s : s = SetToSeq(I)
  OBVIOUS
<1>6. s \in Seq(I)
  BY <1>4, <1>5, SeqOfSet
<1>7. DOMAIN s = 1 .. Len(s) /\ Len(s) \in Nat /\ \A i \in DOMAIN s : s[i] \in I
  BY <1>6
<1>8. PICK pre : pre = [i \in DOMAIN s |-> <<"drop", s[i]>>]
  OBVIOUS
<1>9. /\ pre \in Seq(StepType) /\ DOMAIN pre = DOMAIN s
      /\ \A i \in DOMAIN pre : pre[i][1] = "drop" /\ pre[i][2] = s[i]
  <2>1. \A i \in DOMAIN s : pre[i] \in StepType
    BY <1>3, <1>7, <1>8, StepTypes
  <2>2. pre \in [1 .. Len(s) -> StepType]
    BY <1>7, <1>8, <2>1
  <2> QED
    BY <1>7, <1>8, <2>2
<1>10. PICK m : m = Listed \ ts
  OBVIOUS
<1>11. PICK T : T = {t.id : t \in ts}
  OBVIOUS
<1>12. PICK sm : sm = SaveManifest(m)
  OBVIOUS
<1>13. PICK ss : ss = pre \o sm
  OBVIOUS
<1>14. Begin({}, T, ss)
  <2>1. ss = Drops(ts) \o SaveManifest(Listed \ ts)
    BY <1>1, <1>5, <1>8, <1>10, <1>12, <1>13 DEF Drops
  <2> QED
    BY <1>11, <2>1 DEF Purge
<1>15. owner' = owner \o <<>> /\ <<>> \in Seq(Nat) /\ astray' = astray /\ expected' = None
  BY <1>0 DEF Purge
<1>16. PICK o, A : o = owner' /\ A = astray
  OBVIOUS
<1>17. PICK st : st = Now
  OBVIOUS
<1>18. /\ st \in State /\ Sound(st, A, o) /\ st.stored = stored /\ st.manifest = manifest
       /\ st.docs = docs /\ st.registry = docs
  <2>1. astray \subseteq A /\ A \subseteq A /\ o = owner \o <<>>
    BY <1>15, <1>16
  <2> QED
    BY <1>14, <1>15, <1>16, <1>17, <2>1, Beginning
<1>19. PICK td : td = [t \in DOMAIN st.stored |-> IF \E i \in DOMAIN pre : pre[i][2] = t
                                                  THEN None ELSE st.stored[t]]
  OBVIOUS
<1>20. PICK mid : mid = WithTrash(st, td, st.manifest)
  OBVIOUS
<1>21. mid \in State /\ Sound(mid, A, o) /\ Leads(pre, st, mid, A, o)
  <2>1. Drop(st, pre)
    BY <1>3, <1>7, <1>9, <1>18 DEF Drop
  <2> QED
    BY <1>9, <1>18, <1>19, <1>20, <2>1, DropsLead
<1>22. /\ mid.stored = td /\ mid.manifest = manifest /\ mid.docs = docs /\ mid.registry = docs
  BY <1>18, <1>20 DEF WithTrash
<1>23. HeldAll(mid.stored, m, A, o) /\ m \in SUBSET Item
  <2>1. HeldAll(mid.stored, manifest, A, o) /\ m \in SUBSET Listed
    BY <1>10, <1>21, <1>22 DEF Sound
  <2> QED
    BY <2>1, HeldListed
<1>24. PICK end : end = WithTrash(mid, mid.stored, m)
  OBVIOUS
<1>25. sm \in Seq(StepType) /\ Sound(end, A, o) /\ Leads(sm, mid, end, A, o)
  BY <1>12, <1>21, <1>23, <1>24, SaveManifestLeads
<1>26. Leads(ss, st, end, A, o) /\ ss \in Seq(StepType)
  BY <1>9, <1>13, <1>21, <1>25, Then
<1>27. Reports(ss, end, astray')
  <2>1. Silent(pre)
    BY <1>9 DEF Silent
  <2>2. Silent(sm)
    BY <1>12, <1>23, SilentSteps
  <2> QED
    BY <1>9, <1>13, <1>25, <2>1, <2>2, SilentBoth, ReportNone
<1>28. end.docs = end.registry
  BY <1>22, <1>24 DEF WithTrash
<1>29. astray' = A /\ A = astray' \cup {} /\ Sound(end, astray', o) /\ Leads(ss, Now, end, A, o)
  BY <1>15, <1>16, <1>17, <1>25, <1>26
<1> QED
  BY <1>14, <1>15, <1>16, <1>26, <1>27, <1>28, <1>29, BeginCourse

\* The file comes back, then leaves the trash, and its entry comes back with it.
LEMMA RestoreCourse ==
    ASSUME IInv, CourseInv, NEW t \in Listed, NEW dest \in Paths, Restore(t, dest)
    PROVE  CourseInv'
<1>0. TypeInv /\ owner \in Seq(Nat) /\ stored[t.id] # None /\ files[dest] = None
      /\ docs # Missing /\ stored \in Seq(Contents \cup {None})
  BY DEF IInv, TypeInv, Restore, RestorePaths, Begin
<1>2. /\ t \in Item /\ t.id \in DOMAIN stored /\ t.id \in Nat
      /\ t.entry = None \/ t.entry \in Entry
  BY <1>0, ListedItems, EntriesGiven
<1>3. PICK id \in Nat : id = t.id
  BY <1>2
<1>4. PICK f \in StepType, d \in StepType :
         f = <<"fetch", id, dest>> /\ d = <<"drop", id>> /\ f[1] = "fetch" /\ d[1] = "drop"
  BY StepTypes
<1>5. PICK m : m = Listed \ {t}
  OBVIOUS
<1>6. PICK e : e = [t.entry EXCEPT !.path = dest]
  OBVIOUS
<1>7. PICK ds : ds = docs \cup {e}
  OBVIOUS
<1>8. PICK b : b = IF t.entry = None \/ Registered(docs, t.entry.id) THEN <<>> ELSE SaveRegistry(ds)
  OBVIOUS
<1>9. PICK ids : ids = IF t.entry = None THEN {} ELSE {t.entry.id}
  OBVIOUS
<1>10. PICK pre, sm : pre = <<f, d>> /\ sm = SaveManifest(m)
  OBVIOUS
<1>11. PICK ss : ss = (pre \o sm) \o b
  OBVIOUS
<1>12. Begin(ids, {id}, ss)
  <2>1. RestoreSteps(t, dest) = ss
    BY <1>3, <1>4, <1>5, <1>6, <1>7, <1>8, <1>10, <1>11 DEF RestoreSteps
  <2> QED
    BY <1>3, <1>9, <2>1 DEF Restore
<1>13. owner' = owner \o <<>> /\ <<>> \in Seq(Nat) /\ astray' = astray /\ expected' = None
  BY <1>0 DEF Restore, Harmless
<1>14. PICK o, A : o = owner' /\ A = astray
  OBVIOUS
<1>15. PICK st : st = Now
  OBVIOUS
<1>16. /\ st \in State /\ Sound(st, A, o) /\ st.files = files /\ st.stored = stored
       /\ st.manifest = manifest /\ st.docs = docs /\ st.registry = docs /\ docs \in SUBSET Entry
  <2>1. astray \subseteq A /\ A \subseteq A /\ o = owner \o <<>>
    BY <1>13, <1>14
  <2> QED
    BY <1>12, <1>13, <1>14, <1>15, <2>1, Beginning
<1>17. PICK fs : fs = [st.files EXCEPT ![dest] = st.stored[id]]
  OBVIOUS
<1>18. PICK one : one = WithFiles(st, fs)
  OBVIOUS
<1>19. one \in State /\ Sound(one, A, o) /\ Leads(<<f>>, st, one, A, o)
  <2>1. st \in State /\ Sound(st, A, o) /\ id \in DOMAIN st.stored /\ st.files[dest] = None
    BY <1>0, <1>2, <1>3, <1>16
  <2> QED
    BY <1>4, <1>17, <1>18, <2>1, FetchLeads
<1>20. /\ one.files = fs /\ one.stored = stored /\ one.manifest = manifest
       /\ one.docs = docs /\ one.registry = docs
  BY <1>16, <1>18 DEF WithFiles
<1>21. PICK td : td = [one.stored EXCEPT ![id] = None]
  OBVIOUS
<1>22. PICK two : two = WithTrash(one, td, one.manifest)
  OBVIOUS
<1>23. two \in State /\ Sound(two, A, o) /\ Leads(<<d>>, one, two, A, o)
  <2>1. id \in DOMAIN one.stored
    BY <1>2, <1>3, <1>20
  <2> QED
    BY <1>4, <1>19, <1>21, <1>22, <2>1, DropLeads
<1>24. two.files = fs /\ two.manifest = manifest /\ two.docs = docs /\ two.registry = docs
  BY <1>20, <1>22 DEF WithTrash
<1>25. pre \in Seq(StepType) /\ Leads(pre, st, two, A, o) /\ Silent(pre)
  <2>1. /\ <<f>> \in Seq(StepType) /\ <<d>> \in Seq(StepType) /\ <<f>> \o <<d>> = pre
        /\ pre \in Seq(StepType)
    BY <1>10, TwoSteps
  <2>2. Silent(<<f>>) /\ Silent(<<d>>)
    BY <1>4, SilentSteps
  <2>3. PICK x \in Seq(StepType), y \in Seq(StepType) : x = <<f>> /\ y = <<d>> /\ pre = x \o y
    BY <2>1
  <2>4. Leads(x, st, one, A, o) /\ Leads(y, one, two, A, o) /\ Silent(x) /\ Silent(y)
    BY <1>19, <1>23, <2>2, <2>3
  <2>5. Leads(x \o y, st, two, A, o) /\ Silent(x \o y)
    BY <2>4, Then, SilentBoth
  <2> QED
    BY <2>1, <2>3, <2>5
<1>26. HeldAll(two.stored, m, A, o) /\ m \in SUBSET Item
  <2>1. HeldAll(two.stored, manifest, A, o) /\ m \in SUBSET Listed
    BY <1>5, <1>23, <1>24 DEF Sound
  <2> QED
    BY <2>1, HeldListed
<1>27. PICK three : three = WithTrash(two, two.stored, m)
  OBVIOUS
<1>28. /\ three \in State /\ Sound(three, A, o) /\ sm \in Seq(StepType)
       /\ Leads(sm, two, three, A, o)
  BY <1>10, <1>23, <1>26, <1>27, SaveManifestLeads
<1>29. PICK a : a = pre \o sm
  OBVIOUS
<1>30. a \in Seq(StepType) /\ Leads(a, st, three, A, o) /\ Silent(a)
  <2>1. Silent(sm)
    BY <1>10, <1>26, SilentSteps
  <2>2. a \in Seq(StepType)
    BY <1>25, <1>28, <1>29
  <2>3. Leads(a, st, three, A, o)
    BY <1>25, <1>28, <1>29, Then
  <2> QED
    BY <1>25, <1>28, <1>29, <2>1, <2>2, <2>3, SilentBoth
<1>31. three.files = fs /\ three.docs = docs /\ three.registry = docs
  BY <1>24, <1>27 DEF WithTrash
<1>32. A \subseteq A \cup ids /\ astray' = A
  BY <1>13, <1>14
<1>33. CASE t.entry = None \/ Registered(docs, t.entry.id)
  <2>1. ss = a \o <<>>
    BY <1>8, <1>11, <1>29, <1>33
  <2>2. ss = a
    BY <1>30, <2>1
  <2>3. Leads(ss, st, three, A \cup ids, o)
    BY <1>30, <1>32, <2>2, LeadsMore
  <2>4. Reports(ss, three, astray')
    BY <1>30, <2>2, ReportNone
  <2>5. /\ ss \in Seq(StepType) /\ Leads(ss, Now, three, A \cup ids, o) /\ Sound(three, astray', o)
        /\ three.docs = three.registry /\ A \cup ids = astray' \cup ids
    BY <1>15, <1>28, <1>30, <1>31, <1>32, <2>2, <2>3
  <2> QED
    BY <1>12, <1>13, <1>14, <2>4, <2>5, BeginCourse
<1>34. CASE ~(t.entry = None \/ Registered(docs, t.entry.id))
  <2>1. t.entry \in Entry /\ e \in Entry /\ e.id = t.entry.id /\ e.path = dest /\ t.entry # None
    BY <1>2, <1>6, <1>34 DEF Entry
  <2>2. ds \in SUBSET Entry
    BY <1>7, <1>16, <2>1
  <2>3. RightAll(three.files, ds, A, o)
    <3>1. RightAll(fs, docs, A, o)
      BY <1>28, <1>31 DEF Sound, RightAll
    <3>2. e.id \in A \/ Right(fs, e, o)
      <4>1. Held(stored, t, A, o)
        <5>1. t \in manifest
          BY DEF Listed
        <5> QED
          BY <1>2, <1>16, <5>1 DEF Sound, HeldAll
      <4>2. fs[dest] = stored[t.id]
        <5>1. fs[dest] = st.stored[id]
          BY <1>16, <1>17, StateParts
        <5> QED
          BY <1>3, <1>16, <5>1
      <4> QED
        BY <1>0, <2>1, <4>1, <4>2 DEF Held, Right
    <3> QED
      BY <1>7, <1>31, <3>1, <3>2 DEF RightAll
  <2>4. PICK end : end = WithEntries(three, ds, ds)
    OBVIOUS
  <2>5. PICK sr : sr = SaveRegistry(ds)
    OBVIOUS
  <2>6. Sound(end, A, o) /\ sr \in Seq(StepType) /\ Leads(sr, three, end, A, o)
    BY <1>28, <2>2, <2>3, <2>4, <2>5, SaveRegistryLeads
  <2>7. ss = a \o sr
    BY <1>8, <1>11, <1>29, <1>34, <2>5
  <2>8. Leads(ss, st, end, A, o) /\ ss \in Seq(StepType)
    BY <1>30, <2>6, <2>7, Then
  <2>9. Leads(ss, st, end, A \cup ids, o)
    BY <1>32, <2>8, LeadsMore
  <2>10. Silent(sr)
    BY <2>2, <2>5, SilentSteps
  <2>11. Reports(ss, end, astray')
    BY <1>30, <2>6, <2>7, <2>10, SilentBoth, ReportNone
  <2>12. /\ Leads(ss, Now, end, A \cup ids, o) /\ Sound(end, astray', o)
         /\ end.docs = end.registry /\ A \cup ids = astray' \cup ids
    BY <1>15, <1>32, <2>4, <2>6, <2>9 DEF WithEntries
  <2> QED
    BY <1>12, <1>13, <1>14, <2>8, <2>11, <2>12, BeginCourse
<1> QED
  BY <1>33, <1>34

\* A file into the trash, and its item onto the manifest.
ItemOf(p, entry) == [id |-> Len(stored) + 1, path |-> p, entry |-> entry]

\* The contents c are what the entry leads to, where there is one.
Given(entry, c, Y, o) == entry = None \/ entry.id \in Y \/ c = None \/ c.what = o[entry.id]

\* The trash with the contents c and their item.
Trashes(p, entry, c, td, m) == td = Append(stored, c) /\ m = Listed \cup {ItemOf(p, entry)}

\* The file of an item that is added is the document of its entry, if it has one.
LEMMA HeldStored ==
    ASSUME IInv, NEW Y, NEW o, HeldAll(stored, manifest, Y, o), NEW p \in Paths,
           NEW entry \in Entry \cup {None}, NEW c \in Contents \cup {None},
           Given(entry, c, Y, o), NEW td, NEW m, Trashes(p, entry, c, td, m)
    PROVE  HeldAll(td, m, Y, o) /\ m \in SUBSET Item
<1>1. /\ Listed \in SUBSET Item /\ stored \in Seq(Contents \cup {None})
      /\ \A t \in Listed : t.id \in DOMAIN stored /\ t \in manifest
  BY ListedItems DEF Listed
<1>2. PICK it : it = ItemOf(p, entry)
  OBVIOUS
<1>3. /\ it \in Item /\ it.id = Len(stored) + 1 /\ it.entry = entry
  BY <1>1, <1>2 DEF ItemOf, Item
<1>4. /\ Len(stored) \in Nat /\ Len(stored) + 1 \in DOMAIN td /\ td[Len(stored) + 1] = c
      /\ \A i \in DOMAIN stored : i \in DOMAIN td /\ td[i] = stored[i]
  BY <1>1 DEF Trashes
<1>5. Held(td, it, Y, o)
  BY <1>3, <1>4 DEF Held, Given
<1>6. ASSUME NEW t \in Listed
      PROVE  Held(td, t, Y, o)
  <2>1. Held(stored, t, Y, o)
    BY <1>1 DEF HeldAll
  <2> QED
    BY <1>1, <1>4, <2>1 DEF Held
<1> QED
  BY <1>1, <1>2, <1>3, <1>5, <1>6 DEF HeldAll, Trashes

\* A file moved to the trash, as an item of its manifest.
LEMMA TrashedLeads ==
    ASSUME IInv, NEW st \in State, NEW X, NEW o, Sound(st, X, o),
           st.stored = stored, st.manifest = manifest, NEW p \in Paths, Free(st, {p}, X, o),
           NEW entry, NEW fs, fs = [st.files EXCEPT ![p] = None],
           NEW td, td = Append(st.stored, st.files[p]),
           NEW m \in SUBSET Item, m = Listed \cup {ItemOf(p, entry)}, HeldAll(td, m, X, o),
           NEW end, end = WithTrash(WithFiles(st, fs), td, m),
           NEW a, a = MoveToTrash(p, entry)
    PROVE  /\ end \in State /\ Sound(end, X, o) /\ a \in Seq(StepType)
           /\ Leads(a, st, end, X, o) /\ Silent(a)
<1>1. PICK one : one = WithTrash(WithFiles(st, fs), td, st.manifest)
  OBVIOUS
<1>2. PICK s \in StepType : s = <<"store", p>> /\ s[1] = "store"
  BY StepTypes
<1>3. one \in State /\ Sound(one, X, o) /\ Leads(<<s>>, st, one, X, o)
  BY <1>1, <1>2, StoreLeads
<1>4. HeldAll(td, m, X, o) /\ m \in SUBSET Item
  OBVIOUS
<1>5. one.stored = td /\ end = WithTrash(one, one.stored, m)
  BY <1>1 DEF WithTrash, WithFiles
<1>6. PICK sm : sm = SaveManifest(m)
  OBVIOUS
<1>7. /\ end \in State /\ Sound(end, X, o) /\ sm \in Seq(StepType)
      /\ Leads(sm, one, end, X, o)
  <2>1. HeldAll(one.stored, m, X, o)
    BY <1>4, <1>5
  <2> QED
    BY <1>3, <1>4, <1>5, <1>6, <2>1, SaveManifestLeads
<1>8. PICK l \in Seq(StepType) : l = <<s>>
  <2>1. <<s>> \in Seq(StepType)
    OBVIOUS
  <2> QED
    BY <2>1
<1>9. a = l \o sm
  BY <1>2, <1>6, <1>8 DEF MoveToTrash, ItemOf
<1>10. Silent(l) /\ Silent(sm)
  BY <1>2, <1>4, <1>6, <1>8, SilentSteps
<1>11. Leads(a, st, end, X, o)
  BY <1>3, <1>7, <1>8, <1>9, Then
<1> QED
  BY <1>7, <1>9, <1>10, <1>11, SilentBoth

\* A document goes to the trash, and its entry with it.
LEMMA DeleteCourse ==
    ASSUME IInv, CourseInv, NEW e \in Open, DeleteDocumentToTrash(e)
    PROVE  CourseInv'
<1>0. /\ TypeInv /\ owner \in Seq(Nat) /\ docs # Missing /\ files[e.path] # None
      /\ stored \in Seq(Contents \cup {None})
  BY DEF IInv, TypeInv, Open, DeleteDocumentToTrash
<1>1. e \in Entry /\ e \in docs
  BY <1>0, OpenEntries
<1>2. PICK p \in Paths : p = e.path
  BY <1>1 DEF Entry
<1>3. PICK a : a = MoveToTrash(p, e)
  OBVIOUS
<1>4. PICK ds : ds = docs \ {e}
  OBVIOUS
<1>5. PICK b : b = SaveRegistry(ds)
  OBVIOUS
<1>6. PICK ss : ss = a \o b
  OBVIOUS
<1>7. PICK ids, T : ids = {e.id} /\ T = {Len(stored) + 1}
  OBVIOUS
<1>8. Begin(ids, T, ss)
  BY <1>2, <1>3, <1>4, <1>5, <1>6, <1>7 DEF DeleteDocumentToTrash
<1>9. owner' = owner \o <<>> /\ <<>> \in Seq(Nat) /\ expected' = None
      /\ astray' = astray \cup {d.id : d \in At(docs, p) \ {e}}
  BY <1>0, <1>2 DEF DeleteDocumentToTrash, TakesFile
<1>10. PICK o, A : o = owner' /\ A = astray'
  OBVIOUS
<1>11. PICK X : X = A \cup ids
  OBVIOUS
<1>12. PICK st : st = Now
  OBVIOUS
<1>13. /\ st \in State /\ Sound(st, A, o) /\ Sound(st, X, o) /\ st.files = files
       /\ st.stored = stored /\ st.manifest = manifest /\ st.docs = docs /\ st.registry = docs
       /\ docs \in SUBSET Entry /\ RightAll(files, docs, astray, o)
       /\ files \in [Paths -> Contents \cup {None}]
  <2>1. astray \subseteq A /\ A \subseteq X /\ o = owner \o <<>>
    BY <1>9, <1>10, <1>11
  <2> QED
    BY <1>8, <1>9, <1>12, <2>1, Beginning
<1>14. \A d \in docs : d.path = p => d.id \in X /\ (d = e \/ d.id \in A)
  BY <1>2, <1>7, <1>9, <1>10, <1>11 DEF At
<1>15. Free(st, {p}, X, o)
  BY <1>13, <1>14 DEF Free
<1>16. PICK fs : fs = [st.files EXCEPT ![p] = None]
  OBVIOUS
<1>17. PICK td : td = Append(st.stored, st.files[p])
  OBVIOUS
<1>18. PICK m : m = Listed \cup {ItemOf(p, e)}
  OBVIOUS
<1>19. PICK mid : mid = WithTrash(WithFiles(st, fs), td, m)
  OBVIOUS
<1>19a. HeldAll(td, m, A, o) /\ HeldAll(td, m, X, o) /\ m \in SUBSET Item
  <2>1. HeldAll(stored, manifest, A, o) /\ HeldAll(stored, manifest, X, o)
    BY <1>13 DEF Sound
  <2>2. e.id \in A \/ files[p].what = o[e.id]
    BY <1>1, <1>2, <1>9, <1>10, <1>13 DEF RightAll, Right
  <2>3. PICK c \in Contents \cup {None} : c = files[p]
    BY <1>13
  <2>3a. Trashes(p, e, c, td, m)
    BY <1>13, <1>17, <1>18, <2>3 DEF Trashes
  <2>4. e \in Entry \cup {None} /\ Given(e, c, A, o) /\ Given(e, c, X, o)
    BY <1>1, <1>11, <2>2, <2>3 DEF Given
  <2>5. HeldAll(td, m, A, o) /\ m \in SUBSET Item
    BY <2>1, <2>3a, <2>4, HeldStored
  <2>6. HeldAll(td, m, X, o)
    BY <2>1, <2>3a, <2>4, HeldStored
  <2> QED
    BY <2>5, <2>6
<1>20. /\ mid \in State /\ Sound(mid, X, o) /\ a \in Seq(StepType)
       /\ Leads(a, st, mid, X, o) /\ Silent(a)
  <2>1. st \in State /\ Sound(st, X, o) /\ st.stored = stored /\ st.manifest = manifest
    BY <1>13
  <2> QED
    BY <1>3, <1>15, <1>16, <1>17, <1>18, <1>19, <1>19a, <2>1, TrashedLeads
<1>21. mid.files = fs /\ mid.stored = td /\ mid.manifest = m /\ mid.docs = docs /\ mid.registry = docs
  BY <1>13, <1>19 DEF WithTrash, WithFiles
<1>22. ds \in SUBSET Entry /\ RightAll(fs, ds, X, o)
  <2>1. RightAll(fs, docs, X, o)
    BY <1>20, <1>21 DEF Sound, RightAll
  <2> QED
    BY <1>4, <1>13, <2>1 DEF RightAll
<1>23. PICK end : end = WithEntries(mid, ds, ds)
  OBVIOUS
<1>24. end \in State /\ b \in Seq(StepType) /\ Leads(b, mid, end, X, o)
  <2>1. RightAll(mid.files, ds, X, o)
    BY <1>21, <1>22
  <2> QED
    BY <1>5, <1>20, <1>22, <1>23, <2>1, SaveRegistryLeads
<1>25. ss \in Seq(StepType) /\ Leads(ss, st, end, X, o)
  BY <1>6, <1>20, <1>24, Then
<1>26. /\ end.files = fs /\ end.stored = td /\ end.manifest = m /\ end.docs = ds /\ end.registry = ds
  BY <1>21, <1>23 DEF WithEntries
<1>27. Sound(end, A, o)
  <2>1. RightAll(fs, ds, A, o)
    <3> SUFFICES ASSUME NEW d \in Entry, d \in ds, d.id \notin A
                 PROVE  Right(fs, d, o)
      BY DEF RightAll
    <3>1. d \in docs /\ d # e /\ d.path # p /\ d.path \in Paths /\ d.id \notin astray
      BY <1>4, <1>9, <1>10, <1>14 DEF Entry
    <3>2. Right(files, d, o)
      BY <1>13, <3>1 DEF RightAll
    <3>3. fs[d.path] = files[d.path]
      BY <1>13, <1>16, <3>1
    <3> QED
      BY <3>2, <3>3 DEF Right
  <2>3. ds \cup ds = ds
    OBVIOUS
  <2> QED
    BY <1>19a, <1>26, <2>1, <2>3 DEF Sound
<1>28. Reports(ss, end, astray')
  <2>1. Silent(b)
    BY <1>5, <1>22, SilentSteps
  <2> QED
    BY <1>6, <1>20, <1>24, <2>1, SilentBoth, ReportNone
<1>29. /\ Leads(ss, Now, end, X, o) /\ Sound(end, astray', o) /\ end.docs = end.registry
       /\ X = astray' \cup ids
  BY <1>10, <1>11, <1>12, <1>25, <1>26, <1>27
<1> QED
  BY <1>8, <1>9, <1>10, <1>25, <1>28, <1>29, BeginCourse

\* What a repair writes: each of the paths S of fs names q instead, and nothing else changes.
Renamed(fs, S, q) == [x \in Paths |-> IF x \in S THEN Repointed(fs[x], q) ELSE fs[x]]

Filled(fs, S) == S \subseteq Paths /\ \A x \in S : fs[x] # None

IsRenamed(fs, S, q, f2) ==
    /\ f2 \in [Paths -> Contents \cup {None}]
    /\ \A x \in Paths \ S : f2[x] = fs[x]
    /\ \A x \in S : f2[x] = Repointed(fs[x], q) /\ f2[x] \in Contents /\ f2[x].what = fs[x].what
    /\ \A x \in Paths : f2[x] = None <=> fs[x] = None

\* The files that a repair makes.
LEMMA RenamedIs ==
    ASSUME NEW fs \in [Paths -> Contents \cup {None}], NEW S, Filled(fs, S),
           NEW q \in Paths, NEW f2, f2 = Renamed(fs, S, q)
    PROVE  IsRenamed(fs, S, q, f2)
<1>1. \A c \in Contents : Repointed(c, q) \in Contents /\ Repointed(c, q).what = c.what
  BY DEF Contents, Repointed
<1>2. S \subseteq Paths /\ \A x \in S : fs[x] \in Contents
  BY DEF Filled
<1>3. None \notin Contents
  BY LibraryConstants DEF LibraryConstants
<1>4. \A x \in Paths : f2[x] = IF x \in S THEN Repointed(fs[x], q) ELSE fs[x]
  BY DEF Renamed
<1>5. f2 \in [Paths -> Contents \cup {None}]
  <2>1. \A x \in Paths : (IF x \in S THEN Repointed(fs[x], q) ELSE fs[x]) \in Contents \cup {None}
    BY <1>1, <1>2
  <2> QED
    BY <2>1 DEF Renamed
<1> QED
  BY <1>1, <1>2, <1>3, <1>4, <1>5 DEF IsRenamed

\* The bytes and the writes of a repair of the paths S.
Rewrites(reps, q, ws) ==
    /\ ws = [i \in DOMAIN reps |-> <<"write", reps[i].path, Repointed(reps[i].backup, q)>>]
    /\ reps \in Seq(Backup)

Repairs(fs, S, reps) ==
    /\ Filled(fs, S)
    /\ \A i \in DOMAIN reps : reps[i].path \in S /\ reps[i].backup = fs[reps[i].path]
    /\ \A x \in S : \E i \in DOMAIN reps : reps[i].path = x

\* Which documents a repair rewrites.
LEMMA RepairedAll ==
    ASSUME IInv, docs # Missing, NEW p \in Paths, NEW q \in Paths, p # q, NEW id,
           NEW fs, fs = Moved(files, p, q),
           NEW reps, reps = Repaired(fs, docs, id, p),
           NEW S, S = Referring(fs, docs, id, p)
    PROVE  Repairs(fs, S, reps)
<1>1. S \subseteq Paths /\ Filled(fs, S)
  BY OpenEntries DEF Referring, Filled
<1>2. PICK ps : ps = SetToSeq(S)
  OBVIOUS
<1>3. IsFiniteSet(S)
  BY <1>1, FinitePaths
<1>4. ps \in Seq(S)
  BY <1>2, <1>3, SeqOfSet
<1>5. reps = [i \in DOMAIN ps |-> [path |-> ps[i], backup |-> fs[ps[i]]]]
  BY <1>2 DEF Repaired
<1>6. \A i \in DOMAIN ps : ps[i] \in S
  BY <1>4
<1>7. DOMAIN reps = DOMAIN ps /\ \A i \in DOMAIN reps : reps[i].path = ps[i] /\ reps[i].backup = fs[ps[i]]
  BY <1>5
<1>8. \A x \in S : \E i \in DOMAIN ps : ps[i] = x
  BY <1>2, <1>3, SeqCovers
<1> QED
  BY <1>1, <1>6, <1>7, <1>8 DEF Repairs

\* Rewriting the references of a sound state leads to a sound state.
LEMMA RepairLeads ==
    ASSUME NEW st \in State, NEW X, NEW o, Sound(st, X, o), NEW S, NEW q \in Paths,
           NEW reps, Repairs(st.files, S, reps), NEW ws, Rewrites(reps, q, ws),
           NEW end, end = WithFiles(st, Renamed(st.files, S, q))
    PROVE  /\ end \in State /\ Sound(end, X, o) /\ ws \in Seq(StepType)
           /\ Leads(ws, st, end, X, o) /\ Silent(ws)
<1>1. PICK fs : fs = st.files
  OBVIOUS
<1>2. fs \in [Paths -> Contents \cup {None}]
  BY <1>1, StateParts
<1>3. PICK f2 : f2 = Renamed(fs, S, q)
  OBVIOUS
<1>4. /\ Filled(fs, S) /\ S \subseteq Paths
      /\ \A i \in DOMAIN reps : reps[i].path \in S /\ reps[i].backup = fs[reps[i].path]
      /\ \A x \in S : \E i \in DOMAIN reps : reps[i].path = x
  BY <1>1 DEF Repairs, Filled
<1>5. /\ f2 \in [Paths -> Contents \cup {None}]
      /\ \A x \in Paths \ S : f2[x] = fs[x]
      /\ \A x \in S : f2[x] = Repointed(fs[x], q) /\ f2[x] \in Contents /\ f2[x].what = fs[x].what
  <2>1. IsRenamed(fs, S, q, f2)
    BY <1>2, <1>3, <1>4, RenamedIs
  <2> QED
    BY <2>1 DEF IsRenamed
<1>6. DOMAIN reps = 1 .. Len(reps) /\ Len(reps) \in Nat /\ DOMAIN ws = DOMAIN reps
  BY DEF Rewrites
<1>7. \A i \in DOMAIN reps : /\ ws[i] = <<"write", reps[i].path, f2[reps[i].path]>>
                             /\ ws[i][1] = "write" /\ ws[i][2] = reps[i].path
                             /\ ws[i][3] = f2[reps[i].path] /\ ws[i] \in StepType
  <2> SUFFICES ASSUME NEW i \in DOMAIN reps
               PROVE  ws[i] = <<"write", reps[i].path, f2[reps[i].path]>> /\ ws[i] \in StepType
    OBVIOUS
  <2>1. ws[i] = <<"write", reps[i].path, Repointed(reps[i].backup, q)>>
    BY DEF Rewrites
  <2>2. reps[i].path \in S /\ Repointed(reps[i].backup, q) = f2[reps[i].path]
    BY <1>4, <1>5
  <2> QED
    BY <1>4, <1>5, <2>1, <2>2, StepTypes
<1>8. ws \in Seq(StepType)
  <2>1. ws \in [1 .. Len(reps) -> StepType]
    BY <1>6, <1>7 DEF Rewrites
  <2> QED
    BY <1>6, <2>1
<1>9. AllSame(st, ws, X, o)
  <2> SUFFICES ASSUME NEW i \in DOMAIN reps
               PROVE  ws[i][1] = "write" /\ Same(st, ws[i][2], ws[i][3], X, o)
    BY <1>6 DEF AllSame
  <2>0. PICK x : x = reps[i].path
    OBVIOUS
  <2>0a. x \in S /\ f2[x].what = fs[x].what
    BY <1>4, <1>5, <2>0
  <2>1. ws[i][1] = "write" /\ ws[i][2] \in S /\ ws[i][3].what = st.files[ws[i][2]].what
    BY <1>1, <1>7, <2>0, <2>0a
  <2> QED
    BY <2>1 DEF Same, Right
<1>10. Written(st.files, ws, f2)
  <2>1. \A i \in DOMAIN ws : f2[ws[i][2]] = ws[i][3]
    BY <1>6, <1>7
  <2>2. ASSUME NEW x \in Paths, \A i \in DOMAIN ws : ws[i][2] # x
        PROVE  f2[x] = st.files[x]
    <3>1. x \notin S
      BY <1>4, <1>6, <1>7, <2>2
    <3> QED
      BY <1>1, <1>5, <3>1
  <2> QED
    BY <2>1, <2>2 DEF Written
<1>11. end = WithFiles(st, f2)
  BY <1>1, <1>3
<1>12. Silent(ws)
  BY <1>6, <1>7 DEF Silent
<1> QED
  BY <1>5, <1>8, <1>9, <1>10, <1>11, <1>12, WritesLead

\* A rename moves the file, then the references to it, then its entry.
LEMMA RenameCourse ==
    ASSUME IInv, CourseInv, NEW e \in Open, NEW q \in Paths, RenameOrMoveDocument(e, q)
    PROVE  CourseInv'
<1>0. /\ TypeInv /\ owner \in Seq(Nat) /\ docs # Missing
      /\ files \in [Paths -> Contents \cup {None}] /\ None \notin Contents
      /\ files[e.path] # None /\ files[q] = None
  BY LibraryConstants DEF IInv, TypeInv, Open, RenameOrMoveDocument, LibraryConstants
<1>1. e \in Entry /\ e.id \in Nat /\ e.path \in Paths /\ e \in docs
      /\ \A d \in docs : d.id = e.id => d = e
  BY <1>0, OpenEntries DEF Distinct
<1>2. PICK p \in Paths : p = e.path
  BY <1>1
<1>3. p # q
  BY <1>0, <1>2
<1>4. PICK fs : fs = Moved(files, p, q)
  OBVIOUS
<1>5. PICK reps : reps = Repaired(fs, docs, e.id, p)
  OBVIOUS
<1>6. PICK S : S = Referring(fs, docs, e.id, p)
  OBVIOUS
<1>7. /\ fs \in [Paths -> Contents \cup {None}] /\ reps \in Seq(Backup)
      /\ fs[p] = None /\ fs[q] = files[p] /\ \A x \in Paths \ {p, q} : fs[x] = files[x]
  <2>1. fs \in [Paths -> Contents \cup {None}] /\ reps \in Seq(Backup) /\ fs[p] = None
    BY <1>0, <1>3, <1>4, <1>5, RepairedIs
  <2> QED
    BY <1>0, <1>3, <1>4, <2>1 DEF Moved
<1>8. Repairs(fs, S, reps)
  BY <1>0, <1>3, <1>4, <1>5, <1>6, RepairedAll
<1>9. PICK ws : ws = Writes(reps, LAMBDA r : Repointed(r.backup, q))
  OBVIOUS
<1>10. Rewrites(reps, q, ws)
  BY <1>7, <1>9 DEF Writes, Rewrites
<1>11. PICK e2 : e2 = [e EXCEPT !.path = q]
  OBVIOUS
<1>12. PICK ds : ds = (docs \ {e}) \cup {e2}
  OBVIOUS
<1>13. PICK r : r = Receipt("rename", e.id, p, q, e, reps)
  OBVIOUS
<1>14. e2 \in Entry /\ e2.id = e.id /\ e2.path = q
  BY <1>1, <1>11 DEF Entry
<1>15. /\ r \in ReceiptType /\ r.op = "rename" /\ r.id = e.id /\ r.before = p /\ r.after = q
       /\ r.entry = e /\ r.repaired = reps /\ r.then.files = files /\ r.then.docs = docs
  <2>1. "rename" \in {"create", "import", "duplicate", "rename", "remove"}
    OBVIOUS
  <2>2. r \in ReceiptType
    BY <1>0, <1>1, <1>7, <1>13, <2>1 DEF Receipt, ReceiptType, TypeInv
  <2> QED
    BY <1>13, <2>2 DEF Receipt
<1>16. PICK b : b = SaveRegistry(ds) \o << <<"receipt", r>> >>
  OBVIOUS
<1>17. Saves(ds, r, b)
  BY <1>16 DEF Saves
<1>18. PICK s \in StepType : s = <<"move", p, q>> /\ s[1] = "move"
  BY StepTypes
<1>19. PICK l \in Seq(StepType) : l = <<s>>
  <2>1. <<s>> \in Seq(StepType)
    OBVIOUS
  <2> QED
    BY <2>1
<1>20. PICK a : a = l \o ws
  OBVIOUS
<1>21. PICK ss : ss = a \o b
  OBVIOUS
<1>22. PICK ids : ids = {e.id}
  OBVIOUS
<1>23. ds \in SUBSET Entry
  BY <1>0, <1>12, <1>14, OpenEntries
<1>24. ws \in Seq(StepType) /\ b \in Seq(StepType) /\ a \in Seq(StepType) /\ ss \in Seq(StepType)
  <2>1. ws \in Seq(StepType)
    <3>1. DOMAIN reps = 1 .. Len(reps) /\ Len(reps) \in Nat
          /\ \A i \in DOMAIN reps : reps[i].path \in Paths /\ reps[i].backup \in Contents
      <4>1. DOMAIN reps = 1 .. Len(reps) /\ Len(reps) \in Nat /\ \A i \in DOMAIN reps : reps[i] \in Backup
        BY <1>7
      <4> QED
        BY <4>1 DEF Backup
    <3>2. \A c \in Contents : Repointed(c, q) \in Contents
      BY DEF Contents, Repointed
    <3>3. ws = [i \in DOMAIN reps |-> <<"write", reps[i].path, Repointed(reps[i].backup, q)>>]
      BY <1>10 DEF Rewrites
    <3>4. \A i \in DOMAIN reps : ws[i] \in StepType
      BY <3>1, <3>2, <3>3, StepTypes
    <3> QED
      BY <3>1, <3>3, <3>4
  <2>2. PICK sr \in Seq(StepType) : sr = SaveRegistry(ds)
    BY <1>23, SaveRegistryIs
  <2>3. PICK t \in StepType : t = <<"receipt", r>>
    BY <1>15, StepTypes
  <2>4. b \in Seq(StepType)
    BY <1>16, <2>2, <2>3, After
  <2>5. a \in Seq(StepType)
    BY <1>20, <2>1
  <2> QED
    BY <1>21, <2>1, <2>4, <2>5
<1>25. ss = RenameSteps(e, q)
  <2>1. RenameSteps(e, q) = << <<"move", p, q>> >> \o ws \o SaveRegistry(ds) \o << <<"receipt", r>> >>
    BY <1>2, <1>4, <1>5, <1>9, <1>11, <1>12, <1>13 DEF RenameSteps
  <2>2. PICK sr \in Seq(StepType) : sr = SaveRegistry(ds)
    BY <1>23, SaveRegistryIs
  <2>3. PICK t \in Seq(StepType) : t = << <<"receipt", r>> >>
    <3>1. PICK u \in StepType : u = <<"receipt", r>>
      BY <1>15, StepTypes
    <3>2. <<u>> \in Seq(StepType)
      OBVIOUS
    <3> QED
      BY <3>1, <3>2
  <2>4. (a \o sr) \o t = a \o (sr \o t)
    <3>1. a \in Seq(StepType) /\ sr \in Seq(StepType) /\ t \in Seq(StepType)
      BY <1>24, <2>2, <2>3
    <3> QED
      BY <3>1, Associative
  <2>5. a = << <<"move", p, q>> >> \o ws
    BY <1>18, <1>19, <1>20
  <2>6. b = sr \o t
    BY <1>16, <2>2, <2>3
  <2>7. RenameSteps(e, q) = (a \o sr) \o t
    BY <2>1, <2>2, <2>3, <2>5
  <2> QED
    BY <1>21, <2>4, <2>6, <2>7
<1>26. Begin(ids, {}, ss)
  BY <1>22, <1>25 DEF RenameOrMoveDocument
<1>27. owner' = owner \o <<>> /\ <<>> \in Seq(Nat) /\ expected' = None
       /\ astray' = astray \cup {d.id : d \in At(docs, p) \ {e}}
  BY <1>0, <1>2 DEF RenameOrMoveDocument, TakesFile
<1>28. PICK o, A : o = owner' /\ A = astray'
  OBVIOUS
<1>29. PICK X : X = A \cup ids
  OBVIOUS
<1>30. PICK st : st = Now
  OBVIOUS
<1>31. /\ st \in State /\ Sound(st, A, o) /\ Sound(st, X, o) /\ st.files = files
       /\ st.stored = stored /\ st.manifest = manifest /\ st.docs = docs /\ st.registry = docs
       /\ docs \in SUBSET Entry /\ RightAll(files, docs, astray, o)
  <2>1. astray \subseteq A /\ A \subseteq X /\ o = owner \o <<>>
    BY <1>27, <1>28, <1>29
  <2> QED
    BY <1>26, <1>27, <1>30, <2>1, Beginning
<1>32. \A d \in docs : d.path = p => d.id \in X /\ (d = e \/ d.id \in A)
  BY <1>2, <1>22, <1>27, <1>28, <1>29 DEF At
<1>33. PICK one : one = WithFiles(st, fs)
  OBVIOUS
<1>34. one \in State /\ Sound(one, X, o) /\ Leads(l, st, one, X, o)
  <2>1. Free(st, {p, q}, X, o)
    BY <1>0, <1>31, <1>32 DEF Free, Right
  <2>2. st \in State /\ Sound(st, X, o) /\ fs = Moved(st.files, p, q)
    BY <1>4, <1>31
  <2> QED
    BY <1>18, <1>19, <1>33, <2>1, <2>2, MoveLeads
<1>35. /\ one.files = fs /\ one.docs = docs /\ one.registry = docs /\ one.stored = stored
       /\ one.manifest = manifest
  BY <1>31, <1>33 DEF WithFiles
<1>36. PICK f2 : f2 = Renamed(fs, S, q)
  OBVIOUS
<1>37. PICK two : two = WithFiles(one, f2)
  OBVIOUS
<1>38. two \in State /\ Sound(two, X, o) /\ Leads(ws, one, two, X, o) /\ Silent(ws)
  <2>1. Repairs(one.files, S, reps) /\ two = WithFiles(one, Renamed(one.files, S, q))
    BY <1>8, <1>35, <1>36, <1>37
  <2> QED
    BY <1>10, <1>34, <2>1, RepairLeads
<1>39. /\ two.files = f2 /\ two.docs = docs /\ two.registry = docs /\ two.stored = stored
       /\ two.manifest = manifest
  BY <1>35, <1>37 DEF WithFiles
<1>40. RightAll(two.files, ds, X, o)
  <2>1. RightAll(f2, docs, X, o)
    BY <1>38, <1>39 DEF Sound, RightAll
  <2>2. e2.id \in X
    BY <1>14, <1>22, <1>29
  <2> QED
    BY <1>12, <1>39, <2>1, <2>2 DEF RightAll
<1>41. PICK end : end = WithEntries(two, ds, ds)
  OBVIOUS
<1>42. /\ end.files = f2 /\ end.docs = ds /\ end.registry = ds /\ end.stored = stored
       /\ end.manifest = manifest
  BY <1>39, <1>41 DEF WithEntries
<1>43. Placed(r)
  BY <1>15 DEF Placed
<1>44. /\ f2 \in [Paths -> Contents \cup {None}]
       /\ \A x \in Paths \ S : f2[x] = fs[x]
       /\ \A x \in S : f2[x] = Repointed(fs[x], q) /\ f2[x].what = fs[x].what
       /\ \A x \in Paths : f2[x] = None <=> fs[x] = None
       /\ S \subseteq Paths
  <2>1. Filled(fs, S) /\ S \subseteq Paths
    BY <1>8 DEF Repairs, Filled
  <2>2. fs \in [Paths -> Contents \cup {None}]
    BY <1>7
  <2>3. IsRenamed(fs, S, q, f2)
    BY <1>36, <2>1, <2>2, RenamedIs
  <2> QED
    BY <2>1, <2>3 DEF IsRenamed
<1>45. Matches(end, r, A)
  <2>1. MovedBy(r) = fs /\ RepairedBy(r) = S
    BY <1>4, <1>6, <1>15 DEF MovedBy, RepairedBy
  <2>2. \A d \in docs : d.path = p /\ d # e => d.id \in A
    BY <1>32
  <2>3. \A x \in Paths : f2[x] = IF x \in S THEN Repointed(fs[x], q) ELSE fs[x]
    BY <1>36 DEF Renamed
  <2>4. /\ \A i \in DOMAIN reps : reps[i].path \in S /\ reps[i].backup = fs[reps[i].path]
        /\ \A x \in S : \E i \in DOMAIN reps : reps[i].path = x
    BY <1>8 DEF Repairs
  <2>5. /\ r.entry \in r.then.docs /\ r.entry.id = r.id /\ r.entry.path = r.before
        /\ \A d \in r.then.docs : d.id = r.id => d = r.entry
        /\ \A d \in r.then.docs : d.path = r.before /\ d # r.entry => d.id \in A
    BY <1>1, <1>2, <1>15, <2>2
  <2>6. /\ r.then.files[r.before] # None /\ r.then.files[r.after] = None
        /\ end.docs = (r.then.docs \ {r.entry}) \cup {[r.entry EXCEPT !.path = r.after]}
    BY <1>0, <1>2, <1>11, <1>12, <1>15, <1>42
  <2>7. \A x \in Paths : end.files[x] = IF x \in RepairedBy(r)
                                        THEN Repointed(MovedBy(r)[x], r.after)
                                        ELSE MovedBy(r)[x]
    <3>1. PICK B, M : B = RepairedBy(r) /\ M = MovedBy(r)
      OBVIOUS
    <3>2. B = S /\ M = fs /\ r.after = q /\ end.files = f2
      BY <1>15, <1>42, <2>1, <3>1
    <3>3. \A x \in Paths : end.files[x] = IF x \in B THEN Repointed(M[x], r.after) ELSE M[x]
      BY <2>3, <3>2
    <3> QED
      BY <3>1, <3>3
  <2>8. /\ \A i \in DOMAIN r.repaired : /\ r.repaired[i].path \in RepairedBy(r)
                                        /\ r.repaired[i].backup = MovedBy(r)[r.repaired[i].path]
        /\ \A x \in RepairedBy(r) : \E i \in DOMAIN r.repaired : r.repaired[i].path = x
    BY <1>15, <2>1, <2>4
  <2>9. RenameMatches(end, r, A)
    BY <2>5, <2>6, <2>7, <2>8 DEF RenameMatches
  <2> QED
    BY <1>15, <2>9 DEF Matches
<1>46. Leads(b, two, end, X, o) /\ Reports(b, end, A)
  <2>1. r \in ReceiptType
    BY <1>15
  <2> QED
    BY <1>17, <1>23, <1>38, <1>40, <1>41, <1>43, <1>45, <2>1, SavedAndReported
<1>47. Leads(a, st, two, X, o) /\ Silent(a)
  <2>1. Leads(a, st, two, X, o)
    BY <1>20, <1>24, <1>34, <1>38, Then
  <2>2. Silent(l)
    BY <1>18, <1>19, SilentSteps
  <2> QED
    BY <1>20, <1>24, <1>38, <2>1, <2>2, SilentBoth
<1>48. Leads(ss, st, end, X, o) /\ Reports(ss, end, A)
  <2>1. Leads(ss, st, end, X, o)
    BY <1>21, <1>24, <1>46, <1>47, Then
  <2>2. Reports(ss, end, A)
    BY <1>21, <1>24, <1>46, <1>47, ReportAfter
  <2> QED
    BY <2>1, <2>2
<1>49. Sound(end, A, o)
  <2>1. RightAll(f2, ds, A, o)
    <3>1. ASSUME NEW d \in docs, d # e, d.id \notin A
          PROVE  Right(f2, d, o)
      <4>1. d.path # p /\ d \in Entry /\ d.path \in Paths /\ d.id \notin astray
        BY <1>0, <1>27, <1>28, <1>32, <3>1, OpenEntries
      <4>2. Right(files, d, o)
        BY <1>31, <4>1 DEF RightAll
      <4>3. fs[d.path] = files[d.path]
        BY <1>0, <1>7, <4>1, <4>2 DEF Right
      <4>4. f2[d.path].what = fs[d.path].what /\ (f2[d.path] = None <=> fs[d.path] = None)
        BY <1>44, <4>1
      <4> QED
        BY <4>2, <4>3, <4>4 DEF Right
    <3>2. ASSUME e.id \notin A
          PROVE  Right(f2, e2, o)
      <4>1. Right(files, e, o)
        BY <1>1, <1>27, <1>28, <1>31, <3>2 DEF RightAll
      <4>2. f2[q].what = fs[q].what /\ (f2[q] = None <=> fs[q] = None)
        BY <1>44
      <4> QED
        BY <1>2, <1>7, <1>14, <4>1, <4>2 DEF Right
    <3> QED
      BY <1>12, <1>14, <3>1, <3>2 DEF RightAll
  <2>2. HeldAll(stored, manifest, A, o)
    BY <1>31 DEF Sound
  <2>3. ds \cup ds = ds
    OBVIOUS
  <2> QED
    BY <1>42, <2>1, <2>2, <2>3 DEF Sound
<1>50. /\ Leads(ss, Now, end, X, o) /\ Sound(end, astray', o) /\ end.docs = end.registry
       /\ X = astray' \cup ids /\ Reports(ss, end, astray')
  BY <1>28, <1>29, <1>30, <1>42, <1>48, <1>49
<1> QED
  BY <1>24, <1>26, <1>27, <1>28, <1>50, BeginCourse

\* An undo of the receipt r begins in the state st: met are the ids that it can take astray.
UndoState(st, r, met, A, X, o) ==
    /\ r \in ReceiptType /\ Sensible(r) /\ Placed(r)
    /\ st \in State /\ Sound(st, A, o) /\ Sound(st, X, o)
    /\ st.files = files /\ st.stored = stored /\ st.manifest = manifest
    /\ st.docs = docs /\ st.registry = docs
    /\ docs \in SUBSET Entry /\ docs # Missing
    /\ RightAll(files, docs, astray, o) /\ o = owner
    /\ r.id \in met
    /\ \A e \in docs : e.path \in Replaced(r) \cup {r.before, r.after} => e.id \in met
    /\ X = A \cup met /\ astray \subseteq A
    /\ A = X \/ (A = astray /\ InOrder(r) /\ Replaced(r) = {})

\* Its steps ss lead to a sound state, the one that the operation of r began in if nothing
\* else came after that.
Settles(ss, st, end, A, X, o, r) ==
    /\ ss \in Seq(StepType) /\ Silent(ss) /\ Leads(ss, st, end, X, o)
    /\ end \in State /\ Sound(end, X, o) /\ Sound(end, A, o) /\ end.docs = end.registry
    /\ Matches(st, r, astray) => end.files = r.then.files /\ end.docs = r.then.docs

\* The steps a take the file of the path p to the trash, if there is one.
Discards(a, st, mid, p, A, X, o) ==
    /\ a \in Seq(StepType) /\ Silent(a) /\ Leads(a, st, mid, X, o)
    /\ mid \in State /\ Sound(mid, X, o) /\ HeldAll(mid.stored, mid.manifest, A, o)
    /\ mid.docs = docs /\ mid.registry = docs
    /\ mid.files = [files EXCEPT ![p] = None]

\* The file of an added document goes, and no entry of another document with it.
LEMMA DiscardLeads ==
    ASSUME IInv, NEW st, NEW r, NEW met, NEW A, NEW X, NEW o, UndoState(st, r, met, A, X, o),
           r.after \in Paths, NEW a,
           a = IF files[r.after] = None THEN <<>> ELSE MoveToTrash(r.after, None)
    PROVE  \E mid : Discards(a, st, mid, r.after, A, X, o)
<1>0. /\ st \in State /\ Sound(st, A, o) /\ Sound(st, X, o) /\ st.files = files
      /\ st.stored = stored /\ st.manifest = manifest /\ st.docs = docs /\ st.registry = docs
      /\ docs \in SUBSET Entry /\ X = A \cup met
      /\ files \in [Paths -> Contents \cup {None}]
      /\ stored \in Seq(Contents \cup {None})
  BY DEF UndoState, IInv, TypeInv
<1>1. PICK p \in Paths : p = r.after
  OBVIOUS
<1>2. HeldAll(stored, manifest, A, o) /\ HeldAll(stored, manifest, X, o)
  BY <1>0 DEF Sound
<1>3. CASE files[p] = None
  <2>1. a = <<>> /\ a \in Seq(StepType)
    BY <1>1, <1>3
  <2>2. files = [files EXCEPT ![p] = None]
    BY <1>0, <1>3
  <2>3. Silent(<<>>) /\ Leads(<<>>, st, st, X, o)
    BY <1>0, SilentSteps, Stay
  <2>4. Discards(a, st, st, p, A, X, o)
    BY <1>0, <1>2, <2>1, <2>2, <2>3 DEF Discards
  <2> QED
    BY <1>1, <2>4
<1>4. CASE files[p] # None
  <2>1. a = MoveToTrash(p, None)
    BY <1>1, <1>4
  <2>2. Free(st, {p}, X, o)
    <3>1. \A e \in docs : e.path = p => e.id \in X
      BY <1>0, <1>1 DEF UndoState
    <3> QED
      BY <1>0, <3>1 DEF Free
  <2>3. PICK fs : fs = [st.files EXCEPT ![p] = None]
    OBVIOUS
  <2>4. PICK td : td = Append(st.stored, st.files[p])
    OBVIOUS
  <2>5. PICK m : m = Listed \cup {ItemOf(p, None)}
    OBVIOUS
  <2>6. PICK mid : mid = WithTrash(WithFiles(st, fs), td, m)
    OBVIOUS
  <2>7. HeldAll(td, m, A, o) /\ HeldAll(td, m, X, o) /\ m \in SUBSET Item
    <3>1. PICK c \in Contents \cup {None} : c = files[p]
      BY <1>0
    <3>2. Trashes(p, None, c, td, m)
      BY <1>0, <2>4, <2>5, <3>1 DEF Trashes
    <3>3. None \in Entry \cup {None} /\ Given(None, c, A, o) /\ Given(None, c, X, o)
      BY DEF Given
    <3>4. HeldAll(td, m, A, o) /\ m \in SUBSET Item
      BY <1>2, <3>2, <3>3, HeldStored
    <3>5. HeldAll(td, m, X, o)
      BY <1>2, <3>2, <3>3, HeldStored
    <3> QED
      BY <3>4, <3>5
  <2>8. /\ mid \in State /\ Sound(mid, X, o) /\ a \in Seq(StepType)
        /\ Leads(a, st, mid, X, o) /\ Silent(a)
    <3>1. st \in State /\ Sound(st, X, o) /\ st.stored = stored /\ st.manifest = manifest
      BY <1>0
    <3> QED
      BY <2>1, <2>2, <2>3, <2>4, <2>5, <2>6, <2>7, <3>1, TrashedLeads
  <2>9. /\ mid.files = [files EXCEPT ![p] = None] /\ mid.stored = td /\ mid.manifest = m
        /\ mid.docs = docs /\ mid.registry = docs
    BY <1>0, <2>3, <2>6 DEF WithTrash, WithFiles
  <2>10. Discards(a, st, mid, p, A, X, o)
    BY <2>7, <2>8, <2>9 DEF Discards
  <2> QED
    BY <1>1, <2>10
<1> QED
  BY <1>3, <1>4

\* The undo of a document added: its file to the trash, its entry out of the registry.
LEMMA UndoAddLeads ==
    ASSUME IInv, NEW st, NEW r, NEW met, NEW A, NEW X, NEW o, UndoState(st, r, met, A, X, o),
           r.op \in {"create", "import", "duplicate"}, NEW ss, ss = UndoAdd(r)
    PROVE  \E end : Settles(ss, st, end, A, X, o, r)
<1>0. /\ st \in State /\ Sound(st, A, o) /\ Sound(st, X, o) /\ st.files = files
      /\ st.docs = docs /\ docs \in SUBSET Entry /\ X = A \cup met
      /\ files \in [Paths -> Contents \cup {None}]
      /\ r \in ReceiptType /\ r.after \in Paths
  BY DEF UndoState, IInv, TypeInv, Sensible
<1>1. PICK a : a = IF files[r.after] = None THEN <<>> ELSE MoveToTrash(r.after, None)
  OBVIOUS
<1>2. PICK p \in Paths : p = r.after
  BY <1>0
<1>3. PICK mid : Discards(a, st, mid, p, A, X, o)
  BY <1>0, <1>1, <1>2, DiscardLeads
<1>4. PICK fs : fs = [files EXCEPT ![p] = None]
  OBVIOUS
<1>5. /\ a \in Seq(StepType) /\ Silent(a) /\ Leads(a, st, mid, X, o)
      /\ mid \in State /\ Sound(mid, X, o) /\ HeldAll(mid.stored, mid.manifest, A, o)
      /\ mid.docs = docs /\ mid.registry = docs /\ mid.files = fs
  BY <1>3, <1>4 DEF Discards
<1>6. PICK ds : ds = {e \in docs : e.id # r.id}
  OBVIOUS
<1>7. ds \in SUBSET Entry /\ RightAll(mid.files, ds, X, o)
  <2>1. RightAll(fs, docs, X, o)
    BY <1>5 DEF Sound, RightAll
  <2> QED
    BY <1>0, <1>5, <1>6, <2>1 DEF RightAll
<1>8. PICK b : b = SaveRegistry(ds)
  OBVIOUS
<1>9. PICK end : end = WithEntries(mid, ds, ds)
  OBVIOUS
<1>10. end \in State /\ Sound(end, X, o) /\ b \in Seq(StepType) /\ Leads(b, mid, end, X, o)
  BY <1>5, <1>7, <1>8, <1>9, SaveRegistryLeads
<1>11. /\ end.files = fs /\ end.docs = ds /\ end.registry = ds /\ end.stored = mid.stored
       /\ end.manifest = mid.manifest
  BY <1>5, <1>9 DEF WithEntries
<1>12. ss = a \o b
  BY <1>1, <1>6, <1>8 DEF UndoAdd
<1>13. ss \in Seq(StepType) /\ Leads(ss, st, end, X, o)
  BY <1>5, <1>10, <1>12, Then
<1>14. Silent(ss)
  BY <1>5, <1>7, <1>8, <1>10, <1>12, SilentSteps, SilentBoth
<1>15. Sound(end, A, o)
  <2>1. CASE A = X
    BY <1>10, <2>1
  <2>2. CASE A = astray /\ InOrder(r)
    <3>1. At(docs, p) \subseteq {[id |-> r.id, path |-> p, kind |-> k] : k \in {"managed", "linked"}}
      BY <1>2, <2>2 DEF InOrder
    <3>2. RightAll(fs, ds, A, o)
      <4> SUFFICES ASSUME NEW d \in Entry, d \in ds, d.id \notin A
                   PROVE  Right(fs, d, o)
        BY DEF RightAll
      <4>1. d \in docs /\ d.id # r.id /\ d.path \in Paths
        BY <1>6 DEF Entry
      <4>2. d.path # p
        BY <3>1, <4>1 DEF At
      <4>3. Right(files, d, o)
        BY <2>2, <4>1 DEF UndoState, RightAll
      <4>4. fs[d.path] = files[d.path]
        BY <1>0, <1>4, <4>1, <4>2
      <4> QED
        BY <4>3, <4>4 DEF Right
    <3>3. ds \cup ds = ds
      OBVIOUS
    <3> QED
      BY <1>5, <1>11, <3>2, <3>3 DEF Sound
  <2> QED
    BY <2>1, <2>2 DEF UndoState
<1>16. ASSUME Matches(st, r, astray)
       PROVE  end.files = r.then.files /\ end.docs = r.then.docs
  <2>1. AddMatches(st, r)
    BY <1>16 DEF Matches
  <2>2. r.then.files \in [Paths -> Contents \cup {None}]
    BY <1>0 DEF ReceiptType
  <2>3. fs = r.then.files
    <3>1. \A x \in Paths : fs[x] = r.then.files[x]
      BY <1>0, <1>2, <1>4, <2>1 DEF AddMatches
    <3>2. fs \in [Paths -> Contents \cup {None}]
      BY <1>0, <1>4
    <3> QED
      BY <2>2, <3>1, <3>2
  <2>4. ds = r.then.docs
    <3>1. PICK e \in Entry : e.id = r.id /\ docs = r.then.docs \cup {e}
      BY <1>0, <2>1 DEF AddMatches
    <3>2. \A d \in r.then.docs : d.id # r.id
      BY <2>1 DEF AddMatches
    <3> QED
      BY <1>6, <3>1, <3>2
  <2> QED
    BY <1>11, <2>3, <2>4
<1>17. Settles(ss, st, end, A, X, o, r)
  BY <1>10, <1>11, <1>13, <1>14, <1>15, <1>16 DEF Settles
<1> QED
  BY <1>17

\* The undo of a removal: the entry back into the registry.
LEMMA UndoRemoveLeads ==
    ASSUME IInv, NEW st, NEW r, NEW met, NEW A, NEW X, NEW o, UndoState(st, r, met, A, X, o),
           r.op = "remove", NEW ss, ss = UndoRemove(r)
    PROVE  \E end : Settles(ss, st, end, A, X, o, r)
<1>0. /\ st \in State /\ Sound(st, A, o) /\ Sound(st, X, o) /\ st.files = files
      /\ st.stored = stored /\ st.manifest = manifest
      /\ st.docs = docs /\ st.registry = docs
      /\ docs \in SUBSET Entry /\ X = A \cup met /\ owner \in Seq(Nat)
      /\ r \in ReceiptType /\ r.before \in Paths /\ r.entry \in Entries /\ r.entry.id = r.id
      /\ r.entry.path = r.before /\ r.id \in met /\ o = owner
  BY DEF UndoState, IInv, TypeInv, Sensible, Placed
<1>1. r.entry \in Entry
  BY <1>0, EntriesGiven
<1>2. PICK ds : ds = IF Registered(docs, r.id) THEN docs ELSE docs \cup {r.entry}
  OBVIOUS
<1>3. ds \in SUBSET Entry /\ RightAll(st.files, ds, X, o)
  <2>1. RightAll(files, docs, X, o)
    BY <1>0 DEF Sound, RightAll
  <2>2. r.entry.id \in X
    BY <1>0
  <2> QED
    BY <1>0, <1>1, <1>2, <2>1, <2>2 DEF RightAll
<1>4. PICK end : end = WithEntries(st, ds, ds)
  OBVIOUS
<1>5. ss = SaveRegistry(ds)
  BY <1>2 DEF UndoRemove
<1>6. end \in State /\ Sound(end, X, o) /\ ss \in Seq(StepType) /\ Leads(ss, st, end, X, o)
  BY <1>0, <1>3, <1>4, <1>5, SaveRegistryLeads
<1>7. /\ end.files = files /\ end.docs = ds /\ end.registry = ds /\ end.stored = stored
      /\ end.manifest = manifest
  BY <1>0, <1>4 DEF WithEntries
<1>8. Silent(ss)
  BY <1>3, <1>5, SilentSteps
<1>9. Sound(end, A, o)
  <2>1. CASE A = X
    BY <1>6, <2>1
  <2>2. CASE A = astray /\ InOrder(r)
    <3>1. Right(files, r.entry, o)
      BY <1>0, <2>2 DEF InOrder, Right
    <3>2. RightAll(files, docs, A, o)
      BY <2>2 DEF UndoState
    <3>3. RightAll(files, ds, A, o)
      BY <1>2, <3>1, <3>2 DEF RightAll
    <3>4. HeldAll(stored, manifest, A, o)
      BY <1>0 DEF Sound
    <3>5. ds \cup ds = ds
      OBVIOUS
    <3> QED
      BY <1>7, <3>3, <3>4, <3>5 DEF Sound
  <2> QED
    BY <2>1, <2>2 DEF UndoState
<1>10. ASSUME Matches(st, r, astray)
       PROVE  end.files = r.then.files /\ end.docs = r.then.docs
  <2>1. RemoveMatches(st, r)
    BY <1>10 DEF Matches
  <2>2. /\ files = r.then.files /\ r.entry \in r.then.docs /\ docs = r.then.docs \ {r.entry}
        /\ \A e \in r.then.docs : e.id = r.id => e = r.entry
    BY <1>0, <2>1 DEF RemoveMatches
  <2>3. ~Registered(docs, r.id)
    BY <2>2 DEF Registered
  <2> QED
    BY <1>2, <1>7, <2>2, <2>3
<1>11. Settles(ss, st, end, A, X, o, r)
  BY <1>6, <1>7, <1>8, <1>9, <1>10 DEF Settles
<1> QED
  BY <1>11

\* The files W are those that the backups of a rename make, written by the steps ws.
Backed(reps, ws, W) ==
    /\ ws \in Seq(StepType) /\ Silent(ws) /\ DOMAIN ws = DOMAIN reps
    /\ W \in [Paths -> Contents \cup {None}]
    /\ \A i \in DOMAIN reps : /\ ws[i][1] = "write" /\ ws[i][2] = reps[i].path
                              /\ ws[i][3] = reps[i].backup /\ W[reps[i].path] = reps[i].backup
                              /\ reps[i].path \in Paths /\ reps[i].backup \in Contents
    /\ \A x \in Paths : (\A i \in DOMAIN reps : reps[i].path # x) => W[x] = files[x]

\* The writes of an undo make the files that AfterBackups says.
LEMMA BackupsAre ==
    ASSUME IInv, NEW r \in ReceiptType, Sensible(r), r.op = "rename",
           NEW ws, ws = Writes(r.repaired, LAMBDA b : b.backup), NEW W, W = AfterBackups(r)
    PROVE  Backed(r.repaired, ws, W)
<1>0. files \in [Paths -> Contents \cup {None}]
  BY DEF IInv, TypeInv
<1>1. PICK reps \in Seq(Backup) : reps = r.repaired
  BY DEF ReceiptType
<1>2. \A i, j \in DOMAIN reps : reps[i].path = reps[j].path => i = j
  BY <1>1 DEF Sensible
<1>3. ws = [i \in DOMAIN reps |-> <<"write", reps[i].path, reps[i].backup>>]
  BY <1>1 DEF Writes
<1>4. PICK n \in Nat : n = Len(reps) /\ DOMAIN reps = 1 .. n /\ \A i \in 1 .. n : reps[i] \in Backup
  BY <1>1
<1>5. \A i \in 1 .. n : reps[i].path \in Paths /\ reps[i].backup \in Contents
  BY <1>4 DEF Backup
<1>6. /\ ws \in Seq(StepType) /\ DOMAIN ws = 1 .. n
      /\ \A i \in 1 .. n : /\ ws[i][1] = "write" /\ ws[i][2] = reps[i].path
                           /\ ws[i][3] = reps[i].backup
  <2>1. \A i \in 1 .. n : ws[i] \in StepType
    BY <1>3, <1>4, <1>5, StepTypes
  <2>2. ws \in [1 .. n -> StepType]
    BY <1>3, <1>4, <2>1
  <2>3. ws \in Seq(StepType) /\ DOMAIN ws = 1 .. n
    BY <1>4, <2>2
  <2> QED
    BY <1>3, <1>4, <2>3
<1>7. Silent(ws)
  BY <1>6 DEF Silent
<1>8. \A x \in Paths : W[x] = IF \E i \in DOMAIN reps : reps[i].path = x
                              THEN (CHOOSE b \in Range(reps) : b.path = x).backup
                              ELSE files[x]
  BY <1>1 DEF AfterBackups
<1>9. ASSUME NEW i \in 1 .. n
      PROVE  W[reps[i].path] = reps[i].backup
  <2>1. PICK x \in Paths : x = reps[i].path
    BY <1>5
  <2>2. reps[i] \in Range(reps) /\ \A b \in Range(reps) : \E j \in 1 .. n : b = reps[j]
    BY <1>4 DEF Range
  <2>3. \A b \in Range(reps) : b.path = x => b = reps[i]
    BY <1>2, <1>4, <2>1, <2>2
  <2>4. (CHOOSE b \in Range(reps) : b.path = x) = reps[i]
    BY <2>1, <2>2, <2>3
  <2>5. \E j \in DOMAIN reps : reps[j].path = x
    BY <1>4, <2>1
  <2>6. W[x] = (CHOOSE b \in Range(reps) : b.path = x).backup
    BY <1>8, <2>5
  <2> QED
    BY <2>1, <2>4, <2>6
<1>10. \A x \in Paths : (\A i \in 1 .. n : reps[i].path # x) => W[x] = files[x]
  BY <1>4, <1>8
<1>11. W \in [Paths -> Contents \cup {None}]
  <2>1. PICK G : G = [x \in Paths |-> W[x]]
    OBVIOUS
  <2>2. W = G
    BY <2>1 DEF AfterBackups
  <2>3. \A x \in Paths : W[x] \in Contents \cup {None}
    BY <1>0, <1>5, <1>9, <1>10
  <2> QED
    BY <2>1, <2>2, <2>3
<1> QED
  BY <1>1, <1>4, <1>5, <1>6, <1>7, <1>9, <1>10, <1>11 DEF Backed

\* Every document is what it was, in the files W.
KeepsWhat(W) == \A x \in Paths : files[x] # None => W[x] # None /\ W[x].what = files[x].what

\* An undo that replaces nothing leaves every document what it is.
LEMMA BackupsKeep ==
    ASSUME NEW r \in ReceiptType, NEW ws, NEW W, Backed(r.repaired, ws, W), Replaced(r) = {},
           None \notin Contents
    PROVE  KeepsWhat(W)
<1> SUFFICES ASSUME NEW x \in Paths, files[x] # None
             PROVE  W[x] # None /\ W[x].what = files[x].what
  BY DEF KeepsWhat
<1>1. CASE \A i \in DOMAIN r.repaired : r.repaired[i].path # x
  BY <1>1 DEF Backed
<1>2. CASE \E i \in DOMAIN r.repaired : r.repaired[i].path = x
  <2>1. PICK i \in DOMAIN r.repaired : r.repaired[i].path = x
    BY <1>2
  <2>2. W[x] = r.repaired[i].backup /\ r.repaired[i].backup \in Contents
    BY <2>1 DEF Backed
  <2>3. r.repaired[i] \in Range(r.repaired)
    BY <2>1 DEF Range
  <2>4. files[x].what = r.repaired[i].backup.what
    BY <2>1, <2>3 DEF Replaced
  <2> QED
    BY <2>2, <2>4
<1> QED
  BY <1>1, <1>2

\* The backups written, and the file back.
LEMMA BackLeads ==
    ASSUME IInv, NEW st, NEW r, NEW met, NEW A, NEW X, NEW o, UndoState(st, r, met, A, X, o),
           r.op = "rename", NEW ws, NEW W, Backed(r.repaired, ws, W),
           NEW mv, mv = IF W[r.after] = None THEN <<>> ELSE << <<"move", r.after, r.before>> >>,
           NEW F, F = IF W[r.after] = None THEN W ELSE Moved(W, r.after, r.before),
           NEW two, two = WithFiles(st, F)
    PROVE  /\ mv \in Seq(StepType) /\ Silent(mv) /\ two \in State /\ Sound(two, X, o)
           /\ Leads(ws \o mv, st, two, X, o)
<1>0. /\ st \in State /\ Sound(st, X, o) /\ st.files = files
      /\ st.docs = docs /\ st.registry = docs /\ X = A \cup met
      /\ r \in ReceiptType /\ r.before \in Paths /\ r.after \in Paths
      /\ ws \in Seq(StepType) /\ W \in [Paths -> Contents \cup {None}]
      /\ DOMAIN ws = DOMAIN r.repaired
  BY DEF UndoState, Sensible, Backed
<1>1. PICK p \in Paths, q \in Paths : p = r.before /\ q = r.after
  BY <1>0
<1>2. AllSame(st, ws, X, o)
  <2> SUFFICES ASSUME NEW i \in DOMAIN ws
               PROVE  ws[i][1] = "write" /\ Same(st, ws[i][2], ws[i][3], X, o)
    BY DEF AllSame
  <2>1. /\ ws[i][1] = "write" /\ ws[i][2] = r.repaired[i].path /\ ws[i][3] = r.repaired[i].backup
        /\ r.repaired[i] \in Range(r.repaired)
    BY <1>0 DEF Backed, Range
  <2>2. PICK x, c : x = r.repaired[i].path /\ c = r.repaired[i].backup
    OBVIOUS
  <2>3. ASSUME NEW e \in Entry, e \in docs, Right(files, e, o), e.path = x
        PROVE  e.id \in X \/ c.what = o[e.id]
    <3>1. files[x] # None /\ files[x].what = o[e.id]
      BY <2>3 DEF Right
    <3>2. files[x].what = c.what \/ x \in Replaced(r)
      BY <2>1, <2>2, <3>1 DEF Replaced
    <3>3. x \in Replaced(r) => e.id \in met
      BY <2>3 DEF UndoState
    <3> QED
      BY <1>0, <3>1, <3>2, <3>3
  <2>4. Same(st, x, c, X, o)
    BY <1>0, <2>3 DEF Same
  <2> QED
    BY <2>1, <2>2, <2>4
<1>3. Written(st.files, ws, W)
  <2>1. \A i \in DOMAIN ws : W[ws[i][2]] = ws[i][3] /\ ws[i][2] = r.repaired[i].path
    BY <1>0 DEF Backed
  <2>2. ASSUME NEW x \in Paths, \A i \in DOMAIN ws : ws[i][2] # x
        PROVE  W[x] = st.files[x]
    <3>1. \A i \in DOMAIN r.repaired : r.repaired[i].path # x
      BY <1>0, <2>1, <2>2
    <3> QED
      BY <1>0, <3>1 DEF Backed
  <2> QED
    BY <2>1, <2>2 DEF Written
<1>4. PICK one : one = WithFiles(st, W)
  OBVIOUS
<1>5. one \in State /\ Sound(one, X, o) /\ Leads(ws, st, one, X, o)
  BY <1>0, <1>2, <1>3, <1>4, WritesLead
<1>6. one.files = W /\ one.docs = docs /\ one.registry = docs
  BY <1>0, <1>4 DEF WithFiles
<1>7. two = WithFiles(one, F)
  BY <1>4 DEF WithFiles
<1>8. CASE W[q] = None
  <2>1. mv = <<>> /\ F = W
    BY <1>1, <1>8
  <2>2. two = one
    BY <1>4, <2>1
  <2>3. Silent(mv) /\ mv \in Seq(StepType)
    BY <2>1, SilentSteps
  <2>4. ws \o mv = ws
    BY <1>0, <2>1
  <2> QED
    BY <1>5, <2>2, <2>3, <2>4
<1>9. CASE W[q] # None
  <2>1. PICK s \in StepType : s = <<"move", q, p>> /\ s[1] = "move"
    BY StepTypes
  <2>2. mv = <<s>> /\ F = Moved(W, q, p) /\ mv \in Seq(StepType)
    BY <1>1, <1>9, <2>1
  <2>3. Silent(mv)
    BY <2>1, <2>2, SilentSteps
  <2>4. Free(one, {q, p}, X, o)
    <3>1. \A e \in docs : e.path \in {q, p} => e.id \in X
      BY <1>0, <1>1 DEF UndoState
    <3> QED
      BY <1>6, <3>1 DEF Free
  <2>5. F = Moved(one.files, q, p)
    BY <1>6, <2>2
  <2>6. two \in State /\ Sound(two, X, o) /\ Leads(mv, one, two, X, o)
    BY <1>5, <1>7, <2>1, <2>2, <2>4, <2>5, MoveLeads
  <2> QED
    BY <1>0, <1>5, <2>2, <2>3, <2>6, Then
<1> QED
  BY <1>8, <1>9

\* Entries with an id each are finitely many.
LEMMA FiniteEntries ==
    ASSUME IInv, docs # Missing
    PROVE  \A ds \in SUBSET docs : IsFiniteSet(ds)
<1>1. Distinct(docs) /\ Len(owner) \in Nat /\ \A e \in docs : e.id \in 1 .. Len(owner)
  BY OpenEntries DEF IInv, TypeInv
<1>2. PICK f : f = [e \in docs |-> e.id]
  OBVIOUS
<1>3. f \in [docs -> 1 .. Len(owner)]
  BY <1>1, <1>2
<1>4. \A a, b \in docs : f[a] = f[b] => a = b
  BY <1>1, <1>2 DEF Distinct
<1>5. f \in Injection(docs, 1 .. Len(owner))
  BY <1>3, <1>4 DEF Injection, IsInjective
<1>6. IsFiniteSet(1 .. Len(owner))
  BY <1>1, FS_Interval
<1>7. IsFiniteSet(docs)
  BY <1>5, <1>6, FS_Injection
<1> QED
  BY <1>7, FS_Subset

\* In order, an undo of a rename finds the entry alone at the path it was given.
Alone(r, c) ==
    /\ c \in docs /\ c.id = r.id /\ c.path = r.after
    /\ \A e \in docs : e.id = r.id => e = c
    /\ \A e \in docs : e # c => e.path # r.before /\ e.path # r.after

\* So InOrder says, by the cardinality of what is at the path.
LEMMA InOrderAlone ==
    ASSUME IInv, docs # Missing, NEW r, r.op = "rename", InOrder(r)
    PROVE  /\ \E c \in docs : Alone(r, c)
           /\ files[r.after] # None /\ files[r.after].what = owner[r.id]
<1>1. /\ Registered(docs, r.id) /\ EntryOf(docs, r.id).path = r.after
      /\ files[r.after] # None /\ files[r.after].what = owner[r.id]
      /\ Cardinality(At(docs, r.after)) = 1 /\ At(docs, r.before) = {}
  BY DEF InOrder
<1>2. PICK c \in docs : c.id = r.id
  BY <1>1 DEF Registered
<1>3. \A e \in docs : e.id = r.id => e = c
  BY <1>2, OpenEntries DEF Distinct
<1>4. EntryOf(docs, r.id) = c
  BY <1>2, <1>3 DEF EntryOf
<1>5. c \in At(docs, r.after)
  BY <1>1, <1>2, <1>4 DEF At
<1>6. At(docs, r.after) \in SUBSET docs
  BY DEF At
<1>7. IsFiniteSet(At(docs, r.after))
  BY <1>6, FiniteEntries
<1>8. PICK x : At(docs, r.after) = {x}
  BY <1>1, <1>7, FS_Singleton
<1>9. At(docs, r.after) = {c}
  BY <1>5, <1>8
<1>10. ASSUME NEW e \in docs, e # c
       PROVE  e.path # r.before /\ e.path # r.after
  BY <1>1, <1>9, <1>10 DEF At
<1>11. Alone(r, c)
  BY <1>1, <1>2, <1>3, <1>4, <1>10 DEF Alone
<1> QED
  BY <1>1, <1>11

\* The entries with the one of the id given its path back.
Back(r) == {IF e.id = r.id THEN [e EXCEPT !.path = r.before] ELSE e : e \in docs}

\* Which entries these are.
LEMMA BackIs ==
    ASSUME IInv, docs # Missing, NEW r \in ReceiptType, r.before \in Paths
    PROVE  /\ Back(r) \in SUBSET Entry
           /\ \A d \in Back(r) : \/ d \in docs /\ d.id # r.id
                                 \/ d.id = r.id /\ d.path = r.before
           /\ \A d \in docs : d.id # r.id => d \in Back(r)
           /\ \A d \in docs : d.id = r.id => [d EXCEPT !.path = r.before] \in Back(r)
           /\ \A d \in Back(r) :
                 d.id = r.id => \E e \in docs : e.id = r.id /\ d = [e EXCEPT !.path = r.before]
<1>1. docs \in SUBSET Entry
  BY OpenEntries
<1>2. \A e \in Entry : /\ [e EXCEPT !.path = r.before] \in Entry
                       /\ [e EXCEPT !.path = r.before].id = e.id
                       /\ [e EXCEPT !.path = r.before].path = r.before
  BY DEF Entry
<1>3. \A e \in docs : e \in Entry
  BY <1>1
<1>4. \A d : d \in Back(r) <=> \/ d \in docs /\ d.id # r.id
                               \/ \E e \in docs : e.id = r.id /\ d = [e EXCEPT !.path = r.before]
  BY DEF Back
<1>5. ASSUME NEW d, d \in Back(r)
      PROVE  /\ d \in Entry
             /\ \/ d \in docs /\ d.id # r.id
                \/ d.id = r.id /\ d.path = r.before
             /\ d.id = r.id => \E e \in docs : e.id = r.id /\ d = [e EXCEPT !.path = r.before]
  <2>1. CASE d \in docs /\ d.id # r.id
    BY <1>3, <2>1
  <2>2. CASE \E e \in docs : e.id = r.id /\ d = [e EXCEPT !.path = r.before]
    BY <1>2, <1>3, <2>2
  <2> QED
    BY <1>4, <1>5, <2>1, <2>2
<1>6. \A d \in docs : d.id # r.id => d \in Back(r)
  BY <1>4
<1>7. \A d \in docs : d.id = r.id => [d EXCEPT !.path = r.before] \in Back(r)
  BY <1>4
<1> QED
  BY <1>5, <1>6, <1>7

\* The state that a rename left, with the backups written: nothing but the move is left of it.
LEMMA RenameBacks ==
    ASSUME IInv, docs # Missing, NEW r \in ReceiptType, r.op = "rename", Sensible(r),
           NEW st, st.files = files, st.docs = docs, RenameMatches(st, r, astray),
           NEW ws, NEW W, Backed(r.repaired, ws, W),
           NEW F, F = IF W[r.after] = None THEN W ELSE Moved(W, r.after, r.before)
    PROVE  F = r.then.files /\ Back(r) = r.then.docs /\ Registered(docs, r.id)
<1>1. PICK p \in Paths, q \in Paths : p = r.before /\ q = r.after /\ p # q
  BY DEF Sensible
<1>2. PICK fs \in [Paths -> Contents \cup {None}] : fs = r.then.files
  BY DEF ReceiptType
<1>3. PICK ds \in SUBSET Entry : ds = r.then.docs
  BY DEF ReceiptType
<1>4. PICK M : M = Moved(fs, p, q)
  OBVIOUS
<1>5. PICK S : S = RepairedBy(r)
  OBVIOUS
<1>6. /\ fs[p] # None /\ fs[q] = None
      /\ \A x \in Paths : files[x] = IF x \in S THEN Repointed(M[x], q) ELSE M[x]
      /\ \A i \in DOMAIN r.repaired : /\ r.repaired[i].path \in S
                                      /\ r.repaired[i].backup = M[r.repaired[i].path]
      /\ \A x \in S : \E i \in DOMAIN r.repaired : r.repaired[i].path = x
  <2>1. M = MovedBy(r)
    BY <1>1, <1>2, <1>4 DEF MovedBy
  <2> QED
    BY <1>1, <1>2, <1>5, <2>1 DEF RenameMatches
<1>7. \A x \in Paths : W[x] = M[x]
  <2> SUFFICES ASSUME NEW x \in Paths
               PROVE  W[x] = M[x]
    OBVIOUS
  <2>1. CASE \E i \in DOMAIN r.repaired : r.repaired[i].path = x
    <3>1. PICK i \in DOMAIN r.repaired : r.repaired[i].path = x
      BY <2>1
    <3> QED
      BY <1>6, <3>1 DEF Backed
  <2>2. CASE \A i \in DOMAIN r.repaired : r.repaired[i].path # x
    <3>1. x \notin S /\ W[x] = files[x]
      BY <1>6, <2>2 DEF Backed
    <3> QED
      BY <1>6, <3>1
  <2> QED
    BY <2>1, <2>2
<1>8. M[q] = fs[p] /\ M[p] = None /\ \A x \in Paths \ {p, q} : M[x] = fs[x]
  BY <1>1, <1>4 DEF Moved
<1>9. W \in [Paths -> Contents \cup {None}]
  BY DEF Backed
<1>10. F = Moved(W, q, p)
  BY <1>1, <1>6, <1>7, <1>8
<1>11. F \in [Paths -> Contents \cup {None}]
  BY <1>1, <1>9, <1>10 DEF Moved
<1>12. \A x \in Paths : F[x] = fs[x]
  <2>1. F[p] = W[q] /\ F[q] = None /\ \A x \in Paths \ {p, q} : F[x] = W[x]
    BY <1>1, <1>9, <1>10 DEF Moved
  <2> QED
    BY <1>1, <1>6, <1>7, <1>8, <2>1
<1>13. F = fs
  BY <1>11, <1>12
<1>14. PICK c, c2 : c \in Entry /\ c = r.entry /\ c2 = [c EXCEPT !.path = q] /\ c \in ds
  BY <1>3 DEF RenameMatches
<1>15. /\ c.id = r.id /\ c.path = p /\ \A e \in ds : e.id = r.id => e = c
       /\ docs = (ds \ {c}) \cup {c2}
  BY <1>1, <1>3, <1>14 DEF RenameMatches
<1>16. c2.id = r.id /\ [c2 EXCEPT !.path = p] = c
  BY <1>14, <1>15 DEF Entry
<1>17. Registered(docs, r.id)
  BY <1>15, <1>16 DEF Registered
<1>18. Back(r) = ds
  <2>1. ASSUME NEW d \in Back(r)
        PROVE  d \in ds
    <3>1. CASE d \in docs /\ d.id # r.id
      BY <1>15, <1>16, <3>1
    <3>2. CASE d.id = r.id
      <4>1. PICK e \in docs : e.id = r.id /\ d = [e EXCEPT !.path = p]
        BY <1>1, <3>2, BackIs
      <4>2. e = c2
        BY <1>15, <4>1
      <4> QED
        BY <1>14, <1>16, <4>1, <4>2
    <3> QED
      BY <1>1, <3>1, <3>2, BackIs
  <2>2. ASSUME NEW d \in ds
        PROVE  d \in Back(r)
    <3>1. CASE d = c
      <4>1. c2 \in docs
        BY <1>15
      <4> QED
        BY <1>1, <1>16, <3>1, <4>1, BackIs
    <3>2. CASE d # c
      <4>1. d \in docs /\ d.id # r.id
        BY <1>15, <3>2
      <4> QED
        BY <1>1, <4>1, BackIs
    <3> QED
      BY <3>1, <3>2
  <2> QED
    BY <2>1, <2>2
<1> QED
  BY <1>2, <1>3, <1>13, <1>17, <1>18

\* The undo of a rename: the replaced bytes back, the file back, the entry back.
LEMMA UndoRenameLeads ==
    ASSUME IInv, NEW st, NEW r, NEW met, NEW A, NEW X, NEW o, UndoState(st, r, met, A, X, o),
           r.op = "rename", NEW ws, Backed(r.repaired, ws, AfterBackups(r)),
           NEW ss, ss = ws \o UndoRename(r)
    PROVE  \E end : Settles(ss, st, end, A, X, o, r)
<1>0. /\ st \in State /\ Sound(st, A, o) /\ Sound(st, X, o) /\ st.files = files
      /\ st.stored = stored /\ st.manifest = manifest
      /\ st.docs = docs /\ st.registry = docs /\ X = A \cup met /\ r.id \in met
      /\ r \in ReceiptType /\ Sensible(r) /\ docs # Missing /\ docs \in SUBSET Entry
      /\ o = owner /\ RightAll(files, docs, astray, o)
      /\ None \notin Contents
  BY LibraryConstants DEF UndoState, LibraryConstants
<1>1. PICK p \in Paths, q \in Paths : p = r.before /\ q = r.after /\ p # q
  BY <1>0 DEF Sensible
<1>2. PICK W : W = AfterBackups(r)
  OBVIOUS
<1>3. Backed(r.repaired, ws, W)
  BY <1>2
<1>4. PICK mv : mv = IF W[r.after] = None THEN <<>> ELSE << <<"move", r.after, r.before>> >>
  OBVIOUS
<1>5. PICK F : F = IF W[r.after] = None THEN W ELSE Moved(W, r.after, r.before)
  OBVIOUS
<1>6. PICK two : two = WithFiles(st, F)
  OBVIOUS
<1>7. /\ mv \in Seq(StepType) /\ Silent(mv) /\ two \in State /\ Sound(two, X, o)
      /\ Leads(ws \o mv, st, two, X, o)
  BY <1>3, <1>4, <1>5, <1>6, BackLeads
<1>8. PICK a : a = ws \o mv
  OBVIOUS
<1>9. a \in Seq(StepType) /\ Silent(a) /\ ws \in Seq(StepType)
  <2>1. ws \in Seq(StepType) /\ Silent(ws)
    BY <1>3 DEF Backed
  <2> QED
    BY <1>7, <1>8, <2>1, SilentBoth
<1>10. /\ two.files = F /\ two.docs = docs /\ two.registry = docs /\ two.stored = stored
       /\ two.manifest = manifest
  BY <1>0, <1>6 DEF WithFiles
<1>11. PICK ds : ds = Back(r)
  OBVIOUS
<1>12. /\ ds \in SUBSET Entry
       /\ \A d \in ds : \/ d \in docs /\ d.id # r.id
                        \/ d.id = r.id /\ d.path = p
  BY <1>0, <1>1, <1>11, BackIs
<1>13. PICK b : b = IF ~Registered(docs, r.id) THEN <<>> ELSE SaveRegistry(ds)
  OBVIOUS
<1>14. UndoRename(r) = mv \o b
  BY <1>2, <1>4, <1>11, <1>13 DEF UndoRename, Back
<1>15. RightAll(two.files, ds, X, o)
  <2>1. RightAll(F, docs, X, o)
    BY <1>7, <1>10 DEF Sound, RightAll
  <2> QED
    BY <1>0, <1>10, <1>12, <2>1 DEF RightAll
<1>16. PICK end : end = IF Registered(docs, r.id) THEN WithEntries(two, ds, ds) ELSE two
  OBVIOUS
<1>17. /\ end \in State /\ Sound(end, X, o) /\ b \in Seq(StepType) /\ Leads(b, two, end, X, o)
       /\ Silent(b) /\ end.docs = end.registry
  <2>1. CASE Registered(docs, r.id)
    <3>1. b = SaveRegistry(ds) /\ end = WithEntries(two, ds, ds)
      BY <1>13, <1>16, <2>1
    <3>2. end \in State /\ Sound(end, X, o) /\ b \in Seq(StepType) /\ Leads(b, two, end, X, o)
      BY <1>7, <1>12, <1>15, <3>1, SaveRegistryLeads
    <3>3. end.docs = end.registry
      BY <3>1 DEF WithEntries
    <3>4. Silent(b)
      BY <1>12, <3>1, SilentSteps
    <3> QED
      BY <3>2, <3>3, <3>4
  <2>2. CASE ~Registered(docs, r.id)
    <3>1. b = <<>> /\ end = two
      BY <1>13, <1>16, <2>2
    <3>2. Leads(<<>>, two, two, X, o) /\ Silent(<<>>)
      BY <1>7, Stay, SilentSteps
    <3> QED
      BY <1>7, <1>10, <3>1, <3>2
  <2> QED
    BY <2>1, <2>2
<1>18. ss = a \o b
  <2>1. ws \in Seq(StepType) /\ mv \in Seq(StepType) /\ b \in Seq(StepType)
    BY <1>7, <1>9, <1>17
  <2>2. (ws \o mv) \o b = ws \o (mv \o b)
    BY <2>1, Associative
  <2> QED
    BY <1>8, <1>14, <2>2
<1>19. ss \in Seq(StepType) /\ Leads(ss, st, end, X, o) /\ Silent(ss)
  <2>1. Leads(a, st, two, X, o)
    BY <1>7, <1>8
  <2>2. Silent(a \o b)
    BY <1>9, <1>17, SilentBoth
  <2> QED
    BY <1>9, <1>17, <1>18, <2>1, <2>2, Then
<1>20. Sound(end, A, o)
  <2>1. CASE A = X
    BY <1>17, <2>1
  <2>2. CASE A = astray /\ InOrder(r) /\ Replaced(r) = {}
    <3>1. /\ \E c \in docs : Alone(r, c)
          /\ files[q] # None /\ files[q].what = owner[r.id]
      BY <1>0, <1>1, <2>2, InOrderAlone
    <3>2. PICK c \in docs : Alone(r, c)
      BY <3>1
    <3>3. /\ Registered(docs, r.id)
          /\ \A e \in docs : e.id # r.id => e.path # p /\ e.path # q
      BY <1>1, <3>2 DEF Alone, Registered
    <3>4. /\ end.files = F /\ end.docs = ds /\ end.registry = ds /\ end.stored = stored
          /\ end.manifest = manifest
      BY <1>10, <1>16, <3>3 DEF WithEntries
    <3>50. r \in ReceiptType /\ Replaced(r) = {} /\ None \notin Contents
      BY <1>0, <2>2
    <3>51. KeepsWhat(W)
      BY <1>3, <3>50, BackupsKeep
    <3>5. \A x \in Paths : files[x] # None => W[x] # None /\ W[x].what = files[x].what
      BY <3>51 DEF KeepsWhat
    <3>6. W[q] # None /\ W[q].what = owner[r.id]
      BY <3>1, <3>5
    <3>7. F[p] = W[q] /\ \A x \in Paths \ {p, q} : F[x] = W[x]
      <4>1. F = Moved(W, q, p) /\ W \in [Paths -> Contents \cup {None}]
        BY <1>1, <1>3, <1>5, <3>6 DEF Backed
      <4> QED
        BY <1>1, <4>1 DEF Moved
    <3>8. RightAll(F, ds, A, o)
      <4> SUFFICES ASSUME NEW d \in Entry, d \in ds, d.id \notin A
                   PROVE  Right(F, d, o)
        BY DEF RightAll
      <4>1. CASE d \in docs /\ d.id # r.id
        <5>1. d.path \in Paths \ {p, q}
          BY <3>3, <4>1 DEF Entry
        <5>2. Right(files, d, o)
          BY <1>0, <2>2, <4>1 DEF RightAll
        <5>3. F[d.path] # None /\ F[d.path].what = files[d.path].what
          BY <3>5, <3>7, <5>1, <5>2 DEF Right
        <5> QED
          BY <5>2, <5>3 DEF Right
      <4>2. CASE d.id = r.id /\ d.path = p
        BY <1>0, <3>6, <3>7, <4>2 DEF Right
      <4> QED
        BY <1>12, <4>1, <4>2
    <3>9. HeldAll(stored, manifest, A, o)
      BY <1>0 DEF Sound
    <3>10. ds \cup ds = ds
      OBVIOUS
    <3> QED
      BY <3>4, <3>8, <3>9, <3>10 DEF Sound
  <2> QED
    BY <2>1, <2>2 DEF UndoState
<1>21. ASSUME Matches(st, r, astray)
       PROVE  end.files = r.then.files /\ end.docs = r.then.docs
  <2>1. RenameMatches(st, r, astray)
    BY <1>21 DEF Matches
  <2>2. F = r.then.files /\ Back(r) = r.then.docs /\ Registered(docs, r.id)
    BY <1>0, <1>3, <1>5, <2>1, RenameBacks
  <2> QED
    BY <1>10, <1>11, <1>16, <2>2 DEF WithEntries
<1>22. Settles(ss, st, end, A, X, o, r)
  BY <1>17, <1>19, <1>20, <1>21 DEF Settles
<1> QED
  BY <1>22

\* An undo, whatever was done since the operation it undoes.
LEMMA UndoCourse ==
    ASSUME IInv, CourseInv, NEW i \in DOMAIN receipts, UndoDocumentOp(i)
    PROVE  CourseInv'
<1>0. /\ TypeInv /\ DiskInv /\ owner \in Seq(Nat) /\ docs # Missing /\ receipts \in Seq(ReceiptType)
      /\ ReceiptInv
  BY DEF IInv, TypeInv, UndoDocumentOp, CourseInv
<1>1. PICK r \in ReceiptType : r = receipts[i]
  BY <1>0
<1>2. Sensible(r) /\ i \in Nat /\ Placed(r)
  BY <1>0, <1>1 DEF DiskInv, ReceiptInv
<1>3. PICK ws : ws = Writes(r.repaired, LAMBDA b : b.backup)
  OBVIOUS
<1>4. PICK c : c = IF r.op # "rename" \/ Registered(docs, r.id) THEN << <<"undone", i>> >> ELSE <<>>
  OBVIOUS
<1>5. PICK x : x = CASE r.op \in {"create", "import", "duplicate"} -> UndoAdd(r)
                     [] r.op = "rename" -> UndoRename(r)
                     [] r.op = "remove" -> UndoRemove(r)
  OBVIOUS
<1>6. PICK a : a = ws \o x
  OBVIOUS
<1>7. PICK ss : ss = a \o c
  OBVIOUS
<1>8. ss = UndoSteps(i)
  BY <1>1, <1>3, <1>4, <1>5, <1>6, <1>7 DEF UndoSteps
<1>9. PICK met : met = {r.id} \cup {e.id : e \in {e \in docs :
                          e.path \in Replaced(r) \cup {r.before, r.after}}}
  OBVIOUS
<1>10. PICK T : T = {Len(stored) + 1}
  OBVIOUS
<1>11. /\ Begin(met, T, ss) /\ owner' = owner
       /\ astray' = IF InOrder(r) /\ Replaced(r) = {} THEN astray ELSE astray \cup met
       /\ expected' = IF latest = i THEN r.then ELSE None
  BY <1>1, <1>8, <1>9, <1>10 DEF UndoDocumentOp
<1>12. PICK A, o : A = astray' /\ o = owner'
  OBVIOUS
<1>13. PICK X : X = A \cup met
  OBVIOUS
<1>14. PICK st : st = Now
  OBVIOUS
<1>15. UndoState(st, r, met, A, X, o)
  <2>1. /\ <<>> \in Seq(Nat) /\ o = owner \o <<>> /\ o = owner /\ astray \subseteq A /\ A \subseteq X
    BY <1>0, <1>11, <1>12, <1>13
  <2>2. /\ st \in State /\ Sound(st, A, o) /\ Sound(st, X, o) /\ st.files = files
        /\ st.stored = stored /\ st.manifest = manifest /\ st.docs = docs /\ st.registry = docs
        /\ docs \in SUBSET Entry /\ docs # Missing /\ RightAll(files, docs, astray, o)
    BY <1>11, <1>14, <2>1, Beginning
  <2>3. \A e \in docs : e.path \in Replaced(r) \cup {r.before, r.after} => e.id \in met
    BY <1>9
  <2>4. A = X \/ (A = astray /\ InOrder(r) /\ Replaced(r) = {})
    BY <1>11, <1>12, <1>13
  <2> QED
    BY <1>2, <1>9, <1>13, <2>1, <2>2, <2>3, <2>4 DEF UndoState
<1>16. \E end : Settles(a, st, end, A, X, o, r)
  <2>1. ASSUME r.op # "rename"
        PROVE  ws = <<>>
    <3>1. r.repaired = <<>>
      BY <1>2, <2>1 DEF Sensible, ReceiptType
    <3> QED
      BY <1>3, <3>1 DEF Writes
  <2>2. CASE r.op \in {"create", "import", "duplicate"}
    <3>1. x = UndoAdd(r) /\ ws = <<>>
      BY <1>5, <2>1, <2>2
    <3>2. PICK end : Settles(x, st, end, A, X, o, r)
      BY <1>15, <2>2, <3>1, UndoAddLeads
    <3>3. x \in Seq(StepType)
      BY <3>2 DEF Settles
    <3>4. a = x
      BY <1>6, <3>1, <3>3
    <3> QED
      BY <3>2, <3>4
  <2>3. CASE r.op = "remove"
    <3>1. x = UndoRemove(r) /\ ws = <<>>
      BY <1>5, <2>1, <2>3
    <3>2. PICK end : Settles(x, st, end, A, X, o, r)
      BY <1>15, <2>3, <3>1, UndoRemoveLeads
    <3>3. x \in Seq(StepType)
      BY <3>2 DEF Settles
    <3>4. a = x
      BY <1>6, <3>1, <3>3
    <3> QED
      BY <3>2, <3>4
  <2>4. CASE r.op = "rename"
    <3>1. x = UndoRename(r)
      BY <1>5, <2>4
    <3>2. a = ws \o UndoRename(r)
      BY <1>6, <3>1
    <3>3. Backed(r.repaired, ws, AfterBackups(r))
      BY <1>2, <1>3, <2>4, BackupsAre
    <3> QED
      BY <1>15, <2>4, <3>2, <3>3, UndoRenameLeads
  <2>5. r.op \in {"create", "import", "duplicate", "rename", "remove"}
    BY DEF ReceiptType
  <2> QED
    BY <2>2, <2>3, <2>4, <2>5
<1>17. PICK end : Settles(a, st, end, A, X, o, r)
  BY <1>16
<1>18. /\ a \in Seq(StepType) /\ Silent(a) /\ Leads(a, st, end, X, o)
       /\ end \in State /\ Sound(end, X, o) /\ Sound(end, A, o) /\ end.docs = end.registry
       /\ Matches(st, r, astray) => end.files = r.then.files /\ end.docs = r.then.docs
  BY <1>17 DEF Settles
<1>19. c \in Seq(StepType) /\ Silent(c) /\ Leads(c, end, end, X, o)
  <2>1. CASE r.op # "rename" \/ Registered(docs, r.id)
    <3>1. PICK s \in StepType : s = <<"undone", i>> /\ s[1] = "undone"
      BY <1>2, StepTypes
    <3>2. c = <<s>>
      BY <1>4, <2>1, <3>1
    <3> QED
      BY <1>18, <3>1, <3>2, NoteLeads, SilentSteps
  <2>2. CASE ~(r.op # "rename" \/ Registered(docs, r.id))
    <3>1. c = <<>> /\ <<>> \in Seq(StepType)
      BY <1>4, <2>2
    <3> QED
      BY <1>18, <3>1, Stay, SilentSteps
  <2> QED
    BY <2>1, <2>2
<1>20. ss \in Seq(StepType) /\ Silent(ss) /\ Leads(ss, st, end, X, o)
  BY <1>7, <1>18, <1>19, SilentBoth, Then
<1>21. expected' = None \/ (end.files = expected'.files /\ end.docs = expected'.docs)
  <2>1. CASE latest = i
    <3>1. expected' = r.then /\ latest # 0
      <4>1. i # 0
        BY <1>0
      <4> QED
        BY <1>11, <2>1, <4>1
    <3>2. Matches(st, r, astray)
      BY <1>0, <1>1, <1>14, <2>1, <3>1 DEF ReceiptInv
    <3> QED
      BY <1>18, <3>1, <3>2
  <2>2. CASE latest # i
    BY <1>11, <2>2
  <2> QED
    BY <2>1, <2>2
<1>22. Reports(ss, end, astray')
  BY <1>20, ReportNone
<1>23. /\ Leads(ss, Now, end, X, o) /\ Sound(end, astray', o) /\ X = astray' \cup met
  BY <1>12, <1>13, <1>14, <1>18, <1>20
<1> QED
  BY <1>11, <1>12, <1>18, <1>20, <1>21, <1>22, <1>23, BeginCourse

\* Every step keeps the invariant.
LEMMA NextCourse ==
    ASSUME IInv, CourseInv, Next
    PROVE  CourseInv'
<1>0. Names \subseteq Paths /\ Outside \subseteq Paths /\ Inside \subseteq Paths
  BY DEF Paths, Inside
<1>1. CASE Step
  BY <1>1, StepCourse
<1>2. CASE \E p \in Names : CreateManagedDocument(p)
  BY <1>0, <1>2, AddingCourse
<1>3. CASE \E x \in Outside, p \in Names : ImportAsManaged(x, p)
  BY <1>0, <1>3, AddingCourse
<1>4. CASE \E e \in Open, p \in Names \cup Outside : DuplicateDocument(e, p)
  BY <1>0, <1>4, AddingCourse
<1>5. CASE \E x \in Outside : LinkExternal(x)
  BY <1>0, <1>5, LinkCourse
<1>6. CASE \E e \in Open : RemoveReference(e)
  BY <1>6, RemoveCourse
<1>7. CASE ScanAndIndex
  BY <1>7, ScanCourse
<1>8. CASE \E e \in Open, q \in Inside : RenameOrMoveDocument(e, q)
  BY <1>0, <1>8, RenameCourse
<1>9. CASE \E p, q \in Paths, direct \in BOOLEAN : AddReference(p, q, direct)
  BY <1>9, AddReferenceCourse
<1>10. CASE \E e \in Open : DeleteDocumentToTrash(e)
  BY <1>10, DeleteCourse
<1>11. CASE \E t \in Listed : \E dest \in Paths : Restore(t, dest)
  BY <1>11, RestoreCourse
<1>12. CASE \E t \in Listed : PurgeOne(t)
  <2>1. PICK t \in Listed : Purge({t})
    BY <1>12 DEF PurgeOne
  <2>2. {t} \in SUBSET Listed
    OBVIOUS
  <2> QED
    BY <2>1, <2>2, PurgeCourse
<1>13. CASE EmptyTrash
  BY <1>13, PurgeCourse DEF EmptyTrash
<1>14. CASE \E i \in DOMAIN receipts : UndoDocumentOp(i)
  BY <1>14, UndoCourse
<1>15. CASE Crash \/ OpenWorkspace \/ CreateWorkspace
  BY <1>15, RestartCourse
<1>16. CASE SetAside
  BY <1>16, SetAsideCourse
<1> QED
  BY <1>1, <1>2, <1>3, <1>4, <1>5, <1>6, <1>7, <1>8, <1>9, <1>10, <1>11, <1>12, <1>13, <1>14,
     <1>15, <1>16 DEF Next

\* A stuttering step keeps it.
LEMMA StutterCourse ==
    ASSUME IInv, CourseInv, UNCHANGED vars
    PROVE  CourseInv'
<1>1. UNCHANGED <<files, stored, manifest, registry, docs, receipts, job, owner, astray, latest,
                 expected, baks, aside>>
  BY DEF vars, disk, ghosts
<1>2. PICK end : GoesTo(end)
  BY DEF CourseInv
<1>3. Now' = Now
  BY <1>1 DEF Now, Unmoved
<1>4. GoesTo(end)'
  BY <1>1, <1>2, <1>3 DEF GoesTo
<1>5. ReceiptInv'
  BY <1>1, <1>3 DEF CourseInv, ReceiptInv
<1> QED
  BY <1>4, <1>5 DEF CourseInv

\* It holds at the start.
LEMMA InitCourse ==
    ASSUME Init
    PROVE  CourseInv
<1>0. /\ stored = <<>> /\ manifest = Missing /\ registry = {} /\ docs = {} /\ receipts = <<>>
      /\ job = Idle /\ owner = <<>> /\ astray = {} /\ latest = 0 /\ expected = None
      /\ aside = FALSE /\ files \in [Paths -> Contents \cup {None}]
  BY InitHolds DEF Init, IInv, TypeInv
<1>1. job.steps = <<>> /\ job.ids = {} /\ DOMAIN << >> = {} /\ docs # Missing
  BY <1>0 DEF Idle, Missing
<1>2. PICK st : st = Now
  OBVIOUS
<1>3. /\ st.files = files /\ st.stored = <<>> /\ st.manifest = Missing
      /\ st.docs = {} /\ st.registry = {}
  BY <1>0, <1>2 DEF Now, Unmoved
<1>4. st \in State
  BY <1>0, <1>2 DEF Now, State, Unmoved
<1>5. \A t \in Item : t \notin Missing
  BY LibraryConstants DEF LibraryConstants, Missing
<1>6. Sound(st, astray, owner)
  BY <1>3, <1>5 DEF Sound, RightAll, HeldAll
<1>7. Leads(<<>>, st, st, astray, owner)
  BY <1>4, <1>6, Stay
<1>8. astray \cup job.ids = astray
  BY <1>1
<1>9. st.docs = st.registry
  BY <1>3
<1>10. GoesTo(st)
  BY <1>0, <1>1, <1>2, <1>6, <1>7, <1>8, <1>9 DEF GoesTo
<1>11. ReceiptInv
  BY <1>0, <1>1 DEF ReceiptInv
<1> QED
  BY <1>10, <1>11 DEF CourseInv

\* Where the operations lead is an invariant of the library.
LEMMA Courses == Spec => [](IInv /\ CourseInv)
<1>1. Init => IInv /\ CourseInv
  BY InitHolds, InitCourse
<1>2. IInv /\ CourseInv /\ [Next]_vars => (IInv /\ CourseInv)'
  BY NextKeeps, StutterKeeps, NextCourse, StutterCourse
<1> QED
  BY <1>1, <1>2, PTL DEF Spec

\* The stable DocumentId: after every operation, of any sequence of operations, crashes,
\* starts and undos, an entry leads to the document it was registered for, unless its own
\* operation was interrupted or undone out of order, or a crash came between the two renames
\* of a commit at its path.
THEOREM IdsStayStable == Spec => []IdsAreStable
<1>1. IInv /\ CourseInv => IdsAreStable
  <2> SUFFICES ASSUME IInv, CourseInv, Quiet, NEW e \in docs, e.id \notin astray
               PROVE  files[e.path] # None /\ files[e.path].what = owner[e.id]
    BY DEF IdsAreStable
  <2>1. job.steps = <<>> /\ docs # Missing
    BY DEF Quiet, Idle
  <2>2. Sound(Now, astray, owner) /\ Now.files = files /\ Now.docs = docs
    BY <2>1, QuietNow
  <2>3. e \in Entry
    BY <2>1, OpenEntries
  <2> QED
    BY <2>2, <2>3 DEF Sound, RightAll, Right
<1> QED
  BY <1>1, Courses, PTL

\* Undoing the latest operation: when its steps are done every file, every reference and
\* every entry is what the operation found, in memory and in workspace.json.
THEOREM UndoGivesBack == Spec => []UndoRestores
<1>1. IInv /\ CourseInv => UndoRestores
  <2> SUFFICES ASSUME IInv, CourseInv, Quiet, expected # None
               PROVE  files = expected.files /\ docs = expected.docs /\ registry = expected.docs
    BY DEF UndoRestores
  <2>1. job.steps = <<>> /\ docs # Missing
    BY DEF Quiet, Idle
  <2> QED
    BY <2>1, QuietNow
<1> QED
  BY <1>1, Courses, PTL

\* After a rename the direct reference of every other document leads to the document it led
\* to before, but for the ids that an earlier interruption took astray.
THEOREM ReferencesAreFollowed == Spec => []ReferencesFollow
<1>1. IInv /\ CourseInv => ReferencesFollow
  <2> SUFFICES ASSUME IInv, CourseInv, Quiet, latest # 0, NEW r, r = receipts[latest],
                      r.op = "rename", NEW e \in r.then.docs, e.id # r.id, e.id \notin astray,
                      NEW x, x \in Referred(r.then.files, r.then.docs, e), x \notin astray
               PROVE  x \in Referred(files, docs, e)
    BY DEF ReferencesFollow
  <2>1. r \in ReceiptType /\ Sensible(r) /\ Matches(Now, r, astray)
    BY DEF IInv, TypeInv, DiskInv, CourseInv, ReceiptInv
  <2>1a. Now.files = files /\ Now.docs = docs
    <3>1. job.steps = <<>> /\ docs # Missing
      BY DEF Quiet, Idle
    <3> QED
      BY <3>1, QuietNow
  <2>2. PICK p \in Paths, q \in Paths : p = r.before /\ q = r.after /\ p # q
    BY <2>1 DEF Sensible
  <2>3. PICK fs \in [Paths -> Contents \cup {None}] : fs = r.then.files
    BY <2>1 DEF ReceiptType
  <2>4. PICK ds \in SUBSET Entry : ds = r.then.docs
    BY <2>1 DEF ReceiptType
  <2>5. PICK M, S, c : M = MovedBy(r) /\ S = RepairedBy(r) /\ c = r.entry
    OBVIOUS
  <2>6. /\ c \in ds /\ c.id = r.id /\ c.path = p
        /\ \A d \in ds : d.path = p /\ d # c => d.id \in astray
        /\ fs[q] = None
        /\ docs = (ds \ {c}) \cup {[c EXCEPT !.path = q]}
        /\ \A y \in Paths : files[y] = IF y \in S THEN Repointed(M[y], q) ELSE M[y]
    BY <2>1, <2>1a, <2>2, <2>3, <2>4, <2>5 DEF Matches, RenameMatches
  <2>7. \A y \in Paths \ {p, q} : M[y] = fs[y]
    BY <2>2, <2>3, <2>5 DEF MovedBy, Moved
  <2>8. /\ fs[e.path] # None /\ e \in ds /\ fs[e.path].direct
        /\ \E d \in ds : d.path = fs[e.path].ref /\ d.id = x
    BY <2>3, <2>4 DEF Referred, At
  <2>9. PICK d \in ds : d.path = fs[e.path].ref /\ d.id = x
    BY <2>8
  <2>10. e.path \in Paths \ {p, q} /\ fs[e.path] \in Contents
    <3>1. e.path \in Paths
      BY <2>4, <2>8 DEF Entry
    <3>2. e.path # p
      BY <2>6, <2>8
    <3> QED
      BY <2>3, <2>6, <2>8, <3>1, <3>2
  <2>11. CASE fs[e.path].ref = p
    <3>1. d = c
      BY <2>6, <2>9, <2>11
    <3>2. e.path \in S
      BY <2>2, <2>4, <2>5, <2>7, <2>8, <2>10, <2>11 DEF RepairedBy, Referring
    <3>3. files[e.path] = Repointed(fs[e.path], q)
      BY <2>6, <2>7, <2>10, <3>2
    <3>4. files[e.path] # None /\ files[e.path].ref = q /\ files[e.path].direct = TRUE
      <4>1. None \notin Contents
        BY LibraryConstants DEF LibraryConstants
      <4>2. files[e.path] \in Contents /\ files[e.path].ref = q /\ files[e.path].direct = TRUE
        BY <2>10, <3>3 DEF Contents, Repointed
      <4> QED
        BY <4>1, <4>2
    <3>5. [c EXCEPT !.path = q] \in docs /\ [c EXCEPT !.path = q].path = q /\ [c EXCEPT !.path = q].id = x
      BY <2>6, <2>9, <3>1 DEF Entry
    <3>6. PICK n \in docs : n.path = files[e.path].ref /\ n.id = x
      BY <3>4, <3>5
    <3> QED
      BY <3>4, <3>6 DEF Referred, At
  <2>12. CASE fs[e.path].ref # p
    <3>1. e.path \notin S
      <4>1. \A y \in S : M[y].ref = p
        BY <2>2, <2>5 DEF RepairedBy, Referring
      <4> QED
        BY <2>7, <2>10, <2>12, <4>1
    <3>2. files[e.path] = fs[e.path]
      BY <2>6, <2>7, <2>10, <3>1
    <3>3. d \in docs
      BY <2>6, <2>9, <2>12
    <3> QED
      BY <2>8, <2>9, <3>2, <3>3 DEF Referred, At
  <2> QED
    BY <2>11, <2>12
<1> QED
  BY <1>1, Courses, PTL
=============================================================================
