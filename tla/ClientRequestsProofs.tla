------------------------ MODULE ClientRequestsProofs ------------------------
(***************************************************************************)
(* ClientRequests for any calls, batches, answers, profiles and files that *)
(* its assumptions admit.                                                  *)
(*                                                                         *)
(* The invariant has four parts.  RegistryOK and SavedOK: the registry     *)
(* holds profiles under their own names, and a default file that is not    *)
(* torn holds what was saved last.  RequestsOK: the session's headers are  *)
(* a dictionary without case, the program's own dictionary is one of       *)
(* headers, and calls are numbered.  CallsOK: each call was sent as asked  *)
(* and ended honestly, in the state it began in, which may be gone.        *)
(* HistoryOK: the jar holds, of each name, the value of the answer that    *)
(* came last, and the jar each call began under did so at that time.       *)
(*                                                                         *)
(* Most of the work is in the operators: the stages of _prepare_request,   *)
(* the classification of failures by two lists of words, and the merging   *)
(* of cookies, a recursive function whose existence and whose values are   *)
(* proved from the least counterexample.                                   *)
(***************************************************************************)
EXTENDS ClientRequests, FiniteSetTheorems, TLAPS

(* Some element of a set of natural numbers is the least.                  *)
LEMMA Least ==
  ASSUME NEW T \in SUBSET Nat, T # {}
  PROVE  \E i \in T : \A j \in T : i <= j
<1> DEFINE R == {ss \in Nat \X Nat : ss[1] < ss[2]}
<1>1. IsWellFoundedOn(R, Nat)
  BY NatLessThanWellFounded DEF OpToRel
<1>2. PICK t : t \in T
  OBVIOUS
<1>3. \E x \in T : \A y \in T : ~(<<y, x>> \in R)
  <2> HIDE DEF R
  <2> QED  BY <1>1, <1>2, WFMin
<1>4. PICK x \in T : \A y \in T : ~(<<y, x>> \in R)
  BY <1>3
<1>5. ASSUME NEW j \in T PROVE x <= j
  <2>1. <<j, x>> \in Nat \X Nat /\ ~(j < x)
    BY <1>4
  <2> QED  BY <2>1
<1> QED  BY <1>4, <1>5

(* Some element of a bounded set of natural numbers is the greatest.       *)
LEMMA Greatest ==
  ASSUME NEW n \in Nat, NEW T \in SUBSET (1..n), T # {}
  PROVE  \E i \in T : \A j \in T : j <= i
<1> DEFINE U == {k \in Nat : n - k \in T}
<1>1. U # {}
  <2>1. PICK t \in T : TRUE
    OBVIOUS
  <2>2. n - t \in Nat /\ n - (n - t) = t
    BY <2>1
  <2> QED  BY <2>2
<1>2. PICK k \in U : \A j \in U : k <= j
  BY <1>1, Least, U \in SUBSET Nat
<1>3. ASSUME NEW j \in T PROVE j <= n - k
  <2>1. n - j \in Nat /\ n - (n - j) = j
    OBVIOUS
  <2> QED  BY <1>2, <2>1
<1> QED  BY <1>2, <1>3

(* SetToSeq lists each element of a finite set once.                       *)
LEMMA SetToSeqFacts ==
  ASSUME NEW S, IsFiniteSet(S)
  PROVE  /\ SetToSeq(S) \in [1..Cardinality(S) -> S]
         /\ Cardinality(S) \in Nat
         /\ \A x \in S : \E i \in 1..Cardinality(S) : SetToSeq(S)[i] = x
         /\ \A i, j \in 1..Cardinality(S) : SetToSeq(S)[i] = SetToSeq(S)[j] => i = j
<1> DEFINE n == Cardinality(S)
<1>1. n \in Nat /\ ExistsBijection(1..n, S)
  BY FS_CardinalityType
<1>2. PICK f \in [1..n -> S] : IsInjective(f)
  <2>1. PICK f : f \in Bijection(1..n, S)
    BY <1>1 DEF ExistsBijection
  <2>2. f \in [1..n -> S] /\ \A a, b \in 1..n : f[a] = f[b] => a = b
    BY <2>1 DEF Bijection, Injection, Surjection, IsInjective
  <2>3. IsInjective(f)
    BY <2>2 DEF IsInjective
  <2> QED  BY <2>2, <2>3
<1>3. SetToSeq(S) \in [1..n -> S] /\ IsInjective(SetToSeq(S))
  BY <1>2 DEF SetToSeq
<1>4. \A i, j \in 1..n : SetToSeq(S)[i] = SetToSeq(S)[j] => i = j
  BY <1>3 DEF IsInjective
<1>5. SetToSeq(S) \in Injection(1..n, S)
  BY <1>3, <1>4 DEF Injection, IsInjective
<1>6. IsFiniteSet(1..n) /\ Cardinality(1..n) = n
  BY <1>1, FS_Interval
<1>7. SetToSeq(S) \in Surjection(1..n, S)
  BY <1>5, <1>6, FS_Injection
<1> QED  BY <1>1, <1>3, <1>4, <1>7 DEF Surjection

-----------------------------------------------------------------------------
(* The registry and its files.                                             *)

(* What a registry holds, under which names, and what a file holds.        *)
GoodRegistry(r) ==
  /\ IsFiniteSet(DOMAIN r)
  /\ \A n \in DOMAIN r : IsProfile(r[n]) /\ r[n].name = n
GoodItems(items) ==
  /\ items \in Seq(ToSet(items))
  /\ \A p \in ToSet(items) : p = None \/ IsProfile(p)
Names(items, n) == {i \in DOMAIN items : items[i] # None /\ items[i].name = n}

RegistryOK ==
  /\ process \in {"down", "running", "broken"} /\ saving \in BOOLEAN
  /\ registryOps \in 0..MaxRegistryOps
  /\ GoodRegistry(profiles)
  /\ \A a \in DOMAIN exports : IsProfile(exports[a])
  /\ defaultFile.torn \in BOOLEAN /\ GoodItems(defaultFile.items)

(* A file that is not torn holds what was saved last: the entries of each  *)
(* saved name are the saved profile, and there is one.                     *)
SavedOK ==
  ~defaultFile.torn =>
    \A n \in DOMAIN persisted :
      /\ Names(defaultFile.items, n) # {}
      /\ \A i \in Names(defaultFile.items, n) : defaultFile.items[i] = persisted[n]

(* A function with finitely many arguments has finitely many values.       *)
LEMMA ImageIsFinite ==
  ASSUME NEW f, IsFiniteSet(DOMAIN f)
  PROVE  IsFiniteSet({f[x] : x \in DOMAIN f})
<1> DEFINE T == {f[x] : x \in DOMAIN f}
           g == [x \in DOMAIN f |-> f[x]]
<1>1. g \in Surjection(DOMAIN f, T)
  BY DEF Surjection
<1> QED  BY <1>1, FS_Surjection

(* register, profile by profile: the names of the file are all there, each *)
(* with an entry of the file, the others stay as they are.                 *)
LEMMA RegisterManyFacts ==
  ASSUME NEW r, GoodRegistry(r), NEW items, GoodItems(items)
  PROVE  LET after == RegisterMany(r, items) IN
         /\ GoodRegistry(after)
         /\ \A n \in DOMAIN r : Names(items, n) = {} => n \in DOMAIN after /\ after[n] = r[n]
         /\ \A n : Names(items, n) # {} =>
              n \in DOMAIN after /\ \E i \in Names(items, n) : after[n] = items[i]
<1> DEFINE usable == {i \in DOMAIN items : items[i] # None}
           these(n) == {i \in usable : items[i].name = n}
           last(n) == CHOOSE i \in these(n) : \A j \in these(n) : j <= i
           named == {items[i].name : i \in usable}
           new == [n \in named |-> items[last(n)]]
           after == RegisterMany(r, items)
<1>1. Len(items) \in Nat /\ DOMAIN items = 1..Len(items)
  BY DEF GoodItems
<1>2. ASSUME NEW n, Names(items, n) # {} PROVE last(n) \in Names(items, n)
  <2>1. Names(items, n) \in SUBSET (1..Len(items)) /\ these(n) = Names(items, n)
    BY <1>1 DEF Names
  <2>2. \E i \in Names(items, n) : \A j \in Names(items, n) : j <= i
    BY <1>1, <1>2, <2>1, Greatest
  <2> QED  BY <2>1, <2>2
<1>3. \A n : n \in named <=> Names(items, n) # {}
  BY DEF Names
<1>4. after = Over(new, r)
  BY DEF RegisterMany
<1>5. DOMAIN after = named \cup DOMAIN r /\ \A n \in DOMAIN after :
        after[n] = IF n \in named THEN items[last(n)] ELSE r[n]
  BY <1>4 DEF Over
<1> HIDE DEF after, last, new
<1>6. IsFiniteSet(named)
  <2> DEFINE f == [i \in usable |-> items[i].name]
  <2>1. IsFiniteSet(usable)
    BY <1>1, FS_Interval, FS_Subset, 1 \in Int, Len(items) \in Int
  <2>2. IsFiniteSet({f[i] : i \in DOMAIN f})
    BY <2>1, ImageIsFinite, DOMAIN f = usable
  <2>3. {f[i] : i \in DOMAIN f} = named
    OBVIOUS
  <2> QED  BY <2>2, <2>3
<1>7. IsFiniteSet(DOMAIN after)
  <2>1. IsFiniteSet(DOMAIN r)
    BY DEF GoodRegistry
  <2>2. IsFiniteSet(named \cup DOMAIN r)
    BY <2>1, <1>6, FS_Union, Zenon
  <2> QED  BY <2>2, <1>5
<1>8. ASSUME NEW n \in DOMAIN after PROVE IsProfile(after[n]) /\ after[n].name = n
  <2>1. CASE n \in named
    <3>1. last(n) \in Names(items, n)
      BY <2>1, <1>2, <1>3
    <3>2. items[last(n)] # None /\ items[last(n)].name = n /\ items[last(n)] \in ToSet(items)
      BY <3>1 DEF Names, ToSet
    <3> QED  BY <2>1, <3>2, <1>5 DEF GoodItems
  <2>2. CASE n \notin named
    BY <2>2, <1>5 DEF GoodRegistry
  <2> QED  BY <2>1, <2>2
<1>9. ASSUME NEW n, Names(items, n) # {}
      PROVE  n \in DOMAIN after /\ \E i \in Names(items, n) : after[n] = items[i]
  BY <1>9, <1>2, <1>3, <1>5
<1>10. ASSUME NEW n \in DOMAIN r, Names(items, n) = {}
       PROVE  n \in DOMAIN after /\ after[n] = r[n]
  BY <1>10, <1>3, <1>5
<1>11. GoodRegistry(after)
  BY <1>7, <1>8 DEF GoodRegistry
<1> QED  BY <1>9, <1>10, <1>11 DEF after

(* A registry without profiles is good.                                    *)
LEMMA EmptyIsGood == GoodRegistry(Empty)
  BY FS_EmptySet DEF GoodRegistry, Empty

(* save_to_file writes each profile of the registry once.                  *)
LEMMA SavedItemsFacts ==
  ASSUME NEW r, GoodRegistry(r)
  PROVE  /\ GoodItems(SavedItems(r))
         /\ \A n \in DOMAIN r :
              /\ Names(SavedItems(r), n) # {}
              /\ \A i \in Names(SavedItems(r), n) : SavedItems(r)[i] = r[n]
<1> DEFINE S == {r[n] : n \in DOMAIN r}
           items == SavedItems(r)
           N == Cardinality(S)
<1>1. IsFiniteSet(S)
  BY ImageIsFinite DEF GoodRegistry
<1>2. /\ items \in [1..N -> S] /\ N \in Nat
      /\ \A x \in S : \E i \in 1..N : items[i] = x
  BY <1>1, SetToSeqFacts DEF SavedItems
<1> HIDE DEF items, N
<1>3. \A p \in S : IsProfile(p) /\ p # None /\ p.name \in DOMAIN r /\ r[p.name] = p
  BY DEF GoodRegistry, IsProfile
<1>4. GoodItems(items)
  <2>1. ToSet(items) = S
    BY <1>2 DEF ToSet
  <2>2. items \in Seq(S)
    BY <1>2
  <2> QED  BY <2>1, <2>2, <1>3 DEF GoodItems
<1>5. ASSUME NEW n \in DOMAIN r
      PROVE  /\ Names(items, n) # {}
             /\ \A i \in Names(items, n) : items[i] = r[n]
  <2>1. r[n] \in S /\ r[n] # None /\ r[n].name = n
    BY DEF GoodRegistry, IsProfile
  <2>2. PICK i \in 1..N : items[i] = r[n]
    BY <1>2, <2>1
  <2>3. i \in Names(items, n)
    BY <2>1, <2>2, <1>2 DEF Names
  <2>4. ASSUME NEW j \in Names(items, n) PROVE items[j] = r[n]
    BY <1>2, <1>3 DEF Names
  <2> QED  BY <2>3, <2>4
<1> QED  BY <1>4, <1>5 DEF items

(* A file that is loaded leaves a good registry.                           *)
LEMMA LoadedIsGood ==
  ASSUME NEW r, GoodRegistry(r), NEW file, GoodItems(file.items), NEW clear \in BOOLEAN
  PROVE  GoodRegistry(LoadFromFile(r, file, clear))
  BY RegisterManyFacts, EmptyIsGood DEF LoadFromFile

(* The files that the environment names, and the plugins.                  *)
LEMMA NamedFiles ==
  /\ GoodItems(DefaultItems)
  /\ ExtraFile # None => GoodItems(ExtraFile.items)
  /\ GoodItems(FromCaptures)
  /\ GoodItems(SetToSeq(PluginFiles))
<1>1. GoodItems(DefaultItems) /\ GoodItems(FromCaptures) /\ (ExtraFile # None => GoodItems(ExtraFile.items))
  BY FilesAssumption DEF GoodItems
<1>2. GoodItems(SetToSeq(PluginFiles))
  <2> DEFINE items == SetToSeq(PluginFiles)
             N == Cardinality(PluginFiles)
  <2>1. /\ items \in [1..N -> PluginFiles] /\ N \in Nat
        /\ \A x \in PluginFiles : \E i \in 1..N : items[i] = x
    BY FilesAssumption, SetToSeqFacts
  <2> HIDE DEF items, N
  <2>2. ToSet(items) = PluginFiles
    BY <2>1 DEF ToSet
  <2>3. items \in Seq(PluginFiles)
    BY <2>1
  <2>4. \A p \in PluginFiles : p = None \/ IsProfile(p)
    BY FilesAssumption
  <2>5. GoodItems(items)
    BY <2>2, <2>3, <2>4 DEF GoodItems
  <2> QED  BY <2>5 DEF items
<1> QED  BY <1>1, <1>2

(* Before the first import there are no profiles, and no file of them.     *)
LEMMA RegistryInitOK == Init => RegistryOK /\ SavedOK
<1> SUFFICES ASSUME RegistryInit PROVE RegistryOK /\ SavedOK
  BY DEF Init
<1> DEFINE listed == ToSet(DefaultItems) \ {None}
<1>1. RegistryOK
  <2>1. defaultFile.torn = FALSE /\ defaultFile.items = DefaultItems
    BY DEF RegistryInit, File
  <2>2. registryOps \in 0..MaxRegistryOps
    BY FilesAssumption DEF RegistryInit
  <2>3. GoodRegistry(profiles) /\ DOMAIN exports = {}
    BY EmptyIsGood DEF RegistryInit, Empty
  <2> QED  BY <2>1, <2>2, <2>3, NamedFiles DEF RegistryInit, RegistryOK
<1>2. SavedOK
  <2>1. defaultFile.items = DefaultItems
    BY DEF RegistryInit, File
  <2>2. ASSUME NEW n \in DOMAIN persisted
        PROVE  /\ Names(DefaultItems, n) # {}
               /\ \A i \in Names(DefaultItems, n) : DefaultItems[i] = persisted[n]
    <3>1. n \in {p.name : p \in listed} /\ persisted[n] = CHOOSE p \in listed : p.name = n
      BY DEF RegistryInit
    <3>2. persisted[n] \in listed /\ persisted[n].name = n
      BY <3>1
    <3>3. PICK i \in DOMAIN DefaultItems : DefaultItems[i] = persisted[n]
      BY <3>2 DEF ToSet
    <3>4. i \in Names(DefaultItems, n)
      BY <3>2, <3>3 DEF Names
    <3>5. ASSUME NEW j \in Names(DefaultItems, n) PROVE DefaultItems[j] = persisted[n]
      <4>1. DefaultItems[j] \in listed /\ DefaultItems[j].name = n
        BY DEF Names, ToSet
      <4> QED  BY <4>1, <3>2, FilesAssumption
    <3> QED  BY <3>4, <3>5
  <2> QED  BY <2>1, <2>2 DEF SavedOK
<1> QED  BY <1>1, <1>2

(* What the import makes of the files.                                     *)
Builtin == LoadFromFile(Empty, defaultFile, TRUE)
Extra == IF ExtraFile = None THEN Builtin ELSE LoadFromFile(Builtin, ExtraFile, FALSE)
Imported == IF TrackmeFile = None THEN Extra ELSE LoadTrackme(Extra, TrackmeFile)

(* What the import loads, from the package's files and from those the      *)
(* environment names, is good.                                             *)
LEMMA ImportIsGood ==
  ASSUME RegistryOK
  PROVE  GoodRegistry(Builtin) /\ GoodRegistry(Extra) /\ GoodRegistry(Imported)
<1>1. GoodRegistry(Builtin)
  BY LoadedIsGood, EmptyIsGood DEF Builtin, RegistryOK
<1>2. GoodRegistry(Extra)
  BY <1>1, LoadedIsGood, NamedFiles DEF Extra
<1>3. TrackmeFile # None => LoadTrackme(Extra, TrackmeFile) = RegisterMany(Extra, FromCaptures)
  BY DEF LoadTrackme, FromCaptures
<1>4. GoodRegistry(Imported)
  BY <1>2, <1>3, RegisterManyFacts, NamedFiles DEF Imported
<1> QED  BY <1>1, <1>2, <1>4

(* An import that is not stopped by a torn file brings back each saved     *)
(* profile, or a newer one of its name.                                    *)
LEMMA ImportRestores ==
  ASSUME RegistryOK, SavedOK, ~defaultFile.torn, NEW n \in DOMAIN persisted
  PROVE  n \in DOMAIN Imported /\ Imported[n] \in {persisted[n]} \cup Newer
<1>1. GoodRegistry(Builtin) /\ GoodRegistry(Extra) /\ GoodRegistry(Imported)
  BY ImportIsGood
<1>2. n \in DOMAIN Builtin /\ Builtin[n] = persisted[n]
  <2>1. Builtin = RegisterMany(Empty, defaultFile.items)
    BY DEF Builtin, LoadFromFile
  <2>2. GoodItems(defaultFile.items)
    BY DEF RegistryOK
  <2>3. /\ Names(defaultFile.items, n) # {}
        /\ \A i \in Names(defaultFile.items, n) : defaultFile.items[i] = persisted[n]
    BY DEF SavedOK
  <2> QED  BY <2>1, <2>2, <2>3, RegisterManyFacts, EmptyIsGood
<1>3. n \in DOMAIN Extra /\ Extra[n] \in {persisted[n]} \cup Newer
  <2>1. CASE ExtraFile = None \/ ExtraFile.torn
    BY <1>2, <2>1 DEF Extra, LoadFromFile
  <2>2. CASE ExtraFile # None /\ ~ExtraFile.torn
    <3>1. Extra = RegisterMany(Builtin, ExtraFile.items) /\ GoodItems(ExtraFile.items)
      BY <2>2, NamedFiles DEF Extra, LoadFromFile
    <3>2. CASE Names(ExtraFile.items, n) = {}
      BY <3>1, <3>2, <1>1, <1>2, RegisterManyFacts
    <3>3. CASE Names(ExtraFile.items, n) # {}
      <4>1. n \in DOMAIN Extra /\ \E i \in Names(ExtraFile.items, n) : Extra[n] = ExtraFile.items[i]
        BY <3>1, <3>3, <1>1, RegisterManyFacts
      <4> QED  BY <4>1, <2>2 DEF Names, Newer, ToSet
    <3> QED  BY <3>2, <3>3
  <2> QED  BY <2>1, <2>2
<1>4. CASE TrackmeFile = None
  BY <1>3, <1>4 DEF Imported
<1>5. CASE TrackmeFile # None
  <2>1. Imported = RegisterMany(Extra, FromCaptures) /\ GoodItems(FromCaptures)
    BY <1>5, NamedFiles DEF Imported, LoadTrackme, FromCaptures
  <2>2. CASE Names(FromCaptures, n) = {}
    BY <2>1, <2>2, <1>1, <1>3, RegisterManyFacts
  <2>3. CASE Names(FromCaptures, n) # {}
    <3>1. n \in DOMAIN Imported /\ \E i \in Names(FromCaptures, n) : Imported[n] = FromCaptures[i]
      BY <2>1, <2>3, <1>1, RegisterManyFacts
    <3>2. PICK i \in DOMAIN FromCaptures : Imported[n] = FromCaptures[i] /\ FromCaptures[i] # None
      BY <3>1 DEF Names
    <3>3. i \in DOMAIN TrackmeFile /\ FromCaptures[i] = NormalizeTrackme(TrackmeFile[i])
      BY <3>2, <1>5 DEF FromCaptures
    <3>4. FromCaptures[i] \in Newer
      BY <3>2, <3>3, <1>5 DEF Newer, ToSet
    <3> QED  BY <3>1, <3>2, <3>4
  <2> QED  BY <2>2, <2>3
<1> QED  BY <1>4, <1>5

(* No step of the registry, and none of a call, spoils the registry or the *)
(* saved file.                                                             *)
LEMMA RegistryStep ==
  ASSUME RegistryOK, SavedOK, [Next]_vars
  PROVE  RegistryOK' /\ SavedOK'
<1>1. CASE UNCHANGED registryVars
  BY <1>1 DEF registryVars, RegistryOK, SavedOK, GoodRegistry, GoodItems, Names
<1>2. CASE Import
  <2>1. CASE defaultFile.torn
    BY <1>2, <2>1 DEF Import, RegistryOK, SavedOK
  <2>2. CASE ~defaultFile.torn
    <3>1. /\ process' = "running" /\ profiles' = Imported /\ exports' = Exports(Imported)
          /\ saving' = (TrackmeFile # None)
          /\ defaultFile' = IF TrackmeFile # None THEN TornFile ELSE defaultFile
          /\ UNCHANGED <<registryOps, persisted>>
      BY <1>2, <2>2 DEF Import, Imported, Extra, Builtin
    <3>2. GoodRegistry(Imported)
      BY ImportIsGood
    <3>3. \A a \in DOMAIN exports' : IsProfile(exports'[a])
      BY <3>1, <3>2 DEF Exports, GoodRegistry, Has
    <3>4. defaultFile'.torn \in BOOLEAN /\ GoodItems(defaultFile'.items)
      <4>1. GoodItems(<< >>)
        BY DEF GoodItems, ToSet
      <4>2. TornFile.torn = TRUE /\ TornFile.items = << >>
        BY DEF TornFile
      <4> QED  BY <3>1, <4>1, <4>2 DEF RegistryOK
    <3>5. SavedOK'
      BY <3>1 DEF SavedOK, TornFile, Names
    <3> QED  BY <3>1, <3>2, <3>3, <3>4, <3>5 DEF RegistryOK, GoodRegistry, GoodItems
  <2> QED  BY <2>1, <2>2
<1>3. ASSUME RegistryCall, GoodRegistry(profiles'), UNCHANGED <<exports, defaultFile, saving, process, persisted>>
      PROVE  RegistryOK' /\ SavedOK'
  <2>1. registryOps' \in 0..MaxRegistryOps
    BY <1>3, FilesAssumption DEF RegistryCall, RegistryOK
  <2> QED  BY <1>3, <2>1 DEF RegistryOK, SavedOK, GoodRegistry, GoodItems, Names
<1>4. ASSUME NEW p \in Profiles, Register(p) PROVE RegistryOK' /\ SavedOK'
  <2>1. IsFiniteSet(DOMAIN profiles \cup {p.name})
    BY FS_AddElement DEF RegistryOK, GoodRegistry
  <2>2. GoodRegistry(profiles')
    BY <1>4, <2>1, FilesAssumption DEF Register, Put, RegistryOK, GoodRegistry
  <2> QED  BY <1>3, <1>4, <2>2 DEF Register
<1>5. ASSUME NEW n, Unregister(n) PROVE RegistryOK' /\ SavedOK'
  <2>1. IsFiniteSet(DOMAIN profiles \ {n})
    BY FS_RemoveElement DEF RegistryOK, GoodRegistry
  <2>2. GoodRegistry(profiles')
    BY <1>5, <2>1 DEF Unregister, Without, RegistryOK, GoodRegistry
  <2> QED  BY <1>3, <1>5, <2>2 DEF Unregister
<1>6. CASE ClearRegistry
  BY <1>3, <1>6, EmptyIsGood DEF ClearRegistry
<1>7. ASSUME NEW clear \in BOOLEAN, Reload(clear) PROVE RegistryOK' /\ SavedOK'
  <2>1. PICK f \in {defaultFile, ExtraFile} \ {None} : profiles' = LoadFromFile(profiles, f, clear)
    BY <1>7 DEF Reload
  <2>2. GoodItems(f.items)
    BY <2>1, NamedFiles DEF RegistryOK
  <2>3. GoodRegistry(profiles')
    BY <2>1, <2>2, LoadedIsGood DEF RegistryOK
  <2> QED  BY <1>3, <1>7, <2>3 DEF Reload
<1>8. CASE LoadPlugins
  <2>1. GoodRegistry(profiles')
    BY <1>8, NamedFiles, RegisterManyFacts DEF LoadPlugins, LoadDir, RegistryOK
  <2> QED  BY <1>3, <1>8, <2>1 DEF LoadPlugins
<1>9. CASE SaveBegin
  <2>1. registryOps' \in 0..MaxRegistryOps
    BY <1>9, FilesAssumption DEF SaveBegin, RegistryCall, RegistryOK
  <2>2. defaultFile'.torn = TRUE /\ GoodItems(defaultFile'.items)
    BY <1>9 DEF SaveBegin, TornFile, GoodItems, ToSet
  <2> QED  BY <1>9, <2>1, <2>2 DEF SaveBegin, RegistryOK, SavedOK, GoodRegistry, GoodItems
<1>10. CASE SaveEnd
  <2>1. defaultFile'.torn = FALSE /\ defaultFile'.items = SavedItems(profiles)
    BY <1>10 DEF SaveEnd, File
  <2>2. GoodRegistry(profiles)
    BY DEF RegistryOK
  <2>3. GoodItems(defaultFile'.items)
    BY <2>1, <2>2, SavedItemsFacts
  <2>4. \A n \in DOMAIN persisted' :
          /\ Names(defaultFile'.items, n) # {}
          /\ \A i \in Names(defaultFile'.items, n) : defaultFile'.items[i] = persisted'[n]
    BY <1>10, <2>1, <2>2, SavedItemsFacts DEF SaveEnd
  <2>5. SavedOK'
    BY <2>4 DEF SavedOK, Names
  <2>6. GoodRegistry(profiles) /\ profiles' = profiles /\ exports' = exports /\ process' = process
        /\ registryOps' = registryOps /\ saving' = FALSE /\ GoodItems(defaultFile.items)'
    BY <1>10, <2>2, <2>3 DEF SaveEnd, GoodItems
  <2>7. RegistryOK'
    BY <2>1, <2>6 DEF RegistryOK, GoodRegistry
  <2> QED  BY <2>5, <2>7
<1>11. CASE Exit
  <2>1. GoodRegistry(profiles') /\ DOMAIN exports' = {}
    BY <1>11, EmptyIsGood DEF Exit, Empty
  <2>2. SavedOK' /\ GoodItems(defaultFile.items)' /\ defaultFile'.torn \in BOOLEAN
    BY <1>11 DEF Exit, RegistryOK, SavedOK, GoodItems, Names
  <2>3. RegistryOK'
    BY <1>11, <2>1, <2>2 DEF Exit, RegistryOK, GoodRegistry
  <2> QED  BY <2>2, <2>3
<1>12. CASE Registry
  BY <1>12, <1>2, <1>4, <1>5, <1>6, <1>7, <1>8, <1>9, <1>10, <1>11 DEF Registry, RegistryNext
<1> QED
  BY <1>1, <1>12 DEF Next, vars, registryVars, Begin, Finish, Batch, SetSessionHeader, Close, Aclose

(* The registry and the saved file are good in every state.                *)
LEMMA RegistryInvariant == Spec => [](RegistryOK /\ SavedOK)
  BY RegistryInitOK, RegistryStep, PTL DEF Spec

(* A process that starts finds every profile that the last completed save  *)
(* wrote, as it was or newer from the files the environment names, and its *)
(* import fails only if a process died inside a save (fingerprints.py      *)
(* save_to_file, load_from_file and the import-time load).                 *)
THEOREM Restores == Spec => RestartRestores
<1>1. ASSUME RegistryOK, SavedOK, [Next]_vars, process = "down", process' # "down"
      PROVE  IF process' = "broken" THEN defaultFile.torn
             ELSE \A n \in DOMAIN persisted :
                    Has(profiles', n) /\ profiles'[n] \in {persisted[n]} \cup Newer
  <2>1. Import
    BY <1>1 DEF Next, vars, registryVars, Begin, Finish, Batch, SetSessionHeader, Close, Aclose,
         Registry, RegistryNext, Register, Unregister, ClearRegistry, Reload, LoadPlugins,
         SaveBegin, SaveEnd, Exit, RegistryCall, Running
  <2>2. CASE defaultFile.torn
    BY <2>1, <2>2 DEF Import
  <2>3. CASE ~defaultFile.torn
    <3>1. process' = "running" /\ profiles' = Imported
      BY <2>1, <2>3 DEF Import, Imported, Extra, Builtin
    <3> QED  BY <1>1, <2>3, <3>1, ImportRestores DEF Has
  <2> QED  BY <2>2, <2>3
<1>2. RegistryOK /\ SavedOK /\ [Next]_vars =>
        [process = "down" /\ process' # "down" =>
           IF process' = "broken" THEN defaultFile.torn
           ELSE \A n \in DOMAIN persisted :
                  Has(profiles', n) /\ profiles'[n] \in {persisted[n]} \cup Newer]_vars
  BY <1>1
<1> QED  BY <1>2, RegistryInvariant, PTL DEF Spec, RestartRestores

-----------------------------------------------------------------------------
(* What happened and what the caller gets.                                 *)

(* The first rule that applies decides.                                    *)
LEMMA FirstHit ==
  ASSUME NEW T \in SUBSET Nat, NEW k \in T, \A j \in T : k <= j
  PROVE  (CHOOSE i \in T : \A j \in T : i <= j) = k
<1>1. \A i \in T : (\A j \in T : i <= j) => i = k
  OBVIOUS
<1> QED  BY <1>1

(* The first of five conditions that holds decides.                        *)
LEMMA FirstOfFive ==
  ASSUME NEW c1 \in BOOLEAN, NEW c2 \in BOOLEAN, NEW c3 \in BOOLEAN, NEW c4 \in BOOLEAN, NEW c5 \in BOOLEAN,
         NEW v1, NEW v2, NEW v3, NEW v4, NEW v5, NEW otherwise
  PROVE  FirstOf(<< <<c1, v1>>, <<c2, v2>>, <<c3, v3>>, <<c4, v4>>, <<c5, v5>> >>, otherwise) =
           IF c1 THEN v1 ELSE IF c2 THEN v2 ELSE IF c3 THEN v3 ELSE IF c4 THEN v4 ELSE IF c5 THEN v5 ELSE otherwise
<1> DEFINE rules == << <<c1, v1>>, <<c2, v2>>, <<c3, v3>>, <<c4, v4>>, <<c5, v5>> >>
           hits == {i \in DOMAIN rules : rules[i][1]}
<1>1. \A i : i \in hits <=> \/ (i = 1 /\ c1) \/ (i = 2 /\ c2) \/ (i = 3 /\ c3) \/ (i = 4 /\ c4) \/ (i = 5 /\ c5)
  OBVIOUS
<1>2. rules[1][2] = v1 /\ rules[2][2] = v2 /\ rules[3][2] = v3 /\ rules[4][2] = v4 /\ rules[5][2] = v5
  OBVIOUS
<1>3. FirstOf(rules, otherwise) =
        IF hits = {} THEN otherwise ELSE rules[CHOOSE i \in hits : \A j \in hits : i <= j][2]
  BY DEF FirstOf
<1> HIDE DEF rules, hits
<1>4. hits \in SUBSET Nat
  BY <1>1
<1>5. ASSUME NEW k \in hits, \A j \in hits : k <= j PROVE FirstOf(rules, otherwise) = rules[k][2]
  BY <1>3, <1>4, <1>5, FirstHit
<1>6. FirstOf(rules, otherwise) =
        IF c1 THEN v1 ELSE IF c2 THEN v2 ELSE IF c3 THEN v3 ELSE IF c4 THEN v4 ELSE IF c5 THEN v5 ELSE otherwise
  <2>1. CASE c1
    <3>1. 1 \in hits /\ \A j \in hits : 1 <= j
      BY <1>1, <2>1
    <3> QED  BY <1>2, <1>5, <2>1, <3>1
  <2>2. CASE ~c1 /\ c2
    <3>1. 2 \in hits /\ \A j \in hits : 2 <= j
      BY <1>1, <2>2
    <3> QED  BY <1>2, <1>5, <2>2, <3>1
  <2>3. CASE ~c1 /\ ~c2 /\ c3
    <3>1. 3 \in hits /\ \A j \in hits : 3 <= j
      BY <1>1, <2>3
    <3> QED  BY <1>2, <1>5, <2>3, <3>1
  <2>4. CASE ~c1 /\ ~c2 /\ ~c3 /\ c4
    <3>1. 4 \in hits /\ \A j \in hits : 4 <= j
      BY <1>1, <2>4
    <3> QED  BY <1>2, <1>5, <2>4, <3>1
  <2>5. CASE ~c1 /\ ~c2 /\ ~c3 /\ ~c4 /\ c5
    <3>1. 5 \in hits /\ \A j \in hits : 5 <= j
      BY <1>1, <2>5
    <3> QED  BY <1>2, <1>5, <2>5, <3>1
  <2>6. CASE ~c1 /\ ~c2 /\ ~c3 /\ ~c4 /\ ~c5
    <3>1. hits = {}
      BY <1>1, <2>6
    <3> QED  BY <1>3, <2>6, <3>1
  <2> QED  BY <2>1, <2>2, <2>3, <2>4, <2>5, <2>6
<1> QED  BY <1>6 DEF rules

(* The status that parseError gives a failure: Go's phrases are looked for *)
(* in this order, then the proxy's status, then the kind of error.         *)
LEMMA ParseErrorIs ==
  ASSUME NEW f
  PROVE  ParseError(f) = IF "verify" \in f.text \/ "uhandshake" \in f.text THEN 495
                         ELSE IF "connrefused" \in f.text THEN 502
                         ELSE IF "deadline" \in f.text THEN 408
                         ELSE IF f.proxyStatus # 0 THEN f.proxyStatus
                         ELSE IF f.op # None THEN StatusOfOp[f.op] ELSE 0
<1> DEFINE c1 == "verify" \in f.text \/ "uhandshake" \in f.text
           c2 == "connrefused" \in f.text
           c3 == "deadline" \in f.text
           c4 == f.proxyStatus # 0
           c5 == f.op # None
           v5 == IF f.op = None THEN 0 ELSE StatusOfOp[f.op]
<1>1. c1 \in BOOLEAN /\ c2 \in BOOLEAN /\ c3 \in BOOLEAN /\ c4 \in BOOLEAN /\ c5 \in BOOLEAN
  OBVIOUS
<1>2. ParseError(f) = FirstOf(<< <<c1, 495>>, <<c2, 502>>, <<c3, 408>>, <<c4, f.proxyStatus>>,
                                 <<c5, v5>> >>, 0)
  BY DEF ParseError
<1>3. c5 => v5 = StatusOfOp[f.op]
  OBVIOUS
<1>4. ASSUME NEW d1, NEW d2, NEW d3, NEW d4, NEW d5, NEW v,
             d1 \in BOOLEAN, d2 \in BOOLEAN, d3 \in BOOLEAN, d4 \in BOOLEAN, d5 \in BOOLEAN
      PROVE  FirstOf(<< <<d1, 495>>, <<d2, 502>>, <<d3, 408>>, <<d4, f.proxyStatus>>,
                        <<d5, v>> >>, 0)
             = IF d1 THEN 495 ELSE IF d2 THEN 502 ELSE IF d3 THEN 408
               ELSE IF d4 THEN f.proxyStatus ELSE IF d5 THEN v ELSE 0
  BY <1>4, FirstOfFive
<1> HIDE DEF c1, c2, c3, c4, c5, v5
<1>5. ParseError(f) = IF c1 THEN 495 ELSE IF c2 THEN 502 ELSE IF c3 THEN 408
                      ELSE IF c4 THEN f.proxyStatus ELSE IF c5 THEN v5 ELSE 0
  BY <1>1, <1>2, <1>4
<1> QED  BY <1>3, <1>5 DEF c1, c2, c3, c4, c5

(* The rules of _raise_for_error_response, in their order.                  *)
Rule1(r) == r.status = 421 \/ "dns" \in r.text
Rule2(r) == r.status = 408 \/ "timeout" \in r.text
Rule3(r) == "conn" \in r.text
Rule4(r) == r.status = 495 /\ ("cert" \in r.text \/ "handshake" \in r.text)
Rule5(r) == "cert" \in r.text \/ "ssl" \in r.text
Rule6(r) == r.status = 502 \/ "refused" \in r.text
Rule7(r) == r.status = 405 /\ "addr" \in r.text
Rule8(r) == "url" \in r.text
Rule9(r) == r.status = 401 /\ "syscall error:" \in r.text
Rule10(r) == r.status = 0

(* Each rule decides if none before it applies.                            *)
LEMMA RaisesFor ==
  ASSUME NEW r, IsErrorResponse(r)
  PROVE  RaiseForErrorResponse(r) =
           IF Rule1(r) THEN "ConnectionError"
           ELSE IF Rule2(r) THEN "Timeout"
           ELSE IF Rule3(r) THEN "ConnectionError"
           ELSE IF Rule4(r) \/ Rule5(r) THEN "TLSError"
           ELSE IF Rule6(r) \/ Rule7(r) THEN "ConnectionError"
           ELSE IF Rule8(r) THEN "InvalidURL"
           ELSE IF Rule9(r) THEN "ConnectionError"
           ELSE IF Rule10(r) THEN "CycleTLSError" ELSE None
<1> DEFINE c1 == Rule1(r)
           c2 == Rule2(r)
           c3 == Rule3(r)
           c4 == Rule4(r)
           c5 == Rule5(r)
           c6 == Rule6(r)
           c7 == Rule7(r)
           c8 == Rule8(r)
           c9 == Rule9(r)
           c10 == Rule10(r)
<1>1. /\ c1 \in BOOLEAN /\ c2 \in BOOLEAN /\ c3 \in BOOLEAN /\ c4 \in BOOLEAN /\ c5 \in BOOLEAN
      /\ c6 \in BOOLEAN /\ c7 \in BOOLEAN /\ c8 \in BOOLEAN /\ c9 \in BOOLEAN /\ c10 \in BOOLEAN
  BY DEF Rule1, Rule2, Rule3, Rule4, Rule5, Rule6, Rule7, Rule8, Rule9, Rule10
<1>2. RaiseForErrorResponse(r) =
        FirstOf(<< <<c1, "ConnectionError">>, <<c2, "Timeout">>, <<c3, "ConnectionError">>,
                   <<c4, "TLSError">>, <<c5, "TLSError">>, <<c6, "ConnectionError">>,
                   <<c7, "ConnectionError">>, <<c8, "InvalidURL">>, <<c9, "ConnectionError">>,
                   <<c10, "CycleTLSError">> >>, None)
  BY DEF RaiseForErrorResponse, ErrorRules, Rule1, Rule2, Rule3, Rule4, Rule5, Rule6, Rule7, Rule8,
         Rule9, Rule10
<1> HIDE DEF c1, c2, c3, c4, c5, c6, c7, c8, c9, c10
<1> DEFINE rules == << <<c1, "ConnectionError">>, <<c2, "Timeout">>, <<c3, "ConnectionError">>,
                   <<c4, "TLSError">>, <<c5, "TLSError">>, <<c6, "ConnectionError">>,
                   <<c7, "ConnectionError">>, <<c8, "InvalidURL">>, <<c9, "ConnectionError">>,
                   <<c10, "CycleTLSError">> >>
           hits == {i \in DOMAIN rules : rules[i][1]}
<1>3. \A i : i \in hits <=> \/ (i = 1 /\ c1)
                        \/ (i = 2 /\ c2)
                        \/ (i = 3 /\ c3)
                        \/ (i = 4 /\ c4)
                        \/ (i = 5 /\ c5)
                        \/ (i = 6 /\ c6)
                        \/ (i = 7 /\ c7)
                        \/ (i = 8 /\ c8)
                        \/ (i = 9 /\ c9)
                        \/ (i = 10 /\ c10)
  BY <1>1
<1>4. /\ rules[1][2] = "ConnectionError"
      /\ rules[2][2] = "Timeout"
      /\ rules[3][2] = "ConnectionError"
      /\ rules[4][2] = "TLSError"
      /\ rules[5][2] = "TLSError"
      /\ rules[6][2] = "ConnectionError"
      /\ rules[7][2] = "ConnectionError"
      /\ rules[8][2] = "InvalidURL"
      /\ rules[9][2] = "ConnectionError"
      /\ rules[10][2] = "CycleTLSError"
  OBVIOUS
<1>5. FirstOf(rules, None) =
        IF hits = {} THEN None ELSE rules[CHOOSE i \in hits : \A j \in hits : i <= j][2]
  BY DEF FirstOf
<1>6. RaiseForErrorResponse(r) = FirstOf(rules, None)
  BY <1>2
<1> HIDE DEF rules, hits
<1>7. hits \in SUBSET Nat
  BY <1>3
<1>8. ASSUME NEW k \in hits, \A j \in hits : k <= j
      PROVE  RaiseForErrorResponse(r) = rules[k][2]
  BY <1>5, <1>6, <1>7, <1>8, FirstHit
<1> DEFINE e == RaiseForErrorResponse(r)
<1>9. ASSUME c1 PROVE e = "ConnectionError"
  <2>1. 1 \in hits /\ \A j \in hits : 1 <= j
    BY <1>3, <1>9
  <2> QED  BY <1>4, <1>8, <2>1
<1>10. ASSUME ~c1, c2 PROVE e = "Timeout"
  <2>1. 2 \in hits /\ \A j \in hits : 2 <= j
    BY <1>3, <1>10
  <2> QED  BY <1>4, <1>8, <2>1
<1>11. ASSUME ~c1, ~c2, c3 PROVE e = "ConnectionError"
  <2>1. 3 \in hits /\ \A j \in hits : 3 <= j
    BY <1>3, <1>11
  <2> QED  BY <1>4, <1>8, <2>1
<1>12. ASSUME ~c1, ~c2, ~c3, c4 PROVE e = "TLSError"
  <2>1. 4 \in hits /\ \A j \in hits : 4 <= j
    BY <1>3, <1>12
  <2> QED  BY <1>4, <1>8, <2>1
<1>13. ASSUME ~c1, ~c2, ~c3, ~c4, c5 PROVE e = "TLSError"
  <2>1. 5 \in hits /\ \A j \in hits : 5 <= j
    BY <1>3, <1>13
  <2> QED  BY <1>4, <1>8, <2>1
<1>14. ASSUME ~c1, ~c2, ~c3, ~c4, ~c5, c6 PROVE e = "ConnectionError"
  <2>1. 6 \in hits /\ \A j \in hits : 6 <= j
    BY <1>3, <1>14
  <2> QED  BY <1>4, <1>8, <2>1
<1>15. ASSUME ~c1, ~c2, ~c3, ~c4, ~c5, ~c6, c7 PROVE e = "ConnectionError"
  <2>1. 7 \in hits /\ \A j \in hits : 7 <= j
    BY <1>3, <1>15
  <2> QED  BY <1>4, <1>8, <2>1
<1>16. ASSUME ~c1, ~c2, ~c3, ~c4, ~c5, ~c6, ~c7, c8 PROVE e = "InvalidURL"
  <2>1. 8 \in hits /\ \A j \in hits : 8 <= j
    BY <1>3, <1>16
  <2> QED  BY <1>4, <1>8, <2>1
<1>17. ASSUME ~c1, ~c2, ~c3, ~c4, ~c5, ~c6, ~c7, ~c8, c9 PROVE e = "ConnectionError"
  <2>1. 9 \in hits /\ \A j \in hits : 9 <= j
    BY <1>3, <1>17
  <2> QED  BY <1>4, <1>8, <2>1
<1>18. ASSUME ~c1, ~c2, ~c3, ~c4, ~c5, ~c6, ~c7, ~c8, ~c9, c10 PROVE e = "CycleTLSError"
  <2>1. 10 \in hits /\ \A j \in hits : 10 <= j
    BY <1>3, <1>18
  <2> QED  BY <1>4, <1>8, <2>1
<1>19. ASSUME ~c1, ~c2, ~c3, ~c4, ~c5, ~c6, ~c7, ~c8, ~c9, ~c10 PROVE e = None
  <2>1. hits = {}
    BY <1>3, <1>19
  <2> QED  BY <1>5, <1>6, <2>1
<1> HIDE DEF e
<1> QED  BY <1>9, <1>10, <1>11, <1>12, <1>13, <1>14, <1>15, <1>16, <1>17, <1>18, <1>19
             DEF c1, c2, c3, c4, c5, c6, c7, c8, c9, c10, e

(* A call has an exception or a response, and the response has the status  *)
(* that Go reported.                                                       *)
LEMMA OutcomeIs ==
  ASSUME NEW w
  PROVE  /\ Outcome(w).err = RaiseForErrorResponse(GoResponse(w))
         /\ Outcome(w).err # None => Outcome(w).response = None
         /\ Outcome(w).err = None => Outcome(w).response.status = GoResponse(w).status
<1> DEFINE r == GoResponse(w)
<1>1. r.status = [r EXCEPT !.cookies = [n \in DOMAIN r.cookies |-> DictToCookie(r.cookies[n])]].status
  BY DEF GoResponse
<1> HIDE DEF r
<1>2. Outcome(w) = DictToResponse(r)
  BY DEF Outcome, r
<1> QED  BY <1>1, <1>2 DEF DictToResponse, r

(* Only exceptions of the library are raised for an answer.                *)
LEMMA RaisedIsKnown ==
  ASSUME NEW r
  PROVE  RaiseForErrorResponse(r) \in DOMAIN Ancestors \cup {None}
<1>1. DOMAIN Ancestors = {"ConnectionError", "Timeout", "TLSError", "InvalidURL", "HTTPError", "CycleTLSError"}
  BY DEF Ancestors, Put
<1>2. CASE IsErrorResponse(r)
  BY <1>1, <1>2, RaisesFor
<1>3. CASE ~IsErrorResponse(r)
  BY <1>3 DEF RaiseForErrorResponse
<1> QED  BY <1>2, <1>3

(* All exceptions of the library are CycleTLSErrors.                       *)
LEMMA AllAreCycleTLSErrors == \A e \in DOMAIN Ancestors : "CycleTLSError" \in Ancestors[e]
  BY DEF Ancestors, Put

(* A failure as Go reports it: by a status and a text.                     *)
LEMMA ReportedInBody ==
  ASSUME NEW w, w.failed, w.inBody
  PROVE  GoResponse(w).status = 0 /\ GoResponse(w).text = w.text
  BY DEF GoResponse

(* The words that Go's phrases are made of are among those of a failure.   *)
LEMMA PhrasesAreWords ==
  ASSUME NEW w, IsWorld(w), w.failed
  PROVE  /\ "verify" \in w.text => "cert" \in w.text
         /\ "uhandshake" \in w.text => "handshake" \in w.text
         /\ "connrefused" \in w.text => "refused" \in w.text
         /\ "deadline" \in w.text => "timeout" \in w.text
<1>1. /\ DOMAIN GoPhrases = {"verify", "uhandshake", "connrefused", "deadline"}
      /\ GoPhrases["verify"] = "cert" /\ GoPhrases["uhandshake"] = "handshake"
      /\ GoPhrases["connrefused"] = "refused" /\ GoPhrases["deadline"] = "timeout"
  BY DEF GoPhrases
<1>2. \A m \in DOMAIN GoPhrases \cap w.text : GoPhrases[m] \in w.text
  BY DEF IsWorld
<1> QED  BY <1>1, <1>2

(* A failure before the answer: its text is kept and marked, and a timeout *)
(* is named in it only if it was.                                          *)
LEMMA ReportedBefore ==
  ASSUME NEW w, IsWorld(w), w.failed, ~w.inBody
  PROVE  /\ GoResponse(w).status = ParseError(w)
         /\ w.text \subseteq GoResponse(w).text /\ "->" \in GoResponse(w).text
         /\ GoResponse(w).text \subseteq w.text \cup {"timeout", "syscall error:", "->"}
         /\ "timeout" \in GoResponse(w).text => "timeout" \in w.text
         /\ ParseError(w) # 0 /\ "timeout" \notin w.text => "syscall error:" \in GoResponse(w).text
<1>1. GoResponse(w) = [status |-> ParseError(w), text |-> ErrorMsg(w) \cup w.text \cup {"->"},
                       cookies |-> Empty]
  BY DEF GoResponse
<1>2. GoResponse(w).status = ParseError(w) /\ GoResponse(w).text = ErrorMsg(w) \cup w.text \cup {"->"}
  BY <1>1
<1>3. ErrorMsg(w) \subseteq {"timeout", "syscall error:"}
  BY DEF ErrorMsg
<1>4. "timeout" \in ErrorMsg(w) => "deadline" \in w.text
  BY DEF ErrorMsg
<1>5. ParseError(w) # 0 /\ "deadline" \notin w.text => "syscall error:" \in ErrorMsg(w)
  BY DEF ErrorMsg
<1>6. "deadline" \in w.text => "timeout" \in w.text
  BY PhrasesAreWords
<1> QED  BY <1>2, <1>3, <1>4, <1>5, <1>6

(* The words of a failure are those of its report.                         *)
LEMMA SameWords ==
  ASSUME NEW w, IsWorld(w), w.failed, w.inBody \in BOOLEAN,
         NEW m \in {"timeout", "dns", "conn", "handshake", "cert", "ssl", "refused", "addr", "url"}
  PROVE  m \in GoResponse(w).text <=> m \in w.text
<1>1. CASE w.inBody
  BY <1>1, ReportedInBody
<1>2. CASE ~w.inBody
  <2>1. /\ w.text \subseteq GoResponse(w).text
        /\ GoResponse(w).text \subseteq w.text \cup {"timeout", "syscall error:", "->"}
        /\ "timeout" \in GoResponse(w).text => "timeout" \in w.text
    BY <1>2, ReportedBefore
  <2>2. m # "syscall error:" /\ m # "->"
    OBVIOUS
  <2> QED  BY <2>1, <2>2
<1> QED  BY <1>1, <1>2

(* The statuses of the kinds of network errors.                            *)
LEMMA StatusOfOpIs ==
  /\ DOMAIN StatusOfOp = {"syscall", "syscallTimeout", "addr", "dns", "other", "timeout"}
  /\ StatusOfOp["syscall"] = 401 /\ StatusOfOp["syscallTimeout"] = 408 /\ StatusOfOp["addr"] = 405
  /\ StatusOfOp["dns"] = 421 /\ StatusOfOp["other"] = 421 /\ StatusOfOp["timeout"] = 408
  BY DEF StatusOfOp

(* One of Go's statuses and an arrow in the text make an answer an error.  *)
LEMMA ErrorByStatus ==
  ASSUME NEW r, r.status \in ErrorStatuses \cup {0}, "->" \in r.text
  PROVE  IsErrorResponse(r)
<1>1. r.status \in {0, 401, 405, 408, 421, 495, 502}
  BY DEF ErrorStatuses
<1>2. r.status \notin 200..399
  BY <1>1
<1>3. r.status = 0 \/ (r.status \in ErrorStatuses /\ "->" \in r.text)
  BY <1>1 DEF ErrorStatuses
<1> QED  BY <1>2, <1>3, Zenon DEF IsErrorResponse

(* A failure that no proxy answered is taken for an error.                 *)
LEMMA FailureIsError ==
  ASSUME NEW w, IsWorld(w), w.failed, w.proxyStatus = 0
  PROVE  IsErrorResponse(GoResponse(w))
<1> DEFINE r == GoResponse(w)
<1>1. CASE w.inBody
  <2>1. r.status = 0
    BY <1>1, ReportedInBody
  <2> QED  BY <2>1 DEF IsErrorResponse
<1>2. CASE ~w.inBody
  <2>1. r.status = ParseError(w) /\ "->" \in r.text
    BY <1>2, ReportedBefore
  <2>2. w.op \in DOMAIN StatusOfOp \cup {None}
    BY DEF IsWorld
  <2>3. ParseError(w) \in ErrorStatuses \cup {0}
    BY <2>2, ParseErrorIs, StatusOfOpIs DEF ErrorStatuses
  <2> QED  BY <2>1, <2>3, ErrorByStatus
<1>3. w.inBody \in BOOLEAN
  BY DEF IsWorld
<1> QED  BY <1>1, <1>2, <1>3

(* A failure that no proxy answered raises the exception of its cause,     *)
(* although it went through a status and a text, or where this cause is a  *)
(* handshake that Go does not know, that of its kind.                      *)
LEMMA FailureRaises ==
  ASSUME NEW w, IsWorld(w), w.failed, w.proxyStatus = 0
  PROVE  RaiseForErrorResponse(GoResponse(w)) = ExceptionFor(w)
<1> DEFINE r == GoResponse(w)
           in(m) == m \in w.text
           s == r.status
           e == RaiseForErrorResponse(r)
<1>1. /\ TellsCause(w) /\ w.inBody \in BOOLEAN /\ w.cause \in Causes
      /\ w.op \in {"syscall", "syscallTimeout", "addr", "dns", "other", "timeout", None}
  BY StatusOfOpIs DEF IsWorld
<1>2. /\ Rule1(r) <=> (s = 421 \/ in("dns"))
      /\ Rule2(r) <=> (s = 408 \/ in("timeout"))
      /\ Rule3(r) <=> in("conn")
      /\ Rule4(r) <=> (s = 495 /\ (in("cert") \/ in("handshake")))
      /\ Rule5(r) <=> (in("cert") \/ in("ssl"))
      /\ Rule6(r) <=> (s = 502 \/ in("refused"))
      /\ Rule7(r) <=> (s = 405 /\ in("addr"))
      /\ Rule8(r) <=> in("url")
      /\ Rule9(r) <=> (s = 401 /\ "syscall error:" \in r.text)
      /\ Rule10(r) <=> s = 0
  <2>1. \A m \in {"timeout", "dns", "conn", "handshake", "cert", "ssl", "refused", "addr", "url"} :
          m \in r.text <=> m \in w.text
    BY <1>1, SameWords
  <2> QED  BY <2>1 DEF Rule1, Rule2, Rule3, Rule4, Rule5, Rule6, Rule7, Rule8, Rule9, Rule10
<1>3. IsErrorResponse(r)
  BY FailureIsError
<1>4. e = IF Rule1(r) THEN "ConnectionError"
           ELSE IF Rule2(r) THEN "Timeout"
           ELSE IF Rule3(r) THEN "ConnectionError"
           ELSE IF Rule4(r) \/ Rule5(r) THEN "TLSError"
           ELSE IF Rule6(r) \/ Rule7(r) THEN "ConnectionError"
           ELSE IF Rule8(r) THEN "InvalidURL"
           ELSE IF Rule9(r) THEN "ConnectionError"
           ELSE IF Rule10(r) THEN "CycleTLSError" ELSE None
  BY <1>3, RaisesFor
<1>5. s = IF w.inBody THEN 0
          ELSE IF in("verify") \/ in("uhandshake") THEN 495
          ELSE IF in("connrefused") THEN 502 ELSE IF in("deadline") THEN 408
          ELSE IF w.op # None THEN StatusOfOp[w.op] ELSE 0
  <2>1. CASE w.inBody
    BY <2>1, ReportedInBody
  <2>2. CASE ~w.inBody
    BY <2>2, ReportedBefore, ParseErrorIs
  <2> QED  BY <1>1, <2>1, <2>2
<1> DEFINE known == in("verify") \/ in("uhandshake") \/ in("connrefused") \/ in("deadline")
           kind(ops) == w.op \in ops /\ ~w.inBody /\ ~known
           tls == in("cert") \/ in("ssl") \/ in("uhandshake")
           ex == ExceptionFor(w)
<1>6. /\ None \notin DOMAIN StatusOfOp
      /\ in("verify") => in("cert")
      /\ in("uhandshake") => in("handshake")
      /\ in("connrefused") => in("refused")
      /\ in("deadline") => in("timeout")
      /\ \A ops : kind(ops) <=> w.op \in ops /\ ~w.inBody /\ w.text \cap DOMAIN GoPhrases = {}
  <2>1. DOMAIN GoPhrases = {"verify", "uhandshake", "connrefused", "deadline"}
    BY DEF GoPhrases
  <2> QED  BY <2>1, NoneAssumption, PhrasesAreWords
<1>7. ASSUME s = 401, ~in("timeout") PROVE "syscall error:" \in r.text
  <2>1. ~w.inBody
    BY <1>7, ReportedInBody
  <2>2. ParseError(w) = 401
    BY <1>7, <2>1, ReportedBefore
  <2>3. ParseError(w) # 0
    BY <2>2
  <2> QED  BY <1>7, <2>1, <2>3, ReportedBefore
<1>8. /\ ExceptionOf["dns"] = "ConnectionError" /\ ExceptionOf["timeout"] = "Timeout"
      /\ ExceptionOf["tls"] = "TLSError" /\ ExceptionOf["network"] = "ConnectionError"
      /\ ExceptionOf["url"] = "InvalidURL" /\ ExceptionOf["unknown"] = "CycleTLSError"
      /\ w.cause # "handshake" => ex = ExceptionOf[w.cause]
      /\ w.cause = "handshake" => ex = IF w.op = None THEN "CycleTLSError" ELSE "ConnectionError"
  BY DEF ExceptionOf, ExceptionFor
<1> HIDE DEF s, e, r, ex
<1>9. ASSUME w.cause = "dns" PROVE e = ex
  <2>1. in("dns")
    BY <1>1, <1>9 DEF TellsCause
  <2>2. Rule1(r)
    BY <1>2, <2>1
  <2>3. e = "ConnectionError"
    BY <1>4, <2>2
  <2>4. ex = "ConnectionError"
    BY <1>8, <1>9
  <2> QED  BY <2>3, <2>4
<1>10. ASSUME w.cause = "timeout" PROVE e = ex
  <2>1. /\ ~in("dns")
        /\ kind({"timeout", "syscallTimeout"}) \/ (in("timeout") /\ ~kind({"dns", "other"}))
    BY <1>1, <1>6, <1>10 DEF TellsCause
  <2>2. s # 421 /\ (s = 408 \/ in("timeout"))
    <3>1. CASE kind({"timeout", "syscallTimeout"})
      <4>1. s = 408
        BY <1>5, <1>6, <3>1, StatusOfOpIs
      <4> QED  BY <4>1
    <3>2. CASE in("timeout") /\ ~kind({"dns", "other"})
      <4>1. s # 421
        BY <1>1, <1>5, <1>6, <3>2, StatusOfOpIs
      <4> QED  BY <3>2, <4>1
    <3> QED  BY <2>1, <3>1, <3>2
  <2>3. ~Rule1(r) /\ Rule2(r)
    BY <1>2, <2>1, <2>2
  <2>4. e = "Timeout"
    BY <1>4, <2>3
  <2>5. ex = "Timeout"
    BY <1>8, <1>10
  <2> QED  BY <2>4, <2>5
<1>11. ASSUME w.cause = "tls" PROVE e = ex
  <2>1. /\ ~in("dns") /\ ~in("timeout") /\ ~in("conn")
        /\ \/ (in("verify") \/ in("uhandshake")) /\ ~w.inBody
           \/ (in("cert") \/ in("ssl")) /\ ~kind({"dns", "other", "timeout", "syscallTimeout"})
    <3> DEFINE ops == {"dns", "other"} \cup {"timeout", "syscallTimeout"}
               known2 == w.text \cap DOMAIN GoPhrases # {}
    <3>1. ops = {"dns", "other", "timeout", "syscallTimeout"}
      OBVIOUS
    <3>2. /\ w.text \cap {"dns", "timeout", "conn"} = {}
          /\ \/ w.text \cap {"verify", "uhandshake"} # {} /\ ~w.inBody
             \/ w.text \cap {"cert", "ssl"} # {} /\ ~(w.op \in ops /\ ~w.inBody /\ ~known2)
      BY <1>1, <1>11 DEF TellsCause
    <3>3. kind(ops) <=> w.op \in ops /\ ~w.inBody /\ ~known2
      BY <1>6
    <3> HIDE DEF known2, ops, kind
    <3> QED  BY <3>1, <3>2, <3>3
  <2>2. s # 421 /\ s # 408 /\ (~in("cert") /\ ~in("ssl") => s = 495)
    <3>1. CASE (in("verify") \/ in("uhandshake")) /\ ~w.inBody
      <4>1. s = 495
        BY <1>5, <3>1
      <4> QED  BY <4>1
    <3>2. CASE (in("cert") \/ in("ssl")) /\ ~kind({"dns", "other", "timeout", "syscallTimeout"})
      <4>1. s # 421 /\ s # 408
        BY <1>1, <1>5, <1>6, <2>1, <3>2, StatusOfOpIs
      <4> QED  BY <3>2, <4>1
    <3> QED  BY <2>1, <3>1, <3>2
  <2>3. s = 495 => Rule4(r) \/ Rule5(r)
    BY <1>2, <1>5, <1>6, <2>1, <1>1, StatusOfOpIs
  <2>4. ~Rule1(r) /\ ~Rule2(r) /\ ~Rule3(r) /\ (Rule4(r) \/ Rule5(r))
    BY <1>2, <2>1, <2>2, <2>3
  <2>5. e = "TLSError"
    BY <1>4, <2>4
  <2>6. ex = "TLSError"
    BY <1>8, <1>11
  <2> QED  BY <2>5, <2>6
<1>12. ASSUME w.cause = "handshake" PROVE e = ex
  <2>1. /\ ~in("url") /\ ~in("dns") /\ ~in("timeout") /\ ~in("conn") /\ ~in("refused")
        /\ ~tls /\ ~w.inBody /\ w.op \in {"other", None}
    BY <1>1, <1>12 DEF TellsCause
  <2>2. s = IF w.op = None THEN 0 ELSE 421
    BY <1>5, <1>6, <2>1, StatusOfOpIs
  <2>3. CASE w.op = None
    <3>1. s # 421 /\ s # 408 /\ s # 495 /\ s # 502 /\ s # 405 /\ s # 401 /\ s = 0
      BY <2>2, <2>3
    <3>2. /\ ~Rule1(r) /\ ~Rule2(r) /\ ~Rule3(r) /\ ~Rule4(r) /\ ~Rule5(r)
          /\ ~Rule6(r) /\ ~Rule7(r) /\ ~Rule8(r) /\ ~Rule9(r) /\ Rule10(r)
      BY <1>2, <2>1, <3>1
    <3>3. e = "CycleTLSError"
      BY <1>4, <3>2
    <3>4. ex = "CycleTLSError"
      BY <1>8, <1>12, <2>3
    <3> QED  BY <3>3, <3>4
  <2>4. CASE w.op # None
    <3>1. s = 421
      BY <2>2, <2>4
    <3>2. Rule1(r)
      BY <1>2, <3>1
    <3>3. e = "ConnectionError"
      BY <1>4, <3>2
    <3>4. ex = "ConnectionError"
      BY <1>8, <1>12, <2>4
    <3> QED  BY <3>3, <3>4
  <2> QED  BY <2>3, <2>4
<1>13. ASSUME w.cause = "network" PROVE e = ex
  <2>1. /\ ~in("timeout")
        /\ \/ in("conn") /\ ~kind({"timeout", "syscallTimeout"})
           \/ in("refused") /\ ~tls /\ ~kind({"timeout", "syscallTimeout"})
           \/ kind({"dns", "other"})
           \/ kind({"addr"}) /\ in("addr") /\ ~tls
           \/ kind({"syscall"}) /\ ~tls /\ ~in("url")
    BY <1>1, <1>6, <1>13 DEF TellsCause
  <2>2. CASE in("conn") /\ ~kind({"timeout", "syscallTimeout"})
    <3>1. s # 408
      BY <1>1, <1>5, <1>6, <2>1, <2>2, StatusOfOpIs
    <3>2. (Rule1(r) \/ ~Rule2(r)) /\ Rule3(r)
      BY <1>2, <2>1, <2>2, <3>1
    <3> QED  BY <1>4, <1>8, <1>13, <3>2
  <2>3. CASE in("refused") /\ ~tls /\ ~kind({"timeout", "syscallTimeout"})
    <3>1. s # 408 /\ s # 495
      BY <1>1, <1>5, <1>6, <2>1, <2>3, StatusOfOpIs
    <3>2. ~Rule2(r) /\ ~Rule4(r) /\ ~Rule5(r) /\ Rule6(r)
      BY <1>2, <2>1, <2>3, <3>1
    <3> QED  BY <1>4, <1>8, <1>13, <3>2
  <2>4. CASE kind({"dns", "other"})
    <3>1. s = 421
      BY <1>5, <1>6, <2>4, StatusOfOpIs
    <3>2. Rule1(r)
      BY <1>2, <3>1
    <3> QED  BY <1>4, <1>8, <1>13, <3>2
  <2>5. CASE kind({"addr"}) /\ in("addr") /\ ~tls
    <3>1. s = 405
      BY <1>5, <1>6, <2>5, StatusOfOpIs
    <3>2. s # 408 /\ s # 495
      BY <3>1
    <3>3. ~Rule2(r) /\ ~Rule4(r) /\ ~Rule5(r) /\ Rule7(r)
      BY <1>2, <2>1, <2>5, <3>1, <3>2
    <3> QED  BY <1>4, <1>8, <1>13, <3>3
  <2>6. CASE kind({"syscall"}) /\ ~tls /\ ~in("url")
    <3>1. s = 401
      BY <1>5, <1>6, <2>6, StatusOfOpIs
    <3>2. s # 421 /\ s # 408 /\ s # 495 /\ s # 502 /\ s # 405
      BY <3>1
    <3>3. ~Rule2(r) /\ ~Rule4(r) /\ ~Rule5(r) /\ ~Rule8(r) /\ Rule9(r)
      BY <1>2, <1>7, <2>1, <2>6, <3>1, <3>2
    <3> QED  BY <1>4, <1>8, <1>13, <3>3
  <2> QED  BY <2>1, <2>2, <2>3, <2>4, <2>5, <2>6
<1>14. ASSUME w.cause \in {"url", "unknown"} PROVE e = ex
  <2>1. /\ in("url") <=> w.cause = "url"
        /\ ~in("dns") /\ ~in("timeout") /\ ~in("conn") /\ ~in("refused") /\ ~tls /\ w.op = None
    <3>1. CASE w.cause = "url"
      BY <1>1, <3>1 DEF TellsCause
    <3>2. CASE w.cause = "unknown"
      BY <1>1, <3>2 DEF TellsCause
    <3> QED  BY <1>14, <3>1, <3>2
  <2>2. s = 0
    BY <1>5, <1>6, <2>1
  <2>3. s # 421 /\ s # 408 /\ s # 495 /\ s # 502 /\ s # 405 /\ s # 401
    BY <2>2
  <2>4. /\ ~Rule1(r) /\ ~Rule2(r) /\ ~Rule3(r) /\ ~Rule4(r) /\ ~Rule5(r) /\ ~Rule6(r) /\ ~Rule7(r)
        /\ Rule8(r) <=> w.cause = "url"
        /\ ~Rule9(r) /\ Rule10(r)
    BY <1>2, <2>1, <2>2, <2>3
  <2>5. e = IF w.cause = "url" THEN "InvalidURL" ELSE "CycleTLSError"
    BY <1>4, <2>4
  <2>6. ex = IF w.cause = "url" THEN "InvalidURL" ELSE "CycleTLSError"
    BY <1>8, <1>14
  <2> QED  BY <2>5, <2>6
<1> QED  BY <1>1, <1>9, <1>10, <1>11, <1>12, <1>13, <1>14 DEF Causes, e, r, ex

(* What a proxy refused with comes back, as an exception or as the status. *)
LEMMA RefusalComesBack ==
  ASSUME NEW w, IsWorld(w), w.failed, w.proxyStatus # 0, RaiseForErrorResponse(GoResponse(w)) = None
  PROVE  GoResponse(w).status = w.proxyStatus
<1> DEFINE r == GoResponse(w)
<1>1. w.inBody \in BOOLEAN /\ w.proxyStatus \in Nat
  BY DEF IsWorld
<1>2. DOMAIN Ancestors = {"ConnectionError", "Timeout", "TLSError", "InvalidURL", "HTTPError", "CycleTLSError"}
  BY DEF Ancestors, Put
<1>3. None \notin {"ConnectionError", "Timeout", "TLSError", "InvalidURL", "HTTPError", "CycleTLSError"}
  BY <1>2, NoneAssumption
<1>4. ~w.inBody
  <2>1. SUFFICES ASSUME w.inBody PROVE FALSE
    OBVIOUS
  <2>2. r.status = 0
    BY <2>1, ReportedInBody
  <2>3. IsErrorResponse(r)
    BY <2>2 DEF IsErrorResponse
  <2>4. Rule10(r)
    BY <2>2 DEF Rule10
  <2> QED  BY <1>3, <2>3, <2>4, RaisesFor
<1>5. r.status = ParseError(w) /\ "->" \in r.text
  BY <1>4, ReportedBefore
<1>6. /\ "verify" \notin w.text /\ "uhandshake" \notin w.text
      /\ "connrefused" \notin w.text /\ "deadline" \notin w.text
  <2>1. SUFFICES ASSUME \/ "verify" \in w.text \/ "uhandshake" \in w.text
                        \/ "connrefused" \in w.text \/ "deadline" \in w.text
                 PROVE  FALSE
    OBVIOUS
  <2>2. r.status \in {495, 502, 408} /\ (r.status = 495 => "cert" \in w.text \/ "handshake" \in w.text)
    BY <1>5, <2>1, ParseErrorIs, PhrasesAreWords
  <2>3. IsErrorResponse(r)
    BY <1>5, <2>2, ErrorByStatus DEF ErrorStatuses
  <2>4. r.status = 495 => "cert" \in r.text \/ "handshake" \in r.text
    BY <1>1, <2>2, SameWords
  <2>5. CASE r.status = 502
    <3>1. Rule6(r)
      BY <2>5 DEF Rule6
    <3> QED  BY <1>3, <2>3, <3>1, RaisesFor
  <2>6. CASE r.status = 408
    <3>1. Rule2(r)
      BY <2>6 DEF Rule2
    <3> QED  BY <1>3, <2>3, <3>1, RaisesFor
  <2>7. CASE r.status = 495
    <3>1. Rule4(r)
      BY <2>4, <2>7 DEF Rule4
    <3> QED  BY <1>3, <2>3, <3>1, RaisesFor
  <2> QED  BY <2>2, <2>5, <2>6, <2>7
<1> QED  BY <1>5, <1>6, ParseErrorIs

(* The caller gets what happened.                                          *)
LEMMA HonestOutcome ==
  ASSUME NEW w, IsWorld(w)
  PROVE  /\ HonestFor(w, Outcome(w).err, Outcome(w).response)
         /\ Outcome(w).err # None => HonestFor(w, Outcome(w).err, None)
         /\ (Outcome(w).err = None) # (Outcome(w).response = None)
         /\ Outcome(w).err \in DOMAIN Ancestors \cup {None}
<1> DEFINE r == GoResponse(w)
           e == Outcome(w).err
<1>1. /\ e = RaiseForErrorResponse(r) /\ (e # None => Outcome(w).response = None)
      /\ e = None => Outcome(w).response.status = r.status
  BY OutcomeIs
<1>2. e \in DOMAIN Ancestors \cup {None}
  BY <1>1, RaisedIsKnown
<1>3. (e = None) # (Outcome(w).response = None)
  BY <1>1 DEF IsWorld
<1>4. CASE w.failed
  <2>1. w.proxyStatus = 0 => e = ExceptionFor(w)
    BY <1>1, <1>4, FailureRaises
  <2>2. e # None => "CycleTLSError" \in Ancestors[e]
    BY <1>2, AllAreCycleTLSErrors
  <2>3. e = None => w.proxyStatus \in 300..399 \/ RaiseForStatus(Outcome(w).response) # None
    <3>1. SUFFICES ASSUME e = None PROVE w.proxyStatus \in 300..399 \/ RaiseForStatus(Outcome(w).response) # None
      OBVIOUS
    <3>2. w.proxyStatus # 0
      <4>1. ASSUME w.proxyStatus = 0 PROVE FALSE
        <5>1. e = ExceptionFor(w) /\ w.cause \in Causes
          BY <2>1, <4>1, <1>4 DEF IsWorld
        <5>2. ExceptionFor(w) \in DOMAIN Ancestors
          BY <5>1 DEF ExceptionFor, ExceptionOf, Causes, Ancestors, Put
        <5> QED  BY <3>1, <5>1, <5>2, NoneAssumption
      <4> QED  BY <4>1
    <3>3. w.proxyStatus \in Nat /\ w.proxyStatus >= 300
      BY <1>4, <3>2 DEF IsWorld
    <3>4. Outcome(w).response.status = w.proxyStatus
      BY <1>1, <1>4, <3>1, <3>2, RefusalComesBack
    <3>5. "HTTPError" # None
      BY NoneAssumption DEF Ancestors, Put
    <3>6. w.proxyStatus >= 400 => RaiseForStatus(Outcome(w).response) = "HTTPError"
      BY <3>4 DEF RaiseForStatus
    <3> QED  BY <3>3, <3>5, <3>6
  <2> HIDE DEF e
  <2>4. HonestFor(w, e, Outcome(w).response) /\ (e # None => HonestFor(w, e, None))
    BY <1>4, <2>1, <2>2, <2>3 DEF HonestFor
  <2> QED  BY <1>2, <1>3, <2>4 DEF e
<1>5. CASE ~w.failed
  <2>1. r.status = w.status /\ r.text = w.text /\ w.status # 0
    BY <1>5 DEF GoResponse, IsWorld
  <2>2. e # None => \/ w.status \in ErrorStatuses /\ "->" \in w.text
                    \/ w.status \notin 200..399 /\ "syscall error:" \in w.text
    BY <1>1, <2>1 DEF RaiseForErrorResponse, IsErrorResponse
  <2> HIDE DEF e
  <2>3. HonestFor(w, e, Outcome(w).response) /\ (e # None => HonestFor(w, e, None))
    BY <1>1, <1>5, <2>1, <2>2 DEF HonestFor
  <2> QED  BY <1>2, <1>3, <2>3 DEF e
<1> QED  BY <1>4, <1>5

-----------------------------------------------------------------------------
(* What _prepare_request does to the headers of a call and to the          *)
(* dictionary of its caller.                                               *)

(* Arguments as they reach _prepare_request: the headers may be the        *)
(* caller's own dictionary by now.                                         *)
IsEntry(a) ==
  /\ a = [method |-> a.method, url |-> a.url, params |-> a.params, data |-> a.data,
          json_data |-> a.json_data, json |-> a.json, files |-> a.files,
          fingerprint |-> a.fingerprint, auth |-> a.auth, kw |-> a.kw, own |-> a.own]
  /\ a.own \in BOOLEAN
  /\ a.kw = [o \in DOMAIN a.kw |-> a.kw[o]]
  /\ Has(a.kw, "headers") => IsHeaders(a.kw.headers)
  /\ a.fingerprint # None => /\ ~Has(a.fingerprint, "attribute") /\ ~Has(a.fingerprint, "lookup")
                             /\ a.fingerprint.object # None => IsProfile(a.fingerprint.object)

HeadersOf(a) == IF Has(a.kw, "headers") THEN a.kw.headers ELSE Empty
JsonOf(a) == IF a.json_data # None THEN a.json_data ELSE a.json

(* The names that _prepare_request sets, whatever the call says, and those *)
(* it may add.                                                             *)
SetFor(a) == (IF a.auth # None THEN {"Authorization"} ELSE {})
             \cup (IF a.files # None \/ JsonOf(a) # None THEN {"Content-Type"} ELSE {})
AddedFor(profile) == {"Authorization", "Content-Type"}
                     \cup (IF profile = None THEN {} ELSE DOMAIN DynamicSecChUa(profile))

(* d is h but for the user agent, what is set and what is added.           *)
Keeps(h, d, set, added) ==
  /\ \A n \in DOMAIN h : Lower[n] # "user-agent" /\ n \notin set => n \in DOMAIN d /\ d[n] = h[n]
  /\ \A n \in DOMAIN d \ DOMAIN h : n \in added

IsStage(p) ==
  /\ p = [hdr |-> p.hdr, shared |-> p.shared, theirs |-> p.theirs, kw |-> p.kw, data |-> p.data,
          json |-> p.json, body |-> p.body, bytes |-> p.bytes, err |-> p.err]
  /\ p.shared \in BOOLEAN /\ IsHeaders(p.hdr) /\ IsHeaders(p.theirs)
  /\ p.shared => p.hdr = p.theirs

(* A stage of the pipeline leaves the caller's dictionary h in this state. *)
Careful(p, h, set, added) == IsStage(p) /\ Keeps(h, p.theirs, set, added)

(* No headers are headers.                                                 *)
LEMMA IsHeadersEmpty == IsHeaders(Empty)
  BY DEF IsHeaders, Empty

(* Headers stay headers when one that is not the user agent is set,        *)
LEMMA PutIsHeaders ==
  ASSUME NEW d, IsHeaders(d), NEW n \in DOMAIN Lower, Lower[n] # "user-agent", NEW v
  PROVE  IsHeaders(Put(d, n, v))
  BY DEF IsHeaders, Put

(* when others that are not the user agent are put below them,             *)
LEMMA OverIsHeaders ==
  ASSUME NEW d, IsHeaders(d), NEW e, \A n \in DOMAIN e : n \in DOMAIN Lower /\ Lower[n] # "user-agent"
  PROVE  IsHeaders(Over(d, e))
  BY DEF IsHeaders, Over

(* and when one is taken out.                                              *)
LEMMA WithoutIsHeaders ==
  ASSUME NEW d, IsHeaders(d), NEW n
  PROVE  IsHeaders(Without(d, n))
  BY DEF IsHeaders, Without

(* The client hints of a profile are headers, none of them the user agent. *)
LEMMA HintNames ==
  ASSUME NEW profile
  PROVE  /\ DynamicSecChUa(profile) = [h \in DOMAIN DynamicSecChUa(profile) |-> DynamicSecChUa(profile)[h]]
         /\ \A n \in DOMAIN DynamicSecChUa(profile) : n \in DOMAIN Lower /\ Lower[n] # "user-agent"
<1> DEFINE hints == {"sec-ch-ua", "sec-ch-ua-mobile", "sec-ch-ua-platform"}
<1>1. DOMAIN DynamicSecChUa(profile) \subseteq hints
  BY DEF DynamicSecChUa, Empty
<1>2. DynamicSecChUa(profile) = [h \in DOMAIN DynamicSecChUa(profile) |-> DynamicSecChUa(profile)[h]]
  BY DEF DynamicSecChUa, Empty
<1>3. \A n \in hints : n \in DOMAIN Lower /\ Lower[n] # "user-agent"
  BY LowerAssumption
<1> QED  BY <1>1, <1>2, <1>3

(* A change of the headers of the request changes the caller's dictionary  *)
(* only while the two are one.                                             *)
LEMMA SetHeadersCareful ==
  ASSUME NEW p, NEW h, NEW set, NEW added, Careful(p, h, set, added),
         NEW d, IsHeaders(d), p.shared => Keeps(p.hdr, d, set, added)
  PROVE  /\ Careful(SetHeaders(p, d), h, set, added)
         /\ SetHeaders(p, d) = [hdr |-> d, shared |-> p.shared, theirs |-> IF p.shared THEN d ELSE p.theirs,
                                kw |-> p.kw, data |-> p.data, json |-> p.json, body |-> p.body,
                                bytes |-> p.bytes, err |-> p.err]
<1> DEFINE q == SetHeaders(p, d)
<1>1. q = [hdr |-> d, shared |-> p.shared, theirs |-> IF p.shared THEN d ELSE p.theirs,
           kw |-> p.kw, data |-> p.data, json |-> p.json, body |-> p.body,
           bytes |-> p.bytes, err |-> p.err]
  <2>1. p = [hdr |-> p.hdr, shared |-> p.shared, theirs |-> p.theirs, kw |-> p.kw, data |-> p.data,
             json |-> p.json, body |-> p.body, bytes |-> p.bytes, err |-> p.err]
    BY DEF Careful, IsStage
  <2>2. q = [p EXCEPT !.hdr = d, !.theirs = IF p.shared THEN d ELSE p.theirs]
    <3>1. q = [p EXCEPT !.hdr = d, !.theirs = IF p.shared THEN d ELSE @]
      BY DEF SetHeaders
    <3> QED  BY <2>1, <3>1
  <2> HIDE DEF q
  <2> QED  BY <2>1, <2>2
<1> HIDE DEF q
<1>2. IsStage(q)
  BY <1>1 DEF Careful, IsStage
<1>3. Keeps(h, q.theirs, set, added)
  <2>1. CASE p.shared
    <3>1. q.theirs = d /\ p.theirs = p.hdr /\ Keeps(h, p.hdr, set, added) /\ Keeps(p.hdr, d, set, added)
      BY <1>1, <2>1 DEF Careful, IsStage
    <3>2. Keeps(h, d, set, added)
      BY <3>1 DEF Keeps
    <3> QED  BY <3>1, <3>2
  <2>2. CASE ~p.shared
    BY <1>1, <2>2 DEF Careful
  <2> QED  BY <2>1, <2>2
<1> QED  BY <1>1, <1>2, <1>3 DEF q, Careful

(* _prepare_request starts with the caller's headers or a new dictionary.  *)
LEMMA StartCareful ==
  ASSUME NEW a, IsEntry(a), NEW set, NEW added
  PROVE  Careful(Start(a), HeadersOf(a), set, added)
  BY IsHeadersEmpty DEF Start, HeadersOf, IsEntry, Careful, IsStage, Keeps, Without

(* An exception leaves the dictionaries as they are.                       *)
LEMMA RaiseCareful ==
  ASSUME NEW p, NEW h, NEW set, NEW added, Careful(p, h, set, added), NEW e
  PROVE  Careful(Raise(p, e), h, set, added)
  BY DEF Careful, IsStage, Raise

(* The other fields of a stage may change.                                 *)
LEMMA SameHeadersCareful ==
  ASSUME NEW p, NEW h, NEW set, NEW added, Careful(p, h, set, added),
         NEW kw, NEW data, NEW json, NEW body, NEW bytes, NEW err
  PROVE  Careful([hdr |-> p.hdr, shared |-> p.shared, theirs |-> p.theirs, kw |-> kw, data |-> data,
                  json |-> json, body |-> body, bytes |-> bytes, err |-> err], h, set, added)
  BY DEF Careful, IsStage

(* A header that the library may set or add.                               *)
LEMMA PutHeaderCareful ==
  ASSUME NEW p, NEW h, NEW set, NEW added, Careful(p, h, set, added),
         NEW n \in {"Authorization", "Content-Type"}, n \in added,
         n \in set \/ n \notin DOMAIN p.hdr, NEW v
  PROVE  /\ Careful(PutHeader(p, n, v), h, set, added)
         /\ PutHeader(p, n, v) = SetHeaders(p, Put(p.hdr, n, v))
         /\ IsHeaders(Put(p.hdr, n, v))
<1>1. n \in DOMAIN Lower /\ Lower[n] # "user-agent"
  BY LowerAssumption
<1>2. IsHeaders(Put(p.hdr, n, v))
  BY <1>1, PutIsHeaders DEF Careful, IsStage
<1>3. Keeps(p.hdr, Put(p.hdr, n, v), set, added)
  BY DEF Keeps, Put
<1> QED  BY <1>2, <1>3, SetHeadersCareful DEF PutHeader

(* The first two checks leave the dictionaries as they are.                *)
LEMMA OpenAndJsonCareful ==
  ASSUME NEW p, NEW h, NEW set, NEW added, Careful(p, h, set, added), NEW closed \in BOOLEAN, NEW a
  PROVE  Careful(CheckOpen(p, closed), h, set, added) /\ Careful(JsonAlias(p, a), h, set, added)
<1>1. Careful(CheckOpen(p, closed), h, set, added)
  BY RaiseCareful DEF CheckOpen
<1>2. Careful([p EXCEPT !.json = a.json], h, set, added)
  BY DEF Careful, IsStage
<1>3. Careful(JsonAlias(p, a), h, set, added)
  BY <1>2, RaiseCareful DEF JsonAlias
<1> QED  BY <1>1, <1>3

(* The Authorization header is one the library sets.                       *)
LEMMA AuthCareful ==
  ASSUME NEW p, NEW h, NEW set, NEW added, Careful(p, h, set, added), NEW a,
         a.auth # None => "Authorization" \in set, "Authorization" \in added
  PROVE  Careful(ApplyAuth(p, a), h, set, added)
  BY PutHeaderCareful DEF ApplyAuth

(* What apply_to_kwargs leaves.                                            *)
LEMMA ApplyToKwargsIs ==
  ASSUME NEW p, NEW h, NEW set, NEW added, Careful(p, h, set, added), NEW profile, IsProfile(profile),
         DOMAIN DynamicSecChUa(profile) \subseteq added
  PROVE  LET q == ApplyToKwargs(p, profile) IN
         /\ Careful(q, h, set, added)
         /\ q.hdr = Over(IF profile.headers = None THEN p.hdr ELSE Over(p.hdr, profile.headers),
                         DynamicSecChUa(profile))
         /\ q.kw = Over(p.kw, profile.opts)
         /\ q.data = p.data /\ q.json = p.json /\ q.body = p.body /\ q.bytes = p.bytes /\ q.err = p.err
<1> DEFINE hints == DynamicSecChUa(profile)
           merged == IF profile.headers = None THEN p
                     ELSE [p EXCEPT !.hdr = Over(@, profile.headers), !.shared = FALSE]
           d == Over(merged.hdr, hints)
           hinted == SetHeaders(merged, d)
           q == ApplyToKwargs(p, profile)
<1>1. /\ Careful(merged, h, set, added) /\ merged.kw = p.kw
      /\ merged.hdr = IF profile.headers = None THEN p.hdr ELSE Over(p.hdr, profile.headers)
      /\ merged.data = p.data /\ merged.json = p.json /\ merged.body = p.body
      /\ merged.bytes = p.bytes /\ merged.err = p.err
  <2>1. CASE profile.headers = None
    BY <2>1
  <2>2. CASE profile.headers # None
    <3>1. merged = [hdr |-> Over(p.hdr, profile.headers), shared |-> FALSE, theirs |-> p.theirs,
                    kw |-> p.kw, data |-> p.data, json |-> p.json, body |-> p.body,
                    bytes |-> p.bytes, err |-> p.err]
      BY <2>2 DEF Careful, IsStage
    <3>2. IsHeaders(Over(p.hdr, profile.headers))
      BY <2>2, OverIsHeaders DEF Careful, IsStage, IsProfile
    <3> HIDE DEF merged
    <3>3. Careful(merged, h, set, added)
      BY <3>1, <3>2 DEF Careful, IsStage
    <3> QED  BY <2>2, <3>1, <3>3
  <2> QED  BY <2>1, <2>2
<1>2. q = [hinted EXCEPT !.kw = Over(@, profile.opts)]
  BY DEF ApplyToKwargs
<1> HIDE DEF merged
<1>3. IsHeaders(d) /\ Keeps(merged.hdr, d, set, added)
  <2>1. IsHeaders(d)
    BY <1>1, HintNames, OverIsHeaders DEF Careful, IsStage
  <2>2. Keeps(merged.hdr, d, set, added)
    BY DEF Keeps, Over
  <2> QED  BY <2>1, <2>2
<1> HIDE DEF d
<1>4. /\ Careful(hinted, h, set, added)
      /\ hinted = [hdr |-> d, shared |-> merged.shared, theirs |-> IF merged.shared THEN d ELSE merged.theirs,
                   kw |-> p.kw, data |-> p.data, json |-> p.json, body |-> p.body,
                   bytes |-> p.bytes, err |-> p.err]
  BY <1>1, <1>3, SetHeadersCareful
<1> HIDE DEF hinted
<1>5. q = [hdr |-> hinted.hdr, shared |-> hinted.shared, theirs |-> hinted.theirs,
           kw |-> Over(p.kw, profile.opts), data |-> p.data, json |-> p.json, body |-> p.body,
           bytes |-> p.bytes, err |-> p.err]
  BY <1>2, <1>4
<1> HIDE DEF q
<1>6. Careful(q, h, set, added)
  BY <1>4, <1>5, SameHeadersCareful
<1> QED  BY <1>1, <1>4, <1>5, <1>6 DEF d, q

(* The profile of the call, for the pipeline.                              *)
LEMMA FingerprintIs ==
  ASSUME GoodRegistry(profiles), NEW p, NEW a, IsEntry(a), NEW h, NEW set, NEW added,
         Careful(p, h, set, added), AddedFor(ProfileOf(a)) \subseteq added
  PROVE  LET q == ApplyFingerprint(p, a, profiles)
             profile == ProfileOf(a)
         IN  /\ Careful(q, h, set, added)
             /\ profile # None => IsProfile(profile)
             /\ q.err # "KeyError" \/ p.err = "KeyError" =>
                  IF Fine(p) /\ profile # None THEN q = ApplyToKwargs(p, profile) ELSE q = p
<1> DEFINE f == a.fingerprint
           profile == ProfileOf(a)
           q == ApplyFingerprint(p, a, profiles)
<1>1. profile # None => IsProfile(profile)
  BY DEF ProfileOf, IsEntry, GoodRegistry, Has
<1>2. profile # None => DOMAIN DynamicSecChUa(profile) \subseteq added
  BY DEF AddedFor
<1>3. CASE ~Fine(p) \/ f = None
  <2>1. q = p
    BY <1>3 DEF ApplyFingerprint
  <2>2. Fine(p) => profile = None
    BY <1>3 DEF ProfileOf
  <2> QED  BY <1>1, <2>1, <2>2
<1>4. CASE Fine(p) /\ f # None /\ profile # None
  <2>1. q = ApplyToKwargs(p, profile)
    <3>1. CASE f.object # None
      BY <1>4, <3>1 DEF ApplyFingerprint, ProfileOf
    <3>2. CASE f.object = None
      <4>1. Has(profiles, f.name) /\ profile = profiles[f.name]
        BY <1>4, <3>2 DEF ProfileOf
      <4> QED  BY <1>4, <3>2, <4>1 DEF ApplyFingerprint
    <3> QED  BY <3>1, <3>2
  <2>2. Careful(ApplyToKwargs(p, profile), h, set, added)
    BY <1>1, <1>2, <1>4, ApplyToKwargsIs
  <2> QED  BY <1>1, <1>4, <2>1, <2>2
<1>5. CASE Fine(p) /\ f # None /\ profile = None
  <2>1. f.object = None /\ ~Has(profiles, f.name)
    BY <1>5 DEF ProfileOf, GoodRegistry, IsProfile, Has
  <2>2. q = Raise(p, "KeyError")
    BY <1>5, <2>1 DEF ApplyFingerprint
  <2>3. Careful(q, h, set, added)
    BY <2>2, RaiseCareful
  <2>4. q.err = "KeyError" /\ p.err # "KeyError"
    <3>1. q.err = "KeyError"
      BY <2>2 DEF Raise, Careful, IsStage
    <3>2. None # "KeyError"
      BY NoneAssumption
    <3> QED  BY <1>5, <3>1, <3>2 DEF Fine
  <2> QED  BY <1>1, <2>3, <2>4
<1> QED  BY <1>3, <1>4, <1>5

(* Without an exception, closed and json do what they say.                 *)
LEMMA OpenAndJsonAre ==
  ASSUME NEW p, NEW h, NEW set, NEW added, Careful(p, h, set, added), NEW closed \in BOOLEAN, NEW a
  PROVE  /\ Fine(CheckOpen(p, closed)) => CheckOpen(p, closed) = p
         /\ Fine(JsonAlias(p, a)) =>
              /\ Fine(p)
              /\ JsonAlias(p, a) =
                   [hdr |-> p.hdr, shared |-> p.shared, theirs |-> p.theirs, kw |-> p.kw, data |-> p.data,
                    json |-> IF p.json # None THEN p.json ELSE a.json, body |-> p.body,
                    bytes |-> p.bytes, err |-> p.err]
<1>1. None \notin {"CycleTLSError", "ValueError"}
  BY NoneAssumption DEF Ancestors, Put
<1>2. \A e : Raise(p, e).err = e
  BY DEF Raise, Careful, IsStage
<1>3. Fine(CheckOpen(p, closed)) => CheckOpen(p, closed) = p
  BY <1>1, <1>2 DEF CheckOpen, Fine
<1>4. ASSUME Fine(JsonAlias(p, a))
      PROVE  /\ Fine(p)
             /\ JsonAlias(p, a) =
                  [hdr |-> p.hdr, shared |-> p.shared, theirs |-> p.theirs, kw |-> p.kw, data |-> p.data,
                   json |-> IF p.json # None THEN p.json ELSE a.json, body |-> p.body,
                   bytes |-> p.bytes, err |-> p.err]
  <2>1. p = [hdr |-> p.hdr, shared |-> p.shared, theirs |-> p.theirs, kw |-> p.kw, data |-> p.data,
             json |-> p.json, body |-> p.body, bytes |-> p.bytes, err |-> p.err]
    BY DEF Careful, IsStage
  <2>2. CASE ~Fine(p)
    BY <1>4, <2>2 DEF JsonAlias
  <2>3. CASE Fine(p) /\ a.json = None
    BY <2>1, <2>3 DEF JsonAlias
  <2>4. CASE Fine(p) /\ a.json # None /\ p.json # None
    <3>1. JsonAlias(p, a) = Raise(p, "ValueError")
      BY <2>4 DEF JsonAlias
    <3> QED  BY <1>1, <1>2, <1>4, <3>1 DEF Fine
  <2>5. CASE Fine(p) /\ a.json # None /\ p.json = None
    <3>1. JsonAlias(p, a) = [p EXCEPT !.json = a.json]
      BY <2>5 DEF JsonAlias
    <3> QED  BY <2>1, <2>5, <3>1
  <2> QED  BY <2>2, <2>3, <2>4, <2>5
<1> QED  BY <1>3, <1>4

(* What auth leaves: the header, and all else as it was.                   *)
LEMMA AuthIs ==
  ASSUME NEW p, NEW h, NEW set, NEW added, Careful(p, h, set, added), NEW a,
         a.auth # None => "Authorization" \in set, "Authorization" \in added
  PROVE  /\ ApplyAuth(p, a).err = p.err /\ ApplyAuth(p, a).kw = p.kw /\ ApplyAuth(p, a).data = p.data
         /\ ApplyAuth(p, a).json = p.json /\ ApplyAuth(p, a).body = p.body
         /\ ApplyAuth(p, a).bytes = p.bytes
         /\ Fine(p) => ApplyAuth(p, a).hdr =
                         IF a.auth = None THEN p.hdr
                         ELSE Put(p.hdr, "Authorization", <<"Basic", a.auth>>)
<1>1. CASE ~Fine(p) \/ a.auth = None
  BY <1>1 DEF ApplyAuth
<1>2. CASE Fine(p) /\ a.auth # None
  <2> DEFINE d == Put(p.hdr, "Authorization", <<"Basic", a.auth>>)
             q == ApplyAuth(p, a)
  <2>1. q = SetHeaders(p, d) /\ IsHeaders(d) /\ Keeps(p.hdr, d, set, added)
    <3>1. q = PutHeader(p, "Authorization", <<"Basic", a.auth>>)
      BY <1>2 DEF ApplyAuth
    <3>2. Keeps(p.hdr, d, set, added)
      BY <1>2 DEF Keeps, Put
    <3> QED  BY <1>2, <3>1, <3>2, PutHeaderCareful
  <2> HIDE DEF d, q
  <2>2. q = [hdr |-> d, shared |-> p.shared, theirs |-> IF p.shared THEN d ELSE p.theirs,
             kw |-> p.kw, data |-> p.data, json |-> p.json, body |-> p.body,
             bytes |-> p.bytes, err |-> p.err]
    BY <2>1, SetHeadersCareful
  <2> QED  BY <1>2, <2>2 DEF d, q
<1> QED  BY <1>1, <1>2

(* The body options are taken out of the keyword arguments.                *)
LEMMA TakeForDataIs ==
  ASSUME NEW p, NEW h, NEW set, NEW added, Careful(p, h, set, added), NEW o
  PROVE  /\ Careful(TakeForData(p, o), h, set, added)
         /\ TakeForData(p, o) = [hdr |-> p.hdr, shared |-> p.shared, theirs |-> p.theirs,
                kw |-> IF Fine(p) /\ Has(p.kw, o) /\ p.data = None THEN Without(p.kw, o) ELSE p.kw,
                data |-> IF Fine(p) /\ Has(p.kw, o) /\ p.data = None THEN p.kw[o] ELSE p.data,
                json |-> p.json, body |-> p.body, bytes |-> p.bytes, err |-> p.err]
<1> DEFINE taken == Fine(p) /\ Has(p.kw, o) /\ p.data = None
           kw == IF taken THEN Without(p.kw, o) ELSE p.kw
           data == IF taken THEN p.kw[o] ELSE p.data
           q == TakeForData(p, o)
<1>1. q = IF taken THEN [p EXCEPT !.data = p.kw[o], !.kw = Without(@, o)] ELSE p
  BY DEF TakeForData
<1>2. p = [hdr |-> p.hdr, shared |-> p.shared, theirs |-> p.theirs, kw |-> p.kw, data |-> p.data,
           json |-> p.json, body |-> p.body, bytes |-> p.bytes, err |-> p.err]
  BY DEF Careful, IsStage
<1> HIDE DEF taken, q
<1>3. q = [hdr |-> p.hdr, shared |-> p.shared, theirs |-> p.theirs, kw |-> kw, data |-> data,
           json |-> p.json, body |-> p.body, bytes |-> p.bytes, err |-> p.err]
  <2>1. CASE taken
    <3>1. q = [p EXCEPT !.data = p.kw[o], !.kw = Without(@, o)]
      BY <1>1, <2>1
    <3> QED  BY <1>2, <2>1, <3>1
  <2>2. CASE ~taken
    BY <1>1, <1>2, <2>2
  <2> QED  BY <2>1, <2>2
<1> HIDE DEF kw, data
<1>4. Careful(q, h, set, added)
  BY <1>3, SameHeadersCareful
<1> QED  BY <1>3, <1>4 DEF kw, data, taken, q

(* The deprecated body arguments become data; the headers are not touched. *)
LEMMA DeprecatedBodyIs ==
  ASSUME NEW p, NEW h, NEW set, NEW added, Careful(p, h, set, added)
  PROVE  /\ Careful(DeprecatedBody(p), h, set, added)
         /\ DeprecatedBody(p).hdr = p.hdr /\ DeprecatedBody(p).err = p.err
         /\ DeprecatedBody(p).json = p.json /\ DeprecatedBody(p).body = p.body
         /\ DeprecatedBody(p).bytes = p.bytes
<1> DEFINE q == TakeForData(p, "body")
<1>1. Careful(q, h, set, added) /\ q.hdr = p.hdr /\ q.err = p.err /\ q.json = p.json
      /\ q.body = p.body /\ q.bytes = p.bytes
  BY TakeForDataIs
<1> HIDE DEF q
<1> DEFINE r == TakeForData(q, "body_bytes")
<1>2. Careful(r, h, set, added) /\ r.hdr = q.hdr /\ r.err = q.err /\ r.json = q.json
      /\ r.body = q.body /\ r.bytes = q.bytes
  BY <1>1, TakeForDataIs
<1> QED  BY <1>1, <1>2 DEF q, DeprecatedBody

(* A User-Agent header becomes the option.                                 *)
LEMMA ExtractCareful ==
  ASSUME NEW p, NEW h, NEW set, NEW added, Careful(p, h, set, added)
  PROVE  /\ Careful(ExtractUserAgent(p), h, set, added)
         /\ ExtractUserAgent(p).err = p.err /\ ExtractUserAgent(p).data = p.data
         /\ ExtractUserAgent(p).json = p.json /\ ExtractUserAgent(p).body = p.body
         /\ ExtractUserAgent(p).bytes = p.bytes
         /\ Fine(p) => /\ ~\E n \in DOMAIN ExtractUserAgent(p).hdr : Lower[n] = "user-agent"
                       /\ \A n \in DOMAIN p.hdr : Lower[n] # "user-agent" =>
                            /\ n \in DOMAIN ExtractUserAgent(p).hdr
                            /\ ExtractUserAgent(p).hdr[n] = p.hdr[n]
                       /\ DOMAIN ExtractUserAgent(p).hdr \subseteq DOMAIN p.hdr
                       /\ \A n \in DOMAIN p.hdr : Lower[n] = "user-agent" =>
                            ExtractUserAgent(p).kw = Put(p.kw, "user_agent", p.hdr[n])
                       /\ (~\E n \in DOMAIN p.hdr : Lower[n] = "user-agent") =>
                            ExtractUserAgent(p).kw = p.kw
<1> DEFINE spelt == {n \in DOMAIN p.hdr : Lower[n] = "user-agent"}
           first == CHOOSE n \in spelt : TRUE
           d == Without(p.hdr, first)
           q == ExtractUserAgent(p)
<1>1. q = IF ~Fine(p) \/ spelt = {} THEN p
          ELSE [SetHeaders(p, d) EXCEPT !.kw = Put(@, "user_agent", p.hdr[first])]
  BY DEF ExtractUserAgent
<1>2. CASE ~Fine(p) \/ spelt = {}
  <2>1. q = p
    BY <1>1, <1>2
  <2> HIDE DEF q
  <2> QED  BY <1>2, <2>1 DEF q
<1>3. CASE Fine(p) /\ spelt # {}
  <2>1. first \in spelt /\ \A n \in spelt : n = first
    BY <1>3 DEF Careful, IsStage, IsHeaders
  <2> DEFINE f == first
  <2> HIDE DEF first
  <2>2. IsHeaders(d) /\ Keeps(p.hdr, d, set, added)
    <3>1. IsHeaders(d)
      BY WithoutIsHeaders DEF Careful, IsStage
    <3>2. Keeps(p.hdr, d, set, added)
      BY <2>1 DEF Keeps, Without
    <3> QED  BY <3>1, <3>2
  <2>3. ~\E n \in DOMAIN d : Lower[n] = "user-agent"
    BY <2>1 DEF Without
  <2>4. \A n \in DOMAIN p.hdr : Lower[n] # "user-agent" => n \in DOMAIN d /\ d[n] = p.hdr[n]
    BY <2>1 DEF Without
  <2>5. DOMAIN d \subseteq DOMAIN p.hdr
    BY DEF Without
  <2> HIDE DEF d, q
  <2> DEFINE s == SetHeaders(p, d)
  <2>6. /\ Careful(s, h, set, added)
        /\ s = [hdr |-> d, shared |-> p.shared, theirs |-> IF p.shared THEN d ELSE p.theirs,
                kw |-> p.kw, data |-> p.data, json |-> p.json, body |-> p.body,
                bytes |-> p.bytes, err |-> p.err]
    BY <2>2, SetHeadersCareful
  <2>7. q = [s EXCEPT !.kw = Put(@, "user_agent", p.hdr[first])]
    BY <1>1, <1>3
  <2> HIDE DEF s
  <2>8. q = [hdr |-> s.hdr, shared |-> s.shared, theirs |-> s.theirs,
             kw |-> Put(p.kw, "user_agent", p.hdr[first]), data |-> p.data, json |-> p.json,
             body |-> p.body, bytes |-> p.bytes, err |-> p.err]
    BY <2>6, <2>7
  <2>9. Careful(q, h, set, added)
    BY <2>6, <2>8, SameHeadersCareful
  <2>10. q.hdr = d /\ q.kw = Put(p.kw, "user_agent", p.hdr[first])
    BY <2>6, <2>8
  <2>11. \A n \in DOMAIN p.hdr : Lower[n] = "user-agent" => n = first
    BY <2>1
  <2> QED  BY <2>1, <2>3, <2>4, <2>5, <2>8, <2>9, <2>10, <2>11 DEF q
<1> QED  BY <1>2, <1>3

(* json sets the content type; a dictionary only where there is none.      *)
LEMMA EncodeBodyIs ==
  ASSUME NEW p, NEW h, NEW set, NEW added, Careful(p, h, set, added),
         "Content-Type" \in added, p.json # None => "Content-Type" \in set
  PROVE  /\ Careful(EncodeBody(p), h, set, added)
         /\ Fine(EncodeBody(p)) =>
              /\ Fine(p) /\ EncodeBody(p).kw = p.kw /\ EncodeBody(p).data = p.data
              /\ p.json # None => /\ p.data = None
                                  /\ EncodeBody(p).hdr = Put(p.hdr, "Content-Type", JsonType)
                                  /\ EncodeBody(p).body = <<"json", p.json>>
                                  /\ EncodeBody(p).bytes = p.bytes
              /\ p.json = None =>
                   /\ \/ EncodeBody(p).hdr = p.hdr
                      \/ /\ "Content-Type" \notin DOMAIN p.hdr
                         /\ EncodeBody(p).hdr = Put(p.hdr, "Content-Type", FormType)
                   /\ p.data = None => EncodeBody(p).body = p.body /\ EncodeBody(p).bytes = p.bytes
                   /\ p.data # None =>
                        \/ EncodeBody(p).body = Encoded(p.data) /\ EncodeBody(p).bytes = p.bytes
                        \/ EncodeBody(p).body = p.body /\ EncodeBody(p).bytes = Encoded(p.data)
<1> DEFINE q == EncodeBody(p)
           whole(hdr, theirs, body, bytes) ==
             [hdr |-> hdr, shared |-> p.shared, theirs |-> theirs, kw |-> p.kw, data |-> p.data,
              json |-> p.json, body |-> body, bytes |-> bytes, err |-> p.err]
<1>1. p = whole(p.hdr, p.theirs, p.body, p.bytes)
  BY DEF Careful, IsStage
<1>2. \A body, bytes : Careful(whole(p.hdr, p.theirs, body, bytes), h, set, added)
  BY SameHeadersCareful
<1>3. ASSUME NEW v, NEW body, "Content-Type" \in set \/ "Content-Type" \notin DOMAIN p.hdr
      PROVE  \E theirs :
               /\ [PutHeader(p, "Content-Type", v) EXCEPT !.body = body]
                    = whole(Put(p.hdr, "Content-Type", v), theirs, body, p.bytes)
               /\ Careful(whole(Put(p.hdr, "Content-Type", v), theirs, body, p.bytes), h, set, added)
  <2> DEFINE d == Put(p.hdr, "Content-Type", v)
             s == PutHeader(p, "Content-Type", v)
             theirs == IF p.shared THEN d ELSE p.theirs
  <2>1. /\ Careful(s, h, set, added) /\ s = SetHeaders(p, d) /\ IsHeaders(d)
    BY <1>3, PutHeaderCareful
  <2>2. Keeps(p.hdr, d, set, added)
    BY <1>3 DEF Keeps, Put
  <2> HIDE DEF d, s
  <2>3. s = whole(d, theirs, p.body, p.bytes)
    BY <2>1, <2>2, SetHeadersCareful
  <2> HIDE DEF theirs
  <2>4. [s EXCEPT !.body = body] = whole(d, theirs, body, p.bytes)
    BY <2>3
  <2>5. Careful([hdr |-> s.hdr, shared |-> s.shared, theirs |-> s.theirs, kw |-> p.kw, data |-> p.data,
                 json |-> p.json, body |-> body, bytes |-> p.bytes, err |-> p.err], h, set, added)
    BY <2>1, SameHeadersCareful
  <2>6. Careful(whole(d, theirs, body, p.bytes), h, set, added)
    BY <2>3, <2>5
  <2> QED  BY <2>4, <2>6 DEF d, s
<1>4. CASE ~Fine(p)
  <2>1. q = p
    BY <1>4 DEF EncodeBody
  <2> QED  BY <1>4, <2>1
<1>5. CASE Fine(p) /\ p.json # None /\ p.data # None
  <2>1. q = Raise(p, "ValueError")
    BY <1>5 DEF EncodeBody
  <2>2. q.err = "ValueError"
    BY <1>1, <2>1 DEF Raise
  <2>3. ~Fine(q)
    BY <2>2, NoneAssumption DEF Fine
  <2>4. Careful(q, h, set, added)
    BY <2>1, RaiseCareful
  <2> QED  BY <2>3, <2>4
<1>6. CASE Fine(p) /\ p.json # None /\ p.data = None
  <2>1. q = [PutHeader(p, "Content-Type", JsonType) EXCEPT !.body = <<"json", p.json>>]
    BY <1>6 DEF EncodeBody
  <2> DEFINE e == <<"json", p.json>>
             s == [PutHeader(p, "Content-Type", JsonType) EXCEPT !.body = e]
  <2>2. "Content-Type" \in set \/ "Content-Type" \notin DOMAIN p.hdr
    BY <1>6 DEF Has
  <2> HIDE DEF e, q
  <2>3. PICK theirs :
          /\ s = whole(Put(p.hdr, "Content-Type", JsonType), theirs, e, p.bytes)
          /\ Careful(whole(Put(p.hdr, "Content-Type", JsonType), theirs, e, p.bytes), h, set, added)
    BY <1>3, <2>2
  <2>4. q = s
    BY <2>1 DEF e
  <2> HIDE DEF s
  <2> QED  BY <1>6, <2>3, <2>4 DEF Fine, Has, q, e
<1>7. CASE Fine(p) /\ p.json = None /\ p.data = None
  <2>1. q = p
    BY <1>7 DEF EncodeBody
  <2> QED  BY <1>7, <2>1
<1>8. CASE Fine(p) /\ p.json = None /\ p.data # None /\ p.data.kind = "dict" /\ ~Has(p.hdr, "Content-Type")
  <2>1. q = [PutHeader(p, "Content-Type", FormType) EXCEPT !.body = Encoded(p.data)]
    BY <1>8 DEF EncodeBody
  <2> DEFINE e == Encoded(p.data)
             s == [PutHeader(p, "Content-Type", FormType) EXCEPT !.body = e]
  <2>2. "Content-Type" \in set \/ "Content-Type" \notin DOMAIN p.hdr
    BY <1>8 DEF Has
  <2> HIDE DEF e, q
  <2>3. PICK theirs :
          /\ s = whole(Put(p.hdr, "Content-Type", FormType), theirs, e, p.bytes)
          /\ Careful(whole(Put(p.hdr, "Content-Type", FormType), theirs, e, p.bytes), h, set, added)
    BY <1>3, <2>2
  <2>4. q = s
    BY <2>1 DEF e
  <2> HIDE DEF s
  <2> QED  BY <1>8, <2>3, <2>4 DEF Fine, Has, q, e
<1>9. CASE Fine(p) /\ p.json = None /\ p.data # None /\ (p.data.kind # "dict" \/ Has(p.hdr, "Content-Type"))
  <2> DEFINE e == Encoded(p.data)
  <2>1. q = [p EXCEPT !.body = e] \/ q = [p EXCEPT !.bytes = e]
    BY <1>9 DEF EncodeBody
  <2> HIDE DEF q, e
  <2>2. q = whole(p.hdr, p.theirs, e, p.bytes) \/ q = whole(p.hdr, p.theirs, p.body, e)
    BY <1>1, <2>1
  <2>3. Careful(q, h, set, added)
    BY <1>2, <2>2
  <2> QED  BY <1>9, <2>2, <2>3 DEF Fine, q, e
<1> QED  BY <1>4, <1>5, <1>6, <1>7, <1>8, <1>9

(* Files are encoded with the form fields, and set the content type.       *)
LEMMA FilesIs ==
  ASSUME NEW p, NEW h, NEW set, NEW added, Careful(p, h, set, added), NEW a,
         "Content-Type" \in added, a.files # None => "Content-Type" \in set
  PROVE  /\ Careful(AttachFiles(p, a), h, set, added)
         /\ Fine(AttachFiles(p, a)) =>
              /\ Fine(p) /\ AttachFiles(p, a).kw = p.kw /\ AttachFiles(p, a).body = p.body
              /\ a.files = None => AttachFiles(p, a) = p
              /\ a.files # None =>
                   /\ AttachFiles(p, a).hdr = Put(p.hdr, "Content-Type", "multipart/form-data")
                   /\ AttachFiles(p, a).bytes =
                        EncodeMultipart(IF p.data # None /\ p.data.kind = "dict" THEN p.data ELSE None,
                                        a.files)
<1> DEFINE q == AttachFiles(p, a)
<1>1. p = [hdr |-> p.hdr, shared |-> p.shared, theirs |-> p.theirs, kw |-> p.kw, data |-> p.data,
           json |-> p.json, body |-> p.body, bytes |-> p.bytes, err |-> p.err]
  BY DEF Careful, IsStage
<1>2. CASE ~Fine(p) \/ a.files = None
  <2>1. q = p
    BY <1>2 DEF AttachFiles
  <2> QED  BY <1>2, <2>1
<1>3. CASE Fine(p) /\ a.files # None /\ BadFileInfo(a.files)
  <2>1. q = Raise(p, "ValueError")
    BY <1>3 DEF AttachFiles
  <2>2. q.err = "ValueError"
    BY <1>1, <2>1 DEF Raise
  <2>3. ~Fine(q)
    BY <2>2, NoneAssumption DEF Fine
  <2>4. Careful(q, h, set, added)
    BY <2>1, RaiseCareful
  <2> QED  BY <2>3, <2>4
<1>4. CASE Fine(p) /\ a.files # None /\ ~BadFileInfo(a.files)
  <2> DEFINE d == Put(p.hdr, "Content-Type", "multipart/form-data")
             s == PutHeader(p, "Content-Type", "multipart/form-data")
             e == EncodeMultipart(IF p.data # None /\ p.data.kind = "dict" THEN p.data ELSE None, a.files)
  <2>1. q = [s EXCEPT !.bytes = e]
    BY <1>4 DEF AttachFiles
  <2>2. Careful(s, h, set, added) /\ s = SetHeaders(p, d) /\ IsHeaders(d)
    BY <1>4, PutHeaderCareful
  <2>3. Keeps(p.hdr, d, set, added)
    BY <1>4 DEF Keeps, Put
  <2> HIDE DEF d, s, e, q
  <2>4. s = [hdr |-> d, shared |-> p.shared, theirs |-> IF p.shared THEN d ELSE p.theirs,
             kw |-> p.kw, data |-> p.data, json |-> p.json, body |-> p.body,
             bytes |-> p.bytes, err |-> p.err]
    BY <2>2, <2>3, SetHeadersCareful
  <2>5. q = [hdr |-> s.hdr, shared |-> s.shared, theirs |-> s.theirs, kw |-> p.kw, data |-> p.data,
             json |-> p.json, body |-> p.body, bytes |-> e, err |-> p.err]
    BY <2>1, <2>4
  <2>6. Careful(q, h, set, added)
    BY <2>2, <2>5, SameHeadersCareful
  <2>7. q.hdr = d /\ q.kw = p.kw /\ q.body = p.body /\ q.bytes = e
    BY <2>4, <2>5
  <2> QED  BY <1>4, <2>6, <2>7 DEF d, e, q
<1> QED  BY <1>2, <1>3, <1>4

(* Cookies become a list of dictionaries and are dropped if there are      *)
(* none; the other options stay.                                           *)
LEMMA CookiesAre ==
  ASSUME NEW p, NEW h, NEW set, NEW added, Careful(p, h, set, added),
         Fine(p) => p.kw = [o \in DOMAIN p.kw |-> p.kw[o]]
  PROVE  /\ Careful(NormaliseCookies(p), h, set, added)
         /\ NormaliseCookies(p).err = p.err /\ NormaliseCookies(p).hdr = p.hdr
         /\ NormaliseCookies(p).body = p.body /\ NormaliseCookies(p).bytes = p.bytes
         /\ \A o : o # "cookies" => /\ o \in DOMAIN NormaliseCookies(p).kw <=> o \in DOMAIN p.kw
                                    /\ o \in DOMAIN p.kw => NormaliseCookies(p).kw[o] = p.kw[o]
         /\ Fine(p) =>
              /\ Has(NormaliseCookies(p).kw, "cookies") <=> Has(p.kw, "cookies") /\ p.kw.cookies # None
              /\ Has(p.kw, "cookies") /\ p.kw.cookies # None =>
                   NormaliseCookies(p).kw.cookies = p.kw.cookies.items
<1> DEFINE q == NormaliseCookies(p)
<1>1. p = [hdr |-> p.hdr, shared |-> p.shared, theirs |-> p.theirs, kw |-> p.kw, data |-> p.data,
           json |-> p.json, body |-> p.body, bytes |-> p.bytes, err |-> p.err]
  BY DEF Careful, IsStage
<1>2. CASE ~Fine(p) \/ ~Has(p.kw, "cookies")
  <2>1. q = p
    BY <1>2 DEF NormaliseCookies
  <2> QED  BY <1>2, <2>1
<1>3. CASE Fine(p) /\ Has(p.kw, "cookies") /\ p.kw.cookies = None
  <2> DEFINE kw == Without(p.kw, "cookies")
  <2>1. q = [p EXCEPT !.kw = kw]
    BY <1>3 DEF NormaliseCookies
  <2>2. "cookies" \notin DOMAIN kw
    BY DEF Without
  <2>3. \A o : o # "cookies" => (o \in DOMAIN kw <=> o \in DOMAIN p.kw) /\ (o \in DOMAIN p.kw => kw[o] = p.kw[o])
    BY DEF Without
  <2> HIDE DEF kw, q
  <2>4. q = [hdr |-> p.hdr, shared |-> p.shared, theirs |-> p.theirs, kw |-> kw, data |-> p.data,
             json |-> p.json, body |-> p.body, bytes |-> p.bytes, err |-> p.err]
    BY <1>1, <2>1
  <2>5. Careful(q, h, set, added)
    BY <2>4, SameHeadersCareful
  <2> QED  BY <1>3, <2>2, <2>3, <2>4, <2>5 DEF q, Has
<1>4. CASE Fine(p) /\ Has(p.kw, "cookies") /\ p.kw.cookies # None
  <2> DEFINE kw == [p.kw EXCEPT !["cookies"] = p.kw.cookies.items]
  <2>1. q = [p EXCEPT !.kw = kw]
    BY <1>4 DEF NormaliseCookies
  <2>2. DOMAIN kw = DOMAIN p.kw /\ kw["cookies"] = p.kw.cookies.items
    BY <1>4 DEF Has
  <2>3. \A o \in DOMAIN p.kw : o # "cookies" => kw[o] = p.kw[o]
    OBVIOUS
  <2> HIDE DEF kw, q
  <2>4. q = [hdr |-> p.hdr, shared |-> p.shared, theirs |-> p.theirs, kw |-> kw, data |-> p.data,
             json |-> p.json, body |-> p.body, bytes |-> p.bytes, err |-> p.err]
    BY <1>1, <2>1
  <2>5. Careful(q, h, set, added)
    BY <2>4, SameHeadersCareful
  <2> QED  BY <1>4, <2>2, <2>3, <2>4, <2>5 DEF q, Has
<1> QED  BY <1>2, <1>3, <1>4

(* A fingerprint leaves the JSON alone, and an earlier exception stands.   *)
LEMMA FingerprintKeepsJson ==
  ASSUME GoodRegistry(profiles), NEW p, NEW a, IsEntry(a), NEW h, NEW set, NEW added,
         Careful(p, h, set, added), AddedFor(ProfileOf(a)) \subseteq added
  PROVE  /\ ApplyFingerprint(p, a, profiles).json = p.json
         /\ Fine(ApplyFingerprint(p, a, profiles)) => Fine(p)
<1> DEFINE q == ApplyFingerprint(p, a, profiles)
           profile == ProfileOf(a)
<1>1. CASE q = p
  BY <1>1
<1>2. CASE q = Raise(p, "KeyError")
  <2>1. q.json = p.json /\ q.err = "KeyError"
    BY <1>2 DEF Raise, Careful, IsStage
  <2> QED  BY <2>1, NoneAssumption DEF Fine
<1>3. CASE q = ApplyToKwargs(p, profile) /\ Fine(p) /\ profile # None
  <2>1. IsProfile(profile)
    BY <1>3, FingerprintIs
  <2>2. DOMAIN DynamicSecChUa(profile) \subseteq added
    BY <1>3 DEF AddedFor
  <2> QED  BY <1>3, <2>1, <2>2, ApplyToKwargsIs
<1>4. q = p \/ q = Raise(p, "KeyError") \/ (q = ApplyToKwargs(p, profile) /\ Fine(p) /\ profile # None)
  BY DEF ApplyFingerprint, ProfileOf, IsEntry, GoodRegistry, IsProfile, Has
<1> QED  BY <1>1, <1>2, <1>3, <1>4

(* The stages of _prepare_request, one after the other.                    *)
Named(closed, a) == ApplyAuth(JsonAlias(CheckOpen(Start(a), closed), a), a)
Styled(closed, a) == DeprecatedBody(ApplyFingerprint(Named(closed, a), a, profiles))
Bodied(closed, a) == EncodeBody(ExtractUserAgent(Styled(closed, a)))
Filled(closed, a) == AttachFiles(Bodied(closed, a), a)
Ready(closed, a) == NormaliseCookies(Filled(closed, a))

Tended(p, a) == Careful(p, HeadersOf(a), SetFor(a), AddedFor(ProfileOf(a)))

(* _prepare_request is its stages, one after the other.                    *)
LEMMA StagesOfPrepareRequest ==
  ASSUME NEW closed, NEW a
  PROVE  LET ready == Ready(closed, a)
             last == IF Fine(ready) /\ ~(DOMAIN ready.kw \subseteq RequestOptions)
                     THEN Raise(ready, "TypeError") ELSE ready
         IN  PrepareRequest(closed, a, profiles) =
               [err |-> last.err, theirs |-> last.theirs,
                payload |-> IF Fine(last) THEN ToDict(last, a) ELSE None]
  BY DEF PrepareRequest, Ready, Filled, Bodied, Styled, Named

(* The keyword arguments before the cookies are a dictionary.              *)
IsDict(d) == d = [o \in DOMAIN d |-> d[o]]

(* After the checks, json and auth.                                        *)
LEMMA NamedIs ==
  ASSUME NEW a, IsEntry(a), NEW closed \in BOOLEAN
  PROVE  /\ Tended(Named(closed, a), a)
         /\ Named(closed, a).json # None => JsonOf(a) # None
         /\ Fine(Named(closed, a)) =>
              /\ Named(closed, a).json = JsonOf(a) /\ Named(closed, a).kw = Without(a.kw, "headers")
              /\ Named(closed, a).data = a.data
              /\ Named(closed, a).body = None /\ Named(closed, a).bytes = None
              /\ Named(closed, a).hdr = IF a.auth = None THEN HeadersOf(a)
                                        ELSE Put(HeadersOf(a), "Authorization", <<"Basic", a.auth>>)
<1> DEFINE start == Start(a)
           opened == CheckOpen(start, closed)
           aliased == JsonAlias(opened, a)
<1>1. Tended(start, a)
  BY StartCareful DEF Tended
<1>2. /\ start.hdr = HeadersOf(a) /\ start.kw = Without(a.kw, "headers") /\ start.data = a.data
      /\ start.json = a.json_data /\ start.body = None /\ start.bytes = None
  BY DEF Start, HeadersOf
<1> HIDE DEF start
<1>3. Tended(opened, a) /\ opened.json = a.json_data /\ (Fine(opened) => opened = start)
  <2>1. Tended(opened, a) /\ (Fine(opened) => opened = start)
    BY <1>1, OpenAndJsonCareful, OpenAndJsonAre DEF Tended
  <2>2. opened.json = start.json
    BY <1>1 DEF CheckOpen, Raise, Tended, Careful, IsStage
  <2> QED  BY <1>2, <2>1, <2>2
<1> HIDE DEF opened
<1>4. /\ Tended(aliased, a)
      /\ Fine(aliased) => /\ Fine(opened) /\ aliased.json = JsonOf(a) /\ aliased.kw = opened.kw
                          /\ aliased.data = opened.data /\ aliased.hdr = opened.hdr
                          /\ aliased.body = opened.body /\ aliased.bytes = opened.bytes
      /\ aliased.json # None => JsonOf(a) # None
  <2>1. Tended(aliased, a)
    BY <1>3, OpenAndJsonCareful DEF Tended
  <2>2. Fine(aliased) =>
          /\ Fine(opened)
          /\ aliased = [hdr |-> opened.hdr, shared |-> opened.shared, theirs |-> opened.theirs,
                        kw |-> opened.kw, data |-> opened.data,
                        json |-> IF opened.json # None THEN opened.json ELSE a.json,
                        body |-> opened.body, bytes |-> opened.bytes, err |-> opened.err]
    BY <1>3, OpenAndJsonAre DEF Tended
  <2>3. aliased.json \in {a.json_data, a.json}
    BY <1>3 DEF JsonAlias, Raise, Tended, Careful, IsStage
  <2>4. aliased.json # None => JsonOf(a) # None
    BY <2>3 DEF JsonOf
  <2> HIDE DEF aliased
  <2> QED  BY <1>3, <2>1, <2>2, <2>4 DEF JsonOf
<1> HIDE DEF aliased
<1>5. (a.auth # None => "Authorization" \in SetFor(a)) /\ "Authorization" \in AddedFor(ProfileOf(a))
  BY DEF SetFor, AddedFor
<1> DEFINE named == ApplyAuth(aliased, a)
<1>6. named = Named(closed, a)
  BY DEF Named, aliased, opened, start
<1>7. Tended(named, a)
  BY <1>4, <1>5, AuthCareful DEF Tended
<1>8. /\ named.err = aliased.err /\ named.kw = aliased.kw /\ named.data = aliased.data
      /\ named.json = aliased.json /\ named.body = aliased.body /\ named.bytes = aliased.bytes
      /\ Fine(aliased) => named.hdr = IF a.auth = None THEN aliased.hdr
                                      ELSE Put(aliased.hdr, "Authorization", <<"Basic", a.auth>>)
  BY <1>4, <1>5, AuthIs DEF Tended
<1> HIDE DEF named
<1> QED  BY <1>2, <1>3, <1>4, <1>6, <1>7, <1>8 DEF Fine

(* One body is given at most, and what is asked for as such.               *)
OneBody(a) ==
  /\ \A o \in {"body", "body_bytes"} : Has(a.kw, o) => a.data = None
  /\ ~(Has(a.kw, "body") /\ Has(a.kw, "body_bytes"))
DataOf(a) == IF a.data # None THEN a.data
             ELSE IF Has(a.kw, "body") THEN a.kw.body
             ELSE IF Has(a.kw, "body_bytes") THEN a.kw.body_bytes ELSE None

(* An option is that of the call, else that of its profile.                *)
OptionIs(kw, o, a, profile) ==
  /\ o \in DOMAIN kw <=> o \in DOMAIN a.kw \/ (profile # None /\ o \in DOMAIN profile.opts)
  /\ o \in DOMAIN a.kw => kw[o] = a.kw[o]
  /\ o \in DOMAIN kw /\ o \notin DOMAIN a.kw => kw[o] = profile.opts[o]

OptionsAre(kw, a, profile) ==
  /\ IsDict(kw) /\ {"body", "body_bytes", "headers"} \cap DOMAIN kw = {}
  /\ \A o : o \notin {"body", "body_bytes", "headers"} => OptionIs(kw, o, a, profile)

(* The headers of the call over those of its profile, and auth over both.  *)
HeadersAre(hdr, a, profile) ==
  /\ \A n \in DOMAIN HeadersOf(a) : n \notin SetFor(a) => n \in DOMAIN hdr /\ hdr[n] = HeadersOf(a)[n]
  /\ \A n \in DOMAIN hdr : Lower[n] = "user-agent" =>
       n \in DOMAIN HeadersOf(a) /\ hdr[n] = HeadersOf(a)[n]
  /\ profile # None /\ profile.headers # None =>
       \A n \in DOMAIN profile.headers : n \notin SetFor(a) =>
         n \in DOMAIN hdr /\ (n \notin DOMAIN HeadersOf(a) => hdr[n] = profile.headers[n])
  /\ a.auth # None => /\ "Authorization" \in DOMAIN hdr
                      /\ hdr["Authorization"] = <<"Basic", a.auth>>

(* The headers of a call without a profile are its own and auth's.         *)
LEMMA NamedHeadersAre ==
  ASSUME NEW a, NEW hdr,
         hdr = IF a.auth = None THEN HeadersOf(a)
               ELSE Put(HeadersOf(a), "Authorization", <<"Basic", a.auth>>)
  PROVE  HeadersAre(hdr, a, None)
<1>1. CASE a.auth = None
  BY <1>1 DEF HeadersAre
<1>2. CASE a.auth # None
  <2>1. DOMAIN hdr = DOMAIN HeadersOf(a) \cup {"Authorization"}
    BY <1>2 DEF Put
  <2>2. \A n \in DOMAIN hdr : hdr[n] = IF n = "Authorization" THEN <<"Basic", a.auth>> ELSE HeadersOf(a)[n]
    BY <1>2 DEF Put
  <2>3. "Authorization" \in SetFor(a)
    BY <1>2 DEF SetFor
  <2>4. Lower["Authorization"] # "user-agent"
    BY LowerAssumption
  <2> QED  BY <2>1, <2>2, <2>3, <2>4 DEF HeadersAre
<1> QED  BY <1>1, <1>2

(* A profile's headers come below those of the call.                       *)
LEMMA ProfileHeadersAre ==
  ASSUME NEW a, NEW h, HeadersAre(h, a, None), NEW profile, IsProfile(profile), NEW hdr,
         hdr = Over(IF profile.headers = None THEN h ELSE Over(h, profile.headers),
                    DynamicSecChUa(profile)),
         a.auth = None \/ "Authorization" \in SetFor(a),
         \A n \in DOMAIN h : n \in SetFor(a) \/ n \in DOMAIN HeadersOf(a)
  PROVE  HeadersAre(hdr, a, profile)
<1> DEFINE below == IF profile.headers = None THEN h ELSE Over(h, profile.headers)
<1>1. /\ DOMAIN h \subseteq DOMAIN below /\ \A n \in DOMAIN h : below[n] = h[n]
      /\ \A n \in DOMAIN below : Lower[n] = "user-agent" => n \in DOMAIN h
      /\ profile.headers # None =>
           \A n \in DOMAIN profile.headers : n \in DOMAIN below /\ (n \notin DOMAIN h => below[n] = profile.headers[n])
  BY DEF Over, IsProfile
<1> HIDE DEF below
<1>2. /\ DOMAIN below \subseteq DOMAIN hdr /\ \A n \in DOMAIN below : hdr[n] = below[n]
      /\ \A n \in DOMAIN hdr : Lower[n] = "user-agent" => n \in DOMAIN below
  <2>1. hdr = Over(below, DynamicSecChUa(profile))
    BY DEF below
  <2> QED  BY <2>1, HintNames DEF Over
<1>3. profile # None
  BY DEF IsProfile
<1>4. \A n \in DOMAIN HeadersOf(a) : n \notin SetFor(a) => n \in DOMAIN hdr /\ hdr[n] = HeadersOf(a)[n]
  BY <1>1, <1>2 DEF HeadersAre
<1>5. \A n \in DOMAIN hdr : Lower[n] = "user-agent" => n \in DOMAIN HeadersOf(a) /\ hdr[n] = HeadersOf(a)[n]
  BY <1>1, <1>2 DEF HeadersAre
<1>6. profile.headers # None =>
        \A n \in DOMAIN profile.headers : n \notin SetFor(a) =>
          n \in DOMAIN hdr /\ (n \notin DOMAIN HeadersOf(a) => hdr[n] = profile.headers[n])
  BY <1>1, <1>2
<1>7. a.auth # None => "Authorization" \in DOMAIN hdr /\ hdr["Authorization"] = <<"Basic", a.auth>>
  BY <1>1, <1>2 DEF HeadersAre
<1> QED  BY <1>4, <1>5, <1>6, <1>7 DEF HeadersAre

(* A profile's options come below those of the call.                       *)
LEMMA ProfiledOptions ==
  ASSUME NEW a, IsEntry(a), NEW profile, profile # None => IsProfile(profile), NEW kw,
         kw = IF profile = None THEN Without(a.kw, "headers") ELSE Over(Without(a.kw, "headers"), profile.opts)
  PROVE  /\ IsDict(kw) /\ "headers" \notin DOMAIN kw
         /\ \A o \in {"body", "body_bytes"} : (o \in DOMAIN kw <=> o \in DOMAIN a.kw)
                                              /\ (o \in DOMAIN kw => kw[o] = a.kw[o])
         /\ \A o : o # "headers" => OptionIs(kw, o, a, profile)
<1> DEFINE w == Without(a.kw, "headers")
<1>1. IsDict(w) /\ DOMAIN w = DOMAIN a.kw \ {"headers"} /\ \A o \in DOMAIN w : w[o] = a.kw[o]
  BY DEF Without, IsDict
<1> HIDE DEF w
<1>2. CASE profile = None
  <2>1. kw = w
    BY <1>2 DEF w
  <2> QED  BY <1>1, <1>2, <2>1 DEF OptionIs
<1>3. CASE profile # None
  <2>1. DOMAIN profile.opts \cap {"headers", "body", "body_bytes"} = {}
    BY <1>3 DEF IsProfile, ProfileOptions
  <2>2. kw = Over(w, profile.opts)
    BY <1>3 DEF w
  <2>3. IsDict(kw) /\ DOMAIN kw = DOMAIN w \cup DOMAIN profile.opts
        /\ \A o \in DOMAIN kw : kw[o] = IF o \in DOMAIN w THEN w[o] ELSE profile.opts[o]
    BY <2>2 DEF Over, IsDict
  <2> QED  BY <1>1, <1>3, <2>1, <2>3 DEF OptionIs
<1> QED  BY <1>2, <1>3

(* The deprecated options are taken for the body.                          *)
LEMMA TakenIs ==
  ASSUME NEW a, OneBody(a), NEW profile, NEW p, NEW h, NEW set, NEW added, Careful(p, h, set, added), Fine(p),
         p.data = a.data, IsDict(p.kw), "headers" \notin DOMAIN p.kw,
         \A o \in {"body", "body_bytes"} : (o \in DOMAIN p.kw <=> o \in DOMAIN a.kw)
                                           /\ (o \in DOMAIN p.kw => p.kw[o] = a.kw[o]),
         \A o : o # "headers" => OptionIs(p.kw, o, a, profile)
  PROVE  DeprecatedBody(p).data = DataOf(a) /\ OptionsAre(DeprecatedBody(p).kw, a, profile)
<1> DEFINE q == TakeForData(p, "body")
           r == TakeForData(q, "body_bytes")
<1>1. /\ Careful(q, h, set, added) /\ Fine(q)
      /\ q.kw = IF Has(p.kw, "body") /\ p.data = None THEN Without(p.kw, "body") ELSE p.kw
      /\ q.data = IF Has(p.kw, "body") /\ p.data = None THEN p.kw["body"] ELSE p.data
  BY TakeForDataIs DEF Fine
<1> HIDE DEF q
<1>2. /\ r.kw = IF Has(q.kw, "body_bytes") /\ q.data = None THEN Without(q.kw, "body_bytes") ELSE q.kw
      /\ r.data = IF Has(q.kw, "body_bytes") /\ q.data = None THEN q.kw["body_bytes"] ELSE q.data
  BY <1>1, TakeForDataIs
<1> HIDE DEF r
<1>3. CASE Has(a.kw, "body")
  <2>1. a.data = None /\ ~Has(a.kw, "body_bytes")
    BY <1>3 DEF OneBody
  <2>2. q.kw = Without(p.kw, "body") /\ q.data = a.kw.body
    BY <1>1, <1>3, <2>1 DEF Has
  <2>3. r.kw = Without(p.kw, "body") /\ r.data = a.kw.body
    BY <1>2, <2>1, <2>2 DEF Has, Without
  <2>4. OptionsAre(r.kw, a, profile)
    BY <2>1, <2>3 DEF OptionsAre, OptionIs, IsDict, Without, Has
  <2>5. r.data = DataOf(a)
    BY <1>3, <2>1, <2>3 DEF DataOf
  <2> QED  BY <2>4, <2>5 DEF DeprecatedBody, q, r
<1>4. CASE ~Has(a.kw, "body") /\ Has(a.kw, "body_bytes")
  <2>1. a.data = None
    BY <1>4 DEF OneBody
  <2>2. q.kw = p.kw /\ q.data = None
    BY <1>1, <1>4, <2>1 DEF Has
  <2>3. r.kw = Without(p.kw, "body_bytes") /\ r.data = a.kw.body_bytes
    BY <1>2, <1>4, <2>2 DEF Has
  <2>4. OptionsAre(r.kw, a, profile)
    BY <1>4, <2>3 DEF OptionsAre, OptionIs, IsDict, Without, Has
  <2>5. r.data = DataOf(a)
    BY <1>4, <2>1, <2>3 DEF DataOf
  <2> QED  BY <2>4, <2>5 DEF DeprecatedBody, q, r
<1>5. CASE ~Has(a.kw, "body") /\ ~Has(a.kw, "body_bytes")
  <2>1. r.kw = p.kw /\ r.data = a.data
    BY <1>1, <1>2, <1>5 DEF Has
  <2>2. OptionsAre(r.kw, a, profile)
    BY <1>5, <2>1 DEF OptionsAre, IsDict, Has
  <2>3. r.data = DataOf(a)
    BY <1>5, <2>1 DEF DataOf
  <2> QED  BY <2>2, <2>3 DEF DeprecatedBody, q, r
<1> QED  BY <1>3, <1>4, <1>5

(* After the fingerprint and the deprecated body arguments.                *)
LEMMA StyledIs ==
  ASSUME GoodRegistry(profiles), NEW a, IsEntry(a), OneBody(a), NEW closed \in BOOLEAN
  PROVE  /\ Tended(Styled(closed, a), a)
         /\ Styled(closed, a).json # None => JsonOf(a) # None
         /\ ProfileOf(a) # None => IsProfile(ProfileOf(a))
         /\ Fine(Styled(closed, a)) =>
              /\ Styled(closed, a).json = JsonOf(a) /\ Styled(closed, a).data = DataOf(a)
              /\ Styled(closed, a).body = None /\ Styled(closed, a).bytes = None
              /\ OptionsAre(Styled(closed, a).kw, a, ProfileOf(a))
              /\ HeadersAre(Styled(closed, a).hdr, a, ProfileOf(a))
<1> DEFINE named == Named(closed, a)
           profile == ProfileOf(a)
           q == ApplyFingerprint(named, a, profiles)
           styled == DeprecatedBody(q)
<1>1. Tended(named, a) /\ (named.json # None => JsonOf(a) # None)
  BY NamedIs
<1>2. Fine(named) =>
        /\ named.json = JsonOf(a) /\ named.kw = Without(a.kw, "headers") /\ named.data = a.data
        /\ named.body = None /\ named.bytes = None
        /\ named.hdr = IF a.auth = None THEN HeadersOf(a)
                       ELSE Put(HeadersOf(a), "Authorization", <<"Basic", a.auth>>)
  BY NamedIs
<1> HIDE DEF named
<1>3. /\ Tended(q, a) /\ q.json = named.json /\ (Fine(q) => Fine(named))
      /\ profile # None => IsProfile(profile)
      /\ Fine(q) => IF profile # None THEN q = ApplyToKwargs(named, profile) ELSE q = named
  <2>1. Tended(q, a) /\ (profile # None => IsProfile(profile))
    BY <1>1, FingerprintIs DEF Tended
  <2>2. q.json = named.json /\ (Fine(q) => Fine(named))
    BY <1>1, FingerprintKeepsJson DEF Tended
  <2>3. Fine(q) => IF profile # None THEN q = ApplyToKwargs(named, profile) ELSE q = named
    <3>1. Fine(q) => q.err # "KeyError"
      BY NoneAssumption DEF Fine
    <3>2. q.err # "KeyError" \/ named.err = "KeyError" =>
            IF Fine(named) /\ profile # None THEN q = ApplyToKwargs(named, profile) ELSE q = named
      BY <1>1, FingerprintIs DEF Tended
    <3> QED  BY <2>2, <3>1, <3>2
  <2> QED  BY <2>1, <2>2, <2>3
<1> HIDE DEF q
<1>4. Tended(styled, a) /\ styled.hdr = q.hdr /\ styled.err = q.err /\ styled.json = q.json
      /\ styled.body = q.body /\ styled.bytes = q.bytes
  BY <1>3, DeprecatedBodyIs DEF Tended
<1>5. styled = Styled(closed, a)
  BY DEF Styled, q, named
<1>6. ASSUME Fine(q)
      PROVE  /\ q.json = JsonOf(a) /\ q.data = a.data /\ q.body = None /\ q.bytes = None
             /\ q.kw = IF profile = None THEN Without(a.kw, "headers")
                       ELSE Over(Without(a.kw, "headers"), profile.opts)
             /\ HeadersAre(q.hdr, a, profile)
  <2>1. HeadersAre(named.hdr, a, None)
    BY <1>2, <1>3, <1>6, NamedHeadersAre
  <2>2. CASE profile = None
    BY <1>2, <1>3, <1>6, <2>1, <2>2
  <2>3. CASE profile # None
    <3>1. q = ApplyToKwargs(named, profile) /\ Fine(named) /\ IsProfile(profile)
      BY <1>3, <1>6, <2>3
    <3>2. DOMAIN DynamicSecChUa(profile) \subseteq AddedFor(profile)
      BY <2>3 DEF AddedFor
    <3>3. /\ q.hdr = Over(IF profile.headers = None THEN named.hdr ELSE Over(named.hdr, profile.headers),
                          DynamicSecChUa(profile))
          /\ q.kw = Over(named.kw, profile.opts) /\ q.data = named.data /\ q.json = named.json
          /\ q.body = named.body /\ q.bytes = named.bytes
      BY <1>1, <3>1, <3>2, ApplyToKwargsIs DEF Tended
    <3>4. (a.auth = None \/ "Authorization" \in SetFor(a))
          /\ \A n \in DOMAIN named.hdr : n \in SetFor(a) \/ n \in DOMAIN HeadersOf(a)
      BY <1>2, <3>1 DEF SetFor, Put
    <3>5. HeadersAre(q.hdr, a, profile)
      BY <2>1, <3>1, <3>3, <3>4, ProfileHeadersAre
    <3> HIDE DEF profile
    <3> QED  BY <1>2, <2>3, <3>1, <3>3, <3>5
  <2> QED  BY <2>2, <2>3
<1>7. ASSUME Fine(q)
      PROVE  styled.data = DataOf(a) /\ OptionsAre(styled.kw, a, profile)
  <2>1. /\ IsDict(q.kw) /\ "headers" \notin DOMAIN q.kw
        /\ \A o \in {"body", "body_bytes"} : (o \in DOMAIN q.kw <=> o \in DOMAIN a.kw)
                                             /\ (o \in DOMAIN q.kw => q.kw[o] = a.kw[o])
        /\ \A o : o # "headers" => OptionIs(q.kw, o, a, profile)
    BY <1>3, <1>6, <1>7, ProfiledOptions
  <2> HIDE DEF profile
  <2> QED  BY <1>3, <1>6, <1>7, <2>1, TakenIs DEF Tended
<1> HIDE DEF styled
<1> QED  BY <1>1, <1>3, <1>4, <1>5, <1>6, <1>7 DEF Fine

(* What leaves _prepare_request: the headers,                              *)
SentHeaders(hdr, a, profile) ==
  /\ ~\E n \in DOMAIN hdr : Lower[n] = "user-agent"
  /\ \A n \in DOMAIN HeadersOf(a) : Lower[n] # "user-agent" /\ n \notin SetFor(a) =>
       n \in DOMAIN hdr /\ hdr[n] = HeadersOf(a)[n]
  /\ profile # None /\ profile.headers # None =>
       \A n \in DOMAIN profile.headers : n \notin SetFor(a) =>
         n \in DOMAIN hdr /\ (n \notin DOMAIN HeadersOf(a) => hdr[n] = profile.headers[n])
  /\ a.auth # None => /\ "Authorization" \in DOMAIN hdr
                      /\ hdr["Authorization"] = <<"Basic", a.auth>>

(* the options,                                                            *)
SentAgent(kw, a, profile) ==
  /\ \A n \in DOMAIN HeadersOf(a) : Lower[n] = "user-agent" =>
       "user_agent" \in DOMAIN kw /\ kw["user_agent"] = HeadersOf(a)[n]
  /\ (~\E n \in DOMAIN HeadersOf(a) : Lower[n] = "user-agent") => OptionIs(kw, "user_agent", a, profile)

SentOptions(kw, a, profile) ==
  /\ \A o : o \notin {"body", "body_bytes", "headers", "user_agent", "cookies"} => OptionIs(kw, o, a, profile)
  /\ {"body", "body_bytes", "headers"} \cap DOMAIN kw = {}
  /\ SentAgent(kw, a, profile)
  /\ Has(kw, "cookies") <=> Has(a.kw, "cookies") /\ a.kw.cookies # None
  /\ Has(a.kw, "cookies") /\ a.kw.cookies # None => kw["cookies"] = a.kw.cookies.items

(* and the body.                                                           *)
SentBody(body, bytes, a) ==
  /\ a.files # None =>
       bytes = EncodeMultipart(IF DataOf(a) # None /\ DataOf(a).kind = "dict" THEN DataOf(a) ELSE None, a.files)
  /\ a.files = None /\ JsonOf(a) # None => body = <<"json", JsonOf(a)>> /\ bytes = None
  /\ a.files = None /\ JsonOf(a) = None /\ DataOf(a) # None =>
       \/ body = Encoded(DataOf(a)) /\ bytes = None
       \/ body = None /\ bytes = Encoded(DataOf(a))
  /\ a.files = None /\ JsonOf(a) = None /\ DataOf(a) = None => body = None /\ bytes = None

(* A content type that the library may set leaves the other headers.       *)
LEMMA TypeHeaderKeeps ==
  ASSUME NEW a, NEW profile, NEW hdr, SentHeaders(hdr, a, profile), NEW v,
         "Content-Type" \in SetFor(a) \/ "Content-Type" \notin DOMAIN hdr
  PROVE  SentHeaders(Put(hdr, "Content-Type", v), a, profile)
<1> DEFINE d == Put(hdr, "Content-Type", v)
<1>1. DOMAIN d = DOMAIN hdr \cup {"Content-Type"}
  BY DEF Put
<1>2. \A n \in DOMAIN d : d[n] = IF n = "Content-Type" THEN v ELSE hdr[n]
  BY DEF Put
<1>3. Lower["Content-Type"] # "user-agent"
  BY LowerAssumption
<1> HIDE DEF d
<1>4. SentHeaders(d, a, profile)
  BY <1>1, <1>2, <1>3 DEF SentHeaders
<1> QED  BY <1>4 DEF d

(* The user agent of the headers becomes the option, and leaves them.      *)
LEMMA ExtractIs ==
  ASSUME NEW a, IsEntry(a), NEW profile, profile # None => IsProfile(profile),
         NEW p, NEW h, NEW set, NEW added, Careful(p, h, set, added), Fine(p),
         OptionsAre(p.kw, a, profile), HeadersAre(p.hdr, a, profile)
  PROVE  /\ SentHeaders(ExtractUserAgent(p).hdr, a, profile)
         /\ SentAgent(ExtractUserAgent(p).kw, a, profile)
         /\ \A o : o # "user_agent" =>
              /\ o \in DOMAIN ExtractUserAgent(p).kw <=> o \in DOMAIN p.kw
              /\ o \in DOMAIN p.kw => ExtractUserAgent(p).kw[o] = p.kw[o]
         /\ IsDict(ExtractUserAgent(p).kw)
<1> DEFINE q == ExtractUserAgent(p)
<1>1. /\ ~\E n \in DOMAIN q.hdr : Lower[n] = "user-agent"
      /\ \A n \in DOMAIN p.hdr : Lower[n] # "user-agent" => n \in DOMAIN q.hdr /\ q.hdr[n] = p.hdr[n]
      /\ \A n \in DOMAIN p.hdr : Lower[n] = "user-agent" => q.kw = Put(p.kw, "user_agent", p.hdr[n])
      /\ (~\E n \in DOMAIN p.hdr : Lower[n] = "user-agent") => q.kw = p.kw
  BY ExtractCareful
<1> HIDE DEF q
<1>2. \A n \in SetFor(a) : Lower[n] # "user-agent"
  BY LowerAssumption DEF SetFor
<1>3. \A n \in DOMAIN HeadersOf(a) : Lower[n] = "user-agent" => n \in DOMAIN p.hdr /\ p.hdr[n] = HeadersOf(a)[n]
  BY <1>2 DEF HeadersAre
<1>4. \A n \in DOMAIN p.hdr : Lower[n] = "user-agent" => n \in DOMAIN HeadersOf(a)
  BY DEF HeadersAre
<1>5. SentHeaders(q.hdr, a, profile)
  <2>1. \A n \in DOMAIN HeadersOf(a) : Lower[n] # "user-agent" /\ n \notin SetFor(a) =>
          n \in DOMAIN q.hdr /\ q.hdr[n] = HeadersOf(a)[n]
    BY <1>1 DEF HeadersAre
  <2>2. profile # None /\ profile.headers # None =>
          \A n \in DOMAIN profile.headers : n \notin SetFor(a) =>
            n \in DOMAIN q.hdr /\ (n \notin DOMAIN HeadersOf(a) => q.hdr[n] = profile.headers[n])
    BY <1>1 DEF HeadersAre, IsProfile
  <2>3. a.auth # None => /\ "Authorization" \in DOMAIN q.hdr
                         /\ q.hdr["Authorization"] = <<"Basic", a.auth>>
    BY <1>1, LowerAssumption DEF HeadersAre
  <2> QED  BY <1>1, <2>1, <2>2, <2>3 DEF SentHeaders
<1>6. CASE \E n \in DOMAIN p.hdr : Lower[n] = "user-agent"
  <2>1. PICK n \in DOMAIN p.hdr : Lower[n] = "user-agent"
    BY <1>6
  <2>2. q.kw = Put(p.kw, "user_agent", p.hdr[n])
    BY <1>1, <2>1
  <2>3. n \in DOMAIN HeadersOf(a)
    BY <1>4, <2>1
  <2>4. \A m \in DOMAIN HeadersOf(a) : Lower[m] = "user-agent" => m = n
    BY <1>3, <2>1 DEF Careful, IsStage, IsHeaders
  <2>5. SentAgent(q.kw, a, profile)
    BY <1>3, <2>1, <2>2, <2>3, <2>4 DEF SentAgent, Put
  <2>6. \A o : o # "user_agent" => /\ o \in DOMAIN q.kw <=> o \in DOMAIN p.kw
                                   /\ o \in DOMAIN p.kw => q.kw[o] = p.kw[o]
    BY <2>2 DEF Put
  <2>7. IsDict(q.kw)
    BY <2>2 DEF Put, IsDict
  <2> QED  BY <1>5, <2>5, <2>6, <2>7 DEF q
<1>7. CASE ~\E n \in DOMAIN p.hdr : Lower[n] = "user-agent"
  <2>1. q.kw = p.kw
    BY <1>1, <1>7
  <2>2. SentAgent(q.kw, a, profile)
    BY <1>3, <1>7, <2>1 DEF SentAgent, OptionsAre
  <2> QED  BY <1>5, <2>1, <2>2 DEF OptionsAre, q
<1> QED  BY <1>6, <1>7

(* After the whole of _prepare_request: the headers, options and body to   *)
(* send are those of the arguments and of the profile.                     *)
LEMMA ReadyIs ==
  ASSUME GoodRegistry(profiles), NEW a, IsEntry(a), OneBody(a), NEW closed \in BOOLEAN
  PROVE  /\ Tended(Ready(closed, a), a)
         /\ Fine(Ready(closed, a)) =>
              /\ SentHeaders(Ready(closed, a).hdr, a, ProfileOf(a))
              /\ SentOptions(Ready(closed, a).kw, a, ProfileOf(a))
              /\ SentBody(Ready(closed, a).body, Ready(closed, a).bytes, a)
<1> DEFINE profile == ProfileOf(a)
           styled == Styled(closed, a)
           extracted == ExtractUserAgent(styled)
           bodied == EncodeBody(extracted)
           filled == AttachFiles(bodied, a)
           ready == NormaliseCookies(filled)
<1>1. /\ Tended(styled, a) /\ (styled.json # None => JsonOf(a) # None)
      /\ profile # None => IsProfile(profile)
      /\ Fine(styled) => /\ styled.json = JsonOf(a) /\ styled.data = DataOf(a)
                         /\ styled.body = None /\ styled.bytes = None
                         /\ OptionsAre(styled.kw, a, profile) /\ HeadersAre(styled.hdr, a, profile)
  BY StyledIs
<1> HIDE DEF styled, profile
<1>2. /\ Tended(extracted, a) /\ extracted.err = styled.err /\ extracted.data = styled.data
      /\ extracted.json = styled.json /\ extracted.body = styled.body /\ extracted.bytes = styled.bytes
  BY <1>1, ExtractCareful DEF Tended
<1>3. Fine(styled) =>
        /\ SentHeaders(extracted.hdr, a, profile) /\ SentAgent(extracted.kw, a, profile)
        /\ \A o : o # "user_agent" => /\ o \in DOMAIN extracted.kw <=> o \in DOMAIN styled.kw
                                      /\ o \in DOMAIN styled.kw => extracted.kw[o] = styled.kw[o]
        /\ IsDict(extracted.kw)
  BY <1>1, ExtractIs DEF Tended
<1> HIDE DEF extracted
<1>4. /\ "Content-Type" \in AddedFor(ProfileOf(a))
      /\ a.files # None \/ JsonOf(a) # None => "Content-Type" \in SetFor(a)
      /\ extracted.json # None => "Content-Type" \in SetFor(a)
  BY <1>1, <1>2 DEF AddedFor, SetFor
<1>5. /\ Tended(bodied, a)
      /\ Fine(bodied) =>
           /\ Fine(extracted) /\ bodied.kw = extracted.kw /\ bodied.data = extracted.data
           /\ extracted.json # None => /\ extracted.data = None
                                       /\ bodied.hdr = Put(extracted.hdr, "Content-Type", JsonType)
                                       /\ bodied.body = <<"json", extracted.json>>
                                       /\ bodied.bytes = extracted.bytes
           /\ extracted.json = None =>
                /\ \/ bodied.hdr = extracted.hdr
                   \/ /\ "Content-Type" \notin DOMAIN extracted.hdr
                      /\ bodied.hdr = Put(extracted.hdr, "Content-Type", FormType)
                /\ extracted.data = None => bodied.body = extracted.body /\ bodied.bytes = extracted.bytes
                /\ extracted.data # None =>
                     \/ bodied.body = Encoded(extracted.data) /\ bodied.bytes = extracted.bytes
                     \/ bodied.body = extracted.body /\ bodied.bytes = Encoded(extracted.data)
  BY <1>2, <1>4, EncodeBodyIs DEF Tended
<1> HIDE DEF bodied
<1>6. /\ Tended(filled, a)
      /\ Fine(filled) =>
           /\ Fine(bodied) /\ filled.kw = bodied.kw /\ filled.body = bodied.body
           /\ a.files = None => filled = bodied
           /\ a.files # None =>
                /\ filled.hdr = Put(bodied.hdr, "Content-Type", "multipart/form-data")
                /\ filled.bytes = EncodeMultipart(IF bodied.data # None /\ bodied.data.kind = "dict"
                                                  THEN bodied.data ELSE None, a.files)
  BY <1>4, <1>5, FilesIs DEF Tended
<1> HIDE DEF filled
<1>7. Fine(filled) => Fine(bodied) /\ Fine(extracted) /\ Fine(styled) /\ filled.kw = extracted.kw
  BY <1>2, <1>5, <1>6 DEF Fine
<1>8. Fine(filled) => IsDict(filled.kw)
  BY <1>3, <1>7
<1>9. /\ Tended(ready, a) /\ ready.err = filled.err /\ ready.hdr = filled.hdr
      /\ ready.body = filled.body /\ ready.bytes = filled.bytes
      /\ \A o : o # "cookies" => /\ o \in DOMAIN ready.kw <=> o \in DOMAIN filled.kw
                                 /\ o \in DOMAIN filled.kw => ready.kw[o] = filled.kw[o]
      /\ Fine(filled) =>
           /\ Has(ready.kw, "cookies") <=> Has(filled.kw, "cookies") /\ filled.kw.cookies # None
           /\ Has(filled.kw, "cookies") /\ filled.kw.cookies # None =>
                ready.kw.cookies = filled.kw.cookies.items
  BY <1>6, <1>8, CookiesAre DEF Tended, IsDict
<1>10. ready = Ready(closed, a)
  BY DEF Ready, Filled, Bodied, filled, bodied, extracted, styled
<1> HIDE DEF ready
<1>11. ASSUME Fine(filled) PROVE SentHeaders(ready.hdr, a, profile)
  <2>1. SentHeaders(extracted.hdr, a, profile)
    BY <1>3, <1>7, <1>11
  <2>2. SentHeaders(bodied.hdr, a, profile)
    BY <1>4, <1>5, <1>7, <1>11, <2>1, TypeHeaderKeeps
  <2>3. SentHeaders(filled.hdr, a, profile)
    BY <1>4, <1>6, <1>11, <2>2, TypeHeaderKeeps
  <2> QED  BY <1>9, <2>3
<1>12. ASSUME Fine(filled) PROVE SentOptions(ready.kw, a, profile)
  <2> DEFINE same(o) == /\ o \in DOMAIN ready.kw <=> o \in DOMAIN styled.kw
                        /\ o \in DOMAIN styled.kw => ready.kw[o] = styled.kw[o]
  <2>1. \A o : o # "user_agent" => /\ o \in DOMAIN filled.kw <=> o \in DOMAIN styled.kw
                                   /\ o \in DOMAIN styled.kw => filled.kw[o] = styled.kw[o]
    BY <1>3, <1>7, <1>12
  <2>2. \A o : o \notin {"user_agent", "cookies"} => same(o)
    BY <1>9, <2>1
  <2>3. OptionsAre(styled.kw, a, profile)
    BY <1>1, <1>7, <1>12
  <2>4. \A o : o \notin {"body", "body_bytes", "headers", "user_agent", "cookies"} =>
           OptionIs(ready.kw, o, a, profile)
    BY <2>2, <2>3 DEF OptionsAre, OptionIs
  <2>5. {"body", "body_bytes", "headers"} \cap DOMAIN ready.kw = {}
    BY <2>2, <2>3 DEF OptionsAre
  <2>6. SentAgent(ready.kw, a, profile)
    BY <1>3, <1>7, <1>9, <1>12 DEF SentAgent, OptionIs
  <2>7. "cookies" \notin (IF profile = None THEN {} ELSE DOMAIN profile.opts)
    BY <1>1 DEF IsProfile, ProfileOptions
  <2>8. /\ Has(filled.kw, "cookies") <=> Has(a.kw, "cookies")
        /\ Has(a.kw, "cookies") => filled.kw.cookies = a.kw.cookies
    BY <2>1, <2>3, <2>7 DEF OptionsAre, OptionIs, Has
  <2>9. /\ Has(ready.kw, "cookies") <=> Has(a.kw, "cookies") /\ a.kw.cookies # None
        /\ Has(a.kw, "cookies") /\ a.kw.cookies # None => ready.kw.cookies = a.kw.cookies.items
    BY <1>9, <1>12, <2>8
  <2> QED  BY <2>4, <2>5, <2>6, <2>9 DEF SentOptions
<1>13. ASSUME Fine(filled) PROVE SentBody(ready.body, ready.bytes, a)
  <2>1. /\ extracted.json = JsonOf(a) /\ extracted.data = DataOf(a)
        /\ extracted.body = None /\ extracted.bytes = None /\ bodied.data = DataOf(a)
    BY <1>1, <1>2, <1>5, <1>7, <1>13
  <2>2. CASE a.files # None
    BY <1>6, <1>9, <1>13, <2>1, <2>2 DEF SentBody
  <2>3. CASE a.files = None
    <3>1. ready.body = bodied.body /\ ready.bytes = bodied.bytes
      BY <1>6, <1>9, <1>13, <2>3
    <3>2. CASE JsonOf(a) # None
      BY <1>5, <1>7, <1>13, <2>1, <2>3, <3>1, <3>2 DEF SentBody
    <3>3. CASE JsonOf(a) = None
      BY <1>5, <1>7, <1>13, <2>1, <2>3, <3>1, <3>3 DEF SentBody
    <3> QED  BY <3>2, <3>3
  <2> QED  BY <2>2, <2>3
<1> QED  BY <1>9, <1>10, <1>11, <1>12, <1>13 DEF Fine, profile

(* CycleTLS._prepare_request as a whole.                                   *)
LEMMA PrepareRequestIs ==
  ASSUME GoodRegistry(profiles), NEW a, IsEntry(a), OneBody(a), NEW closed \in BOOLEAN
  PROVE  /\ IsHeaders(PrepareRequest(closed, a, profiles).theirs)
         /\ Keeps(HeadersOf(a), PrepareRequest(closed, a, profiles).theirs, SetFor(a), AddedFor(ProfileOf(a)))
         /\ PrepareRequest(closed, a, profiles).payload # None =>
              \E q : /\ PrepareRequest(closed, a, profiles).payload = ToDict(q, a)
                     /\ DOMAIN q.kw \subseteq RequestOptions
                     /\ SentHeaders(q.hdr, a, ProfileOf(a))
                     /\ SentOptions(q.kw, a, ProfileOf(a))
                     /\ SentBody(q.body, q.bytes, a)
<1> DEFINE ready == Ready(closed, a)
           bad == Fine(ready) /\ ~(DOMAIN ready.kw \subseteq RequestOptions)
           last == IF bad THEN Raise(ready, "TypeError") ELSE ready
           out == PrepareRequest(closed, a, profiles)
<1>1. /\ Tended(ready, a)
      /\ Fine(ready) => /\ SentHeaders(ready.hdr, a, ProfileOf(a))
                        /\ SentOptions(ready.kw, a, ProfileOf(a))
                        /\ SentBody(ready.body, ready.bytes, a)
  BY ReadyIs
<1>2. out = [err |-> last.err, theirs |-> last.theirs,
             payload |-> IF Fine(last) THEN ToDict(last, a) ELSE None]
  BY StagesOfPrepareRequest
<1> HIDE DEF ready, out
<1>3. last.theirs = ready.theirs /\ (Fine(last) => last = ready /\ ~bad)
  <2>1. CASE bad
    <3>1. last.err = "TypeError" /\ last.theirs = ready.theirs
      BY <1>1, <2>1 DEF Raise, Tended, Careful, IsStage
    <3> QED  BY <3>1, NoneAssumption DEF Fine
  <2>2. CASE ~bad
    BY <2>2
  <2> QED  BY <2>1, <2>2
<1> HIDE DEF last
<1>4. IsHeaders(out.theirs) /\ Keeps(HeadersOf(a), out.theirs, SetFor(a), AddedFor(ProfileOf(a)))
  BY <1>1, <1>2, <1>3 DEF Tended, Careful, IsStage
<1>5. out.payload # None => out.payload = ToDict(ready, a) /\ Fine(ready) /\ ~bad
  BY <1>2, <1>3
<1> QED  BY <1>1, <1>4, <1>5 DEF out

-----------------------------------------------------------------------------
(* A call and the arguments it hands to _prepare_request.                  *)

(* The headers of a session, each under its name in lower case.            *)
IsCIDict(d) ==
  \A l \in DOMAIN d : d[l].key \in DOMAIN Lower /\ Lower[d[l].key] = l

SessionOK ==
  /\ session = [headers |-> session.headers, cookies |-> session.cookies, closed |-> session.closed]
  /\ session.closed \in BOOLEAN /\ IsCIDict(session.headers)

GivenBy(c, f) == Verb([Given(c) EXCEPT !.fingerprint = f], c.verb)
IsPicked(f) == f # None => /\ ~Has(f, "attribute") /\ ~Has(f, "lookup")
                           /\ f.object # None => IsProfile(f.object)

(* A call names a profile that is one, or a name, or none.                 *)
LEMMA PickedIs ==
  ASSUME RegistryOK, NEW f, IsChoice(f), NEW g \in Picked(f)
  PROVE  IsPicked(g)
<1>1. f = None \/ ~(Has(f, "attribute") /\ Has(f, "lookup"))
  BY DEF IsChoice, Has
<1>2. CASE f # None /\ Has(f, "attribute")
  <2>1. Picked(f) = {[object |-> p, name |-> None] : p \in {exports[n] : n \in DOMAIN exports \cap {f.attribute}}}
    BY <1>1, <1>2 DEF Picked
  <2>2. \E p \in {exports[n] : n \in DOMAIN exports \cap {f.attribute}} : g = [object |-> p, name |-> None]
    BY <2>1, Zenon
  <2>3. PICK p : g = [object |-> p, name |-> None] /\ IsProfile(p)
    BY <2>2 DEF RegistryOK
  <2> QED  BY <2>3 DEF IsPicked, Has
<1>3. CASE f # None /\ ~Has(f, "attribute") /\ Has(f, "lookup")
  <2>1. PICK S : S \subseteq {profiles[n] : n \in DOMAIN profiles}
                 /\ Picked(f) = {[object |-> p, name |-> None] : p \in S}
    <3>1. \A family, platform :
            /\ Candidates(profiles, family, platform) \subseteq {profiles[n] : n \in DOMAIN profiles}
            /\ Latest(profiles, family, platform) \subseteq {profiles[n] : n \in DOMAIN profiles}
      BY DEF Candidates, Latest, ByFamily
    <3> DEFINE S == IF f.lookup = "latest" THEN Latest(profiles, f.family, f.platform)
                    ELSE Candidates(profiles, f.family, f.platform)
    <3>2. S \subseteq {profiles[n] : n \in DOMAIN profiles}
      BY <3>1
    <3>3. Picked(f) = {[object |-> p, name |-> None] : p \in S}
      BY <1>3 DEF Picked
    <3> QED  BY <3>2, <3>3
  <2>2. \A p \in S : IsProfile(p)
    BY <2>1 DEF RegistryOK, GoodRegistry
  <2> QED  BY <2>1, <2>2 DEF IsPicked, Has
<1>4. CASE f # None /\ ~Has(f, "attribute") /\ ~Has(f, "lookup")
  <2>1. Picked(f) = {f}
    BY <1>4 DEF Picked
  <2> QED  BY <1>4, <2>1 DEF IsChoice, IsPicked, Has
<1>5. CASE f = None
  <2>1. Picked(f) = {f}
    BY <1>5 DEF Picked
  <2> QED  BY <1>5, <2>1 DEF IsPicked
<1> QED  BY <1>2, <1>3, <1>4, <1>5

(* The arguments of a call as the program gives them.                      *)
LEMMA GivenIs ==
  ASSUME NEW c \in Calls, IsHeaders(mine), NEW f, IsPicked(f)
  PROVE  /\ GivenBy(c, f) =
              [method |-> c.verb, url |-> c.args.url, params |-> c.args.params, data |-> c.args.data,
               json_data |-> c.args.json_data, json |-> c.args.json, files |-> c.args.files,
               fingerprint |-> f, auth |-> c.args.auth,
               kw |-> IF c.mine THEN Put(c.args.kw, "headers", mine) ELSE c.args.kw, own |-> c.mine]
         /\ IsEntry(GivenBy(c, f)) /\ OneBody(GivenBy(c, f))
         /\ c.mine => HeadersOf(GivenBy(c, f)) = mine
<1> DEFINE kw == IF c.mine THEN Put(c.args.kw, "headers", mine) ELSE c.args.kw
           g == GivenBy(c, f)
<1>1. IsArgs(c.args) /\ c.mine \in BOOLEAN
  BY CallsAssumption
<1>2. g = [method |-> c.verb, url |-> c.args.url, params |-> c.args.params, data |-> c.args.data,
           json_data |-> c.args.json_data, json |-> c.args.json, files |-> c.args.files,
           fingerprint |-> f, auth |-> c.args.auth, kw |-> kw, own |-> c.mine]
  <2>1. c.args = [method |-> c.args.method, url |-> c.args.url, params |-> c.args.params,
                  data |-> c.args.data, json_data |-> c.args.json_data, json |-> c.args.json,
                  files |-> c.args.files, fingerprint |-> c.args.fingerprint, auth |-> c.args.auth,
                  kw |-> c.args.kw, own |-> c.args.own]
        /\ c.args.own = FALSE
    BY <1>1 DEF IsArgs
  <2> DEFINE given == Given(c)
             chosen == [given EXCEPT !.fingerprint = f]
  <2>2. given = [method |-> c.args.method, url |-> c.args.url, params |-> c.args.params,
                 data |-> c.args.data, json_data |-> c.args.json_data, json |-> c.args.json,
                 files |-> c.args.files, fingerprint |-> c.args.fingerprint, auth |-> c.args.auth,
                 kw |-> kw, own |-> c.mine]
    <3> DEFINE put == Put(c.args.kw, "headers", mine)
    <3>1. CASE c.mine
      <4>1. given = [c.args EXCEPT !.kw = put, !.own = TRUE]
        BY <3>1 DEF Given
      <4>2. kw = put /\ c.mine = TRUE
        BY <1>1, <3>1
      <4> HIDE DEF put, given, kw
      <4> QED  BY <2>1, <4>1, <4>2
    <3>2. CASE ~c.mine
      BY <1>1, <2>1, <3>2 DEF Given
    <3> QED  BY <3>1, <3>2
  <2> HIDE DEF given, kw
  <2>3. chosen = [method |-> c.args.method, url |-> c.args.url, params |-> c.args.params,
                  data |-> c.args.data, json_data |-> c.args.json_data, json |-> c.args.json,
                  files |-> c.args.files, fingerprint |-> f, auth |-> c.args.auth,
                  kw |-> kw, own |-> c.mine]
    BY <2>2
  <2>4. g = [chosen EXCEPT !.method = c.verb]
    BY DEF GivenBy, Verb, given
  <2> HIDE DEF chosen
  <2> QED  BY <2>3, <2>4
<1>3. /\ kw = [o \in DOMAIN kw |-> kw[o]]
      /\ Has(kw, "headers") => IsHeaders(kw["headers"])
      /\ \A o \in {"body", "body_bytes"} : Has(kw, o) <=> Has(c.args.kw, o)
      /\ c.mine => Has(kw, "headers") /\ kw["headers"] = mine
  BY <1>1 DEF IsArgs, Put, Has
<1> HIDE DEF kw, g
<1>4. IsEntry(g)
  <2>1. g.own \in BOOLEAN /\ g.fingerprint = f /\ g.kw = kw
    BY <1>1, <1>2
  <2>2. g = [method |-> g.method, url |-> g.url, params |-> g.params, data |-> g.data,
             json_data |-> g.json_data, json |-> g.json, files |-> g.files,
             fingerprint |-> g.fingerprint, auth |-> g.auth, kw |-> g.kw, own |-> g.own]
    BY <1>2
  <2> QED  BY <1>3, <2>1, <2>2 DEF IsEntry, IsPicked
<1>5. OneBody(g)
  BY <1>1, <1>2, <1>3 DEF OneBody, IsArgs
<1>6. c.mine => HeadersOf(g) = mine
  BY <1>2, <1>3 DEF HeadersOf
<1> QED  BY <1>2, <1>4, <1>5, <1>6 DEF kw, g

(* The headers of a call over those of the session, names compared without *)
(* case.                                                                   *)
LEMMA MergedHeaders ==
  ASSUME NEW d, IsCIDict(d), NEW h, IsHeaders(h)
  PROVE  LET m == CIDict(CIUpdate(d, h)) IN
         /\ IsHeaders(m)
         /\ \A n \in DOMAIN m :
              \/ n \in DOMAIN h /\ m[n] = h[n]
              \/ /\ ~\E k \in DOMAIN h : Lower[k] = Lower[n]
                 /\ n \in DOMAIN CIDict(d) /\ m[n] = CIDict(d)[n]
         /\ \A n \in DOMAIN h : n \in DOMAIN m \/ \E k \in DOMAIN h \ {n} : Lower[k] = Lower[n]
         /\ \A n \in DOMAIN CIDict(d) :
              (\E k \in DOMAIN h : Lower[k] = Lower[n]) \/ (n \in DOMAIN m /\ m[n] = CIDict(d)[n])
<1> DEFINE last(l) == CHOOSE n \in DOMAIN h : Lower[n] = l
           new == [l \in {Lower[n] : n \in DOMAIN h} |-> [key |-> last(l), val |-> h[last(l)]]]
           u == CIUpdate(d, h)
           m == CIDict(u)
<1>1. \A l \in DOMAIN new : last(l) \in DOMAIN h /\ Lower[last(l)] = l
  OBVIOUS
<1>2. \A l \in DOMAIN new : new[l].key = last(l) /\ new[l].val = h[last(l)]
  OBVIOUS
<1>3. DOMAIN new = {Lower[n] : n \in DOMAIN h}
  OBVIOUS
<1>4. u = Over(new, d)
  BY DEF CIUpdate
<1> HIDE DEF last, new
<1>5. /\ DOMAIN u = DOMAIN new \cup DOMAIN d
      /\ \A l \in DOMAIN new : u[l] = new[l]
      /\ \A l \in DOMAIN d \ DOMAIN new : u[l] = d[l]
  BY <1>4 DEF Over
<1> HIDE DEF u
<1>6. IsCIDict(u)
  BY <1>1, <1>2, <1>5 DEF IsCIDict, IsHeaders
<1>7. /\ DOMAIN m = {u[l].key : l \in DOMAIN u} /\ m = [n \in DOMAIN m |-> m[n]]
      /\ \A n \in DOMAIN m : m[n] = u[Lower[n]].val
  BY DEF CIDict
<1>8. \A n \in DOMAIN m : n \in DOMAIN Lower /\ Lower[n] \in DOMAIN u /\ u[Lower[n]].key = n
  BY <1>6, <1>7 DEF IsCIDict
<1>9. /\ DOMAIN CIDict(d) = {d[l].key : l \in DOMAIN d}
      /\ \A n \in DOMAIN CIDict(d) : CIDict(d)[n] = d[Lower[n]].val
  BY DEF CIDict
<1>10. \A n \in DOMAIN CIDict(d) : Lower[n] \in DOMAIN d /\ d[Lower[n]].key = n
  BY <1>9 DEF IsCIDict
<1> HIDE DEF m
<1>11. IsHeaders(m)
  <2>1. \A n, k \in DOMAIN m : Lower[n] = Lower[k] => n = k
    BY <1>8
  <2> QED  BY <1>7, <1>8, <2>1 DEF IsHeaders
<1>12. ASSUME NEW n \in DOMAIN m
       PROVE  \/ n \in DOMAIN h /\ m[n] = h[n]
              \/ /\ ~\E k \in DOMAIN h : Lower[k] = Lower[n]
                 /\ n \in DOMAIN CIDict(d) /\ m[n] = CIDict(d)[n]
  <2>1. CASE Lower[n] \in DOMAIN new
    BY <1>1, <1>2, <1>5, <1>7, <1>8, <2>1
  <2>2. CASE Lower[n] \notin DOMAIN new
    <3>1. Lower[n] \in DOMAIN d /\ d[Lower[n]].key = n /\ m[n] = d[Lower[n]].val
      BY <1>5, <1>7, <1>8, <2>2
    <3> QED  BY <1>3, <1>9, <2>2, <3>1
  <2> QED  BY <2>1, <2>2
<1>13. ASSUME NEW n \in DOMAIN h
       PROVE  n \in DOMAIN m \/ \E k \in DOMAIN h \ {n} : Lower[k] = Lower[n]
  <2>1. Lower[n] \in DOMAIN new
    BY <1>3
  <2>2. u[Lower[n]].key = last(Lower[n]) /\ last(Lower[n]) \in DOMAIN h /\ Lower[last(Lower[n])] = Lower[n]
    BY <1>1, <1>2, <1>5, <2>1
  <2> QED  BY <1>5, <1>7, <2>1, <2>2
<1>14. ASSUME NEW n \in DOMAIN CIDict(d), ~\E k \in DOMAIN h : Lower[k] = Lower[n]
       PROVE  n \in DOMAIN m /\ m[n] = CIDict(d)[n]
  <2>1. Lower[n] \notin DOMAIN new /\ Lower[n] \in DOMAIN d /\ d[Lower[n]].key = n
    BY <1>3, <1>10, <1>14
  <2>2. u[Lower[n]] = d[Lower[n]] /\ Lower[n] \in DOMAIN u
    BY <1>5, <2>1
  <2> QED  BY <1>7, <1>9, <2>1, <2>2
<1> QED  BY <1>11, <1>12, <1>13, <1>14 DEF m, u

(* What a call hands over: through a session, through AsyncCycleTLS, which *)
(* passes neither auth nor, with a body, json on, and through the others.  *)
MergedFor(g) == CIDict(CIUpdate(session.headers, HeadersOf(g)))

HandedOver(c, g, url, cookies) ==
  [method |-> g.method, url |-> url, params |-> g.params, data |-> g.data,
   json_data |-> g.json_data,
   json |-> IF c.client = "async" /\ c.verb \in {"post", "put", "patch"} THEN None ELSE g.json,
   files |-> g.files, fingerprint |-> g.fingerprint,
   auth |-> IF c.client = "async" THEN None
            ELSE IF c.client = "session" /\ g.auth = None THEN SessionAuth ELSE g.auth,
   kw |-> IF c.client = "session" THEN Put(Put(g.kw, "cookies", cookies), "headers", MergedFor(g))
          ELSE g.kw,
   own |-> IF c.client = "session" THEN FALSE ELSE g.own]

(* What each client changes of the arguments it hands over.                *)
LEMMA EntryFields ==
  ASSUME SessionOK, NEW c \in Calls, NEW g, IsEntry(g), g.method = c.verb
  PROVE  \E url, cookies :
         Entry(c, g) = HandedOver(c, g, url, cookies)
<1>1. g = [method |-> g.method, url |-> g.url, params |-> g.params, data |-> g.data,
           json_data |-> g.json_data, json |-> g.json, files |-> g.files,
           fingerprint |-> g.fingerprint, auth |-> g.auth, kw |-> g.kw, own |-> g.own]
  BY DEF IsEntry
<1>2. CASE c.client = "session"
  <2> DEFINE merged == MergeCookies(JarCookies(session.cookies), GivenCookies(g.kw).items)
             cookies == IF merged = << >> THEN None ELSE [raw |-> FALSE, items |-> merged]
             kw == Put(Put(g.kw, "cookies", cookies), "headers", MergedFor(g))
             auth == IF g.auth = None THEN SessionAuth ELSE g.auth
             url == PrepareUrl(g.url)
             e == Entry(c, g)
  <2>1. e = [g EXCEPT !.url = url, !.own = FALSE, !.auth = auth, !.kw = kw]
    <3>1. e = SessionArgs(session, g)
      BY <1>2 DEF Entry
    <3>2. SessionArgs(session, g) = [g EXCEPT !.url = PrepareUrl(@), !.own = FALSE,
                                             !.auth = IF @ = None THEN SessionAuth ELSE @,
                                             !.kw = Put(Put(@, "cookies", cookies), "headers", MergedFor(g))]
      BY DEF SessionArgs, MergedFor, HeadersOf
    <3> HIDE DEF e, cookies
    <3> QED  BY <1>1, <3>1, <3>2
  <2> HIDE DEF e, kw, auth, url
  <2>2. e = [method |-> g.method, url |-> url, params |-> g.params, data |-> g.data,
             json_data |-> g.json_data, json |-> g.json, files |-> g.files,
             fingerprint |-> g.fingerprint, auth |-> auth, kw |-> kw, own |-> FALSE]
    BY <1>1, <2>1
  <2> HIDE DEF cookies
  <2> QED  BY <1>2, <2>2 DEF e, kw, auth, HandedOver
<1>3. CASE c.client = "async"
  <2> DEFINE e == Entry(c, g)
             body == c.verb \in {"post", "put", "patch"}
             verb == Verb(g, c.verb)
  <2>1. verb = g
    BY <1>1 DEF Verb
  <2>2. e = IF body THEN [verb EXCEPT !.auth = None, !.json = None] ELSE [verb EXCEPT !.auth = None]
    BY <1>3 DEF Entry, ShimVerb, Shim
  <2> HIDE DEF e, verb
  <2>3. CASE body
    <3>1. e = [g EXCEPT !.auth = None, !.json = None]
      BY <2>1, <2>2, <2>3
    <3>2. e = [method |-> g.method, url |-> g.url, params |-> g.params, data |-> g.data,
               json_data |-> g.json_data, json |-> None, files |-> g.files,
               fingerprint |-> g.fingerprint, auth |-> None, kw |-> g.kw, own |-> g.own]
      BY <1>1, <3>1
    <3> QED  BY <1>3, <2>3, <3>2 DEF e, HandedOver
  <2>4. CASE ~body
    <3>1. e = [g EXCEPT !.auth = None]
      BY <2>1, <2>2, <2>4
    <3>2. e = [method |-> g.method, url |-> g.url, params |-> g.params, data |-> g.data,
               json_data |-> g.json_data, json |-> g.json, files |-> g.files,
               fingerprint |-> g.fingerprint, auth |-> None, kw |-> g.kw, own |-> g.own]
      BY <1>1, <3>1
    <3> QED  BY <1>3, <2>4, <3>2 DEF e, HandedOver
  <2> QED  BY <2>3, <2>4
<1>4. CASE c.client \notin {"session", "async"}
  <2>1. Entry(c, g) = g
    BY <1>1, <1>4 DEF Entry, Once, Verb
  <2> QED  BY <1>1, <1>4, <2>1 DEF HandedOver
<1> QED  BY <1>2, <1>3, <1>4

(* The arguments handed over are arguments of _prepare_request, and a      *)
(* session never hands over the caller's own dictionary.                   *)
LEMMA EntryIs ==
  ASSUME SessionOK, NEW c \in Calls, NEW g, IsEntry(g), OneBody(g), g.method = c.verb
  PROVE  /\ IsEntry(Entry(c, g)) /\ OneBody(Entry(c, g)) /\ ProfileOf(Entry(c, g)) = ProfileOf(g)
         /\ HeadersOf(Entry(c, g)) = IF c.client = "session" THEN MergedFor(g) ELSE HeadersOf(g)
         /\ DataOf(Entry(c, g)) = DataOf(g)
         /\ Entry(c, g).own => g.own /\ c.client # "session"
<1> DEFINE e == Entry(c, g)
<1>1. PICK url, cookies : e = HandedOver(c, g, url, cookies)
  BY EntryFields
<1> HIDE DEF e
<1>2. /\ e = [method |-> e.method, url |-> e.url, params |-> e.params, data |-> e.data,
              json_data |-> e.json_data, json |-> e.json, files |-> e.files,
              fingerprint |-> e.fingerprint, auth |-> e.auth, kw |-> e.kw, own |-> e.own]
      /\ e.data = g.data /\ e.fingerprint = g.fingerprint
      /\ e.own = IF c.client = "session" THEN FALSE ELSE g.own
      /\ e.kw = IF c.client = "session" THEN Put(Put(g.kw, "cookies", cookies), "headers", MergedFor(g))
                ELSE g.kw
  BY <1>1 DEF HandedOver
<1>3. IsHeaders(HeadersOf(g))
  BY IsHeadersEmpty DEF IsEntry, HeadersOf
<1>4. IsHeaders(MergedFor(g))
  BY <1>3, MergedHeaders DEF MergedFor, SessionOK
<1>5. /\ e.kw = [o \in DOMAIN e.kw |-> e.kw[o]]
      /\ Has(e.kw, "headers") => IsHeaders(e.kw["headers"])
      /\ \A o \in {"body", "body_bytes"} : /\ Has(e.kw, o) <=> Has(g.kw, o)
                                           /\ Has(g.kw, o) => e.kw[o] = g.kw[o]
      /\ c.client = "session" => Has(e.kw, "headers") /\ e.kw["headers"] = MergedFor(g)
  <2>1. CASE c.client = "session"
    <3> DEFINE kw == Put(Put(g.kw, "cookies", cookies), "headers", MergedFor(g))
    <3>1. /\ DOMAIN kw = DOMAIN g.kw \cup {"cookies", "headers"} /\ kw["headers"] = MergedFor(g)
          /\ \A o \in DOMAIN g.kw : o \notin {"cookies", "headers"} => kw[o] = g.kw[o]
          /\ kw = [o \in DOMAIN kw |-> kw[o]]
      BY DEF Put
    <3>2. e.kw = kw
      BY <1>2, <2>1
    <3> HIDE DEF kw
    <3> QED  BY <1>4, <2>1, <3>1, <3>2 DEF Has
  <2>2. CASE c.client # "session"
    <3>1. e.kw = g.kw
      BY <1>2, <2>2
    <3> QED  BY <2>2, <3>1 DEF IsEntry
  <2> QED  BY <2>1, <2>2
<1>6. IsEntry(e)
  BY <1>2, <1>5 DEF IsEntry
<1>7. OneBody(e) /\ DataOf(e) = DataOf(g)
  BY <1>2, <1>5 DEF OneBody, DataOf
<1>8. ProfileOf(e) = ProfileOf(g)
  BY <1>2 DEF ProfileOf
<1>9. HeadersOf(e) = IF c.client = "session" THEN MergedFor(g) ELSE HeadersOf(g)
  BY <1>2, <1>5 DEF HeadersOf
<1>10. e.own => g.own /\ c.client # "session"
  BY <1>2 DEF IsEntry
<1> QED  BY <1>6, <1>7, <1>8, <1>9, <1>10 DEF e

-----------------------------------------------------------------------------
(* The steps of the program.                                               *)

RequestsOK ==
  /\ IsHeaders(mine) /\ SessionOK
  /\ made = [session |-> made.session, other |-> made.other]
  /\ made.session \in Nat /\ made.other \in Nat
  /\ DOMAIN calls \subseteq 1..LastCall /\ clock \in Nat \ {0}

(* What Begin makes of a call.                                             *)
PreparedFor(c, g) ==
  IF c.client = "session" /\ PlainDictClash(session.cookies, g.kw)
  THEN [err |-> "AttributeError", theirs |-> mine, payload |-> None]
  ELSE PrepareRequest(c.client = "session" /\ session.closed, Entry(c, g), profiles)

(* What Begin does, in the terms of the lemmas above.                      *)
LEMMA BeginIs ==
  ASSUME RegistryOK, RequestsOK, NEW c \in Calls, NEW f \in Picked(c.args.fingerprint), Begin(c, f)
  PROVE  /\ IsEntry(GivenBy(c, f)) /\ OneBody(GivenBy(c, f)) /\ GivenBy(c, f).method = c.verb
         /\ GivenBy(c, f).own = c.mine /\ (c.mine => HeadersOf(GivenBy(c, f)) = mine)
         /\ calls' = Put(Recent, LastCall + 1, NewCall(c, GivenBy(c, f), PreparedFor(c, GivenBy(c, f))))
         /\ mine' = IF Entry(c, GivenBy(c, f)).own THEN PreparedFor(c, GivenBy(c, f)).theirs ELSE mine
         /\ made' = Made(c.client) /\ clock' = Tick(c.client)
         /\ UNCHANGED <<session, registryVars>>
<1>1. IsPicked(f)
  BY PickedIs, CallsAssumption
<1>2. /\ IsEntry(GivenBy(c, f)) /\ OneBody(GivenBy(c, f))
      /\ GivenBy(c, f).method = c.verb /\ GivenBy(c, f).own = c.mine
      /\ c.mine => HeadersOf(GivenBy(c, f)) = mine
  BY <1>1, GivenIs DEF RequestsOK
<1>3. /\ calls' = Put(Recent, LastCall + 1, NewCall(c, GivenBy(c, f), PreparedFor(c, GivenBy(c, f))))
      /\ mine' = IF Entry(c, GivenBy(c, f)).own THEN PreparedFor(c, GivenBy(c, f)).theirs ELSE mine
      /\ made' = Made(c.client) /\ clock' = Tick(c.client)
      /\ UNCHANGED <<session, registryVars>>
  BY DEF Begin, GivenBy, PreparedFor
<1> QED  BY <1>2, <1>3

(* What is sent for a call, and what is left of the caller's dictionary.   *)
LEMMA PreparedIs ==
  ASSUME RegistryOK, RequestsOK, NEW c \in Calls, NEW g, IsEntry(g), OneBody(g), g.method = c.verb
  PROVE  /\ IsHeaders(PreparedFor(c, g).theirs)
         /\ Entry(c, g).own =>
              Keeps(HeadersOf(g), PreparedFor(c, g).theirs, SetFor(Entry(c, g)), AddedFor(ProfileOf(g)))
         /\ PreparedFor(c, g).payload # None =>
              \E q : /\ PreparedFor(c, g).payload = ToDict(q, Entry(c, g))
                     /\ DOMAIN q.kw \subseteq RequestOptions
                     /\ SentHeaders(q.hdr, Entry(c, g), ProfileOf(g))
                     /\ SentOptions(q.kw, Entry(c, g), ProfileOf(g))
                     /\ SentBody(q.body, q.bytes, Entry(c, g))
<1> DEFINE e == Entry(c, g)
           closed == c.client = "session" /\ session.closed
<1>1. IsEntry(e) /\ OneBody(e) /\ ProfileOf(e) = ProfileOf(g)
      /\ (e.own => c.client # "session" /\ HeadersOf(e) = HeadersOf(g))
  BY EntryIs DEF RequestsOK
<1>2. CASE c.client = "session" /\ PlainDictClash(session.cookies, g.kw)
  <2>1. PreparedFor(c, g).theirs = mine /\ PreparedFor(c, g).payload = None
    BY <1>2 DEF PreparedFor
  <2> QED  BY <1>1, <1>2, <2>1 DEF RequestsOK
<1>3. CASE ~(c.client = "session" /\ PlainDictClash(session.cookies, g.kw))
  <2>1. PreparedFor(c, g) = PrepareRequest(closed, e, profiles)
    BY <1>3 DEF PreparedFor
  <2>2. closed \in BOOLEAN /\ GoodRegistry(profiles)
    BY DEF RegistryOK
  <2> HIDE DEF closed, e
  <2>3. /\ IsHeaders(PrepareRequest(closed, e, profiles).theirs)
        /\ Keeps(HeadersOf(e), PrepareRequest(closed, e, profiles).theirs, SetFor(e), AddedFor(ProfileOf(e)))
        /\ PrepareRequest(closed, e, profiles).payload # None =>
              \E q : /\ PrepareRequest(closed, e, profiles).payload = ToDict(q, e)
                     /\ DOMAIN q.kw \subseteq RequestOptions
                     /\ SentHeaders(q.hdr, e, ProfileOf(e))
                     /\ SentOptions(q.kw, e, ProfileOf(e))
                     /\ SentBody(q.body, q.bytes, e)
    BY <1>1, <2>2, PrepareRequestIs
  <2> QED  BY <1>1, <2>1, <2>3 DEF e
<1> QED  BY <1>2, <1>3

(* What the library sets for a call.                                       *)
LEMMA ImposedIs ==
  ASSUME SessionOK, NEW c \in Calls, NEW g, IsEntry(g), g.method = c.verb,
         NEW k, k.client = c.client, k.given = g
  PROVE  /\ Imposed(k) = SetFor(Entry(c, g)) /\ PassedAuth(k) = Entry(c, g).auth
         /\ PassedJson(k) = JsonOf(Entry(c, g))
<1> DEFINE e == Entry(c, g)
<1>1. /\ e.auth = IF c.client = "async" THEN None
                  ELSE IF c.client = "session" /\ g.auth = None THEN SessionAuth ELSE g.auth
      /\ e.json_data = g.json_data /\ e.files = g.files
      /\ e.json = IF c.client = "async" /\ c.verb \in {"post", "put", "patch"} THEN None ELSE g.json
  <2>1. PICK url, cookies : e = HandedOver(c, g, url, cookies)
    BY EntryFields
  <2> HIDE DEF e
  <2> QED  BY <2>1 DEF HandedOver
<1> HIDE DEF e
<1> DEFINE dropped == c.client = "async" /\ c.verb \in {"post", "put", "patch"}
<1>2. PassedAuth(k) = e.auth
  <2>1. "auth" \in NotPassedOn(k) <=> c.client = "async"
    BY DEF NotPassedOn
  <2>2. AskedAuth(k) = IF c.client = "session" /\ g.auth = None THEN SessionAuth ELSE g.auth
    BY DEF AskedAuth
  <2> QED  BY <1>1, <2>1, <2>2 DEF PassedAuth
<1>3. PassedJson(k) = JsonOf(e)
  <2>1. k.given.json_data = g.json_data /\ k.given.json = g.json /\ k.given.method = c.verb
    OBVIOUS
  <2>2. "json" \in NotPassedOn(k) <=> dropped
    BY <2>1 DEF NotPassedOn
  <2>4. PassedJson(k) = IF dropped \/ g.json_data # None THEN g.json_data ELSE g.json
    BY <2>1, <2>2 DEF PassedJson, AskedJson
  <2>3. e.json_data = g.json_data /\ e.json = IF dropped THEN None ELSE g.json
    BY <1>1
  <2> HIDE DEF dropped
  <2> QED  BY <2>3, <2>4 DEF JsonOf
<1>4. Imposed(k) = SetFor(e)
  BY <1>1, <1>2, <1>3 DEF Imposed, SetFor
<1> QED  BY <1>2, <1>3, <1>4 DEF e

-----------------------------------------------------------------------------
(* What is sent against what was asked for.                                *)

IsCallOf(k, c, g) ==
  k.client = c.client /\ k.given = g /\ k.under = session /\ k.profile = ProfileOf(g)

(* h are the headers own over those below, names compared in lower case.   *)
Layered(h, own, below) ==
  /\ \A n \in DOMAIN h :
       \/ n \in DOMAIN own /\ h[n] = own[n]
       \/ /\ ~\E m \in DOMAIN own : Lower[m] = Lower[n]
          /\ n \in DOMAIN below /\ h[n] = below[n]
  /\ \A n \in DOMAIN own : n \in DOMAIN h \/ \E m \in DOMAIN own \ {n} : Lower[m] = Lower[n]
  /\ \A n \in DOMAIN below :
       (\E m \in DOMAIN own : Lower[m] = Lower[n]) \/ (n \in DOMAIN h /\ h[n] = below[n])
  /\ \A m, n \in DOMAIN below : Lower[m] = Lower[n] => m = n

(* The headers handed over are the call's own over those of the session.   *)
LEMMA LayersOfCall ==
  ASSUME SessionOK, NEW c \in Calls, NEW g, IsEntry(g), OneBody(g), g.method = c.verb,
         NEW k, IsCallOf(k, c, g)
  PROVE  /\ OwnHeaders(k) = HeadersOf(g) /\ IsHeaders(OwnHeaders(k))
         /\ IsHeaders(HeadersOf(Entry(c, g)))
         /\ Layered(HeadersOf(Entry(c, g)), OwnHeaders(k), SessionLayer(k))
<1>1. OwnHeaders(k) = HeadersOf(g)
  BY DEF OwnHeaders, HeadersOf, IsCallOf
<1>2. IsHeaders(HeadersOf(g))
  BY IsHeadersEmpty DEF IsEntry, HeadersOf
<1>3. CASE c.client = "session"
  <2>1. SessionLayer(k) = CIDict(session.headers)
    BY <1>3 DEF SessionLayer, IsCallOf
  <2>2. HeadersOf(Entry(c, g)) = CIDict(CIUpdate(session.headers, HeadersOf(g)))
    BY <1>3, EntryIs DEF MergedFor
  <2>3. IsCIDict(session.headers)
    BY DEF SessionOK
  <2> DEFINE d == session.headers
             h == HeadersOf(g)
             m == CIDict(CIUpdate(d, h))
  <2>4. /\ IsHeaders(m)
        /\ \A n \in DOMAIN m :
             \/ n \in DOMAIN h /\ m[n] = h[n]
             \/ /\ ~\E j \in DOMAIN h : Lower[j] = Lower[n]
                /\ n \in DOMAIN CIDict(d) /\ m[n] = CIDict(d)[n]
        /\ \A n \in DOMAIN h : n \in DOMAIN m \/ \E j \in DOMAIN h \ {n} : Lower[j] = Lower[n]
        /\ \A n \in DOMAIN CIDict(d) :
             (\E j \in DOMAIN h : Lower[j] = Lower[n]) \/ (n \in DOMAIN m /\ m[n] = CIDict(d)[n])
    BY <1>2, <2>3, MergedHeaders
  <2>5. \A j, n \in DOMAIN CIDict(d) : Lower[j] = Lower[n] => j = n
    BY <2>3 DEF CIDict, IsCIDict
  <2> HIDE DEF m
  <2>6. Layered(m, h, CIDict(d))
    BY <2>4, <2>5 DEF Layered
  <2> QED  BY <1>1, <1>2, <2>1, <2>2, <2>4, <2>6 DEF m
<1>4. CASE c.client # "session"
  <2>1. SessionLayer(k) = Empty /\ DOMAIN Empty = {}
    BY <1>4 DEF SessionLayer, IsCallOf, Empty
  <2>2. HeadersOf(Entry(c, g)) = HeadersOf(g)
    BY <1>4, EntryIs
  <2>3. Layered(HeadersOf(g), HeadersOf(g), SessionLayer(k))
    BY <2>1 DEF Layered
  <2> QED  BY <1>1, <1>2, <2>2, <2>3
<1> QED  BY <1>3, <1>4

(* The request that goes to the Go side.                                   *)
LEMMA ToDictIs ==
  ASSUME NEW q, {"body", "body_bytes", "headers"} \cap DOMAIN q.kw = {}, NEW a
  PROVE  /\ ToDict(q, a).headers = q.hdr
         /\ ToDict(q, a).body = IF q.body # None THEN q.body ELSE << >>
         /\ ToDict(q, a).bodyBytes = q.bytes
         /\ DOMAIN ToDict(q, a).opts \cap {"body", "body_bytes", "headers"} = {}
         /\ {"user_agent", "timeout"} \subseteq DOMAIN ToDict(q, a).opts
         /\ \A o \in DOMAIN ToDict(q, a).opts : o \notin {"timeout", "cookies"} =>
              ToDict(q, a).opts[o] = IF o \in DOMAIN q.kw THEN q.kw[o]
                                     ELSE IF o \in DOMAIN RequestDefaults THEN RequestDefaults[o] ELSE None
<1> DEFINE wire == ToDict(q, a)
           all == Over(q.kw, RequestDefaults)
           opts == IF ~Has(q.kw, "cookies") THEN all
                   ELSE Put(all, "cookies", [i \in DOMAIN q.kw.cookies |-> CookieToDict(q.kw.cookies[i])])
           kept == Without(Without(opts, "body"), "body_bytes")
<1>1. /\ wire.headers = q.hdr /\ wire.body = IF q.body # None THEN q.body ELSE << >>
      /\ wire.bodyBytes = q.bytes
  BY DEF ToDict, Has
<1>2. wire.opts = [kept EXCEPT !["timeout"] = TimeoutSeconds(@)]
  BY DEF ToDict
<1>3. /\ DOMAIN RequestDefaults \cap {"body", "body_bytes", "headers", "cookies"} = {}
      /\ {"user_agent", "timeout"} \subseteq DOMAIN RequestDefaults
  BY DEF RequestDefaults
<1>4. /\ DOMAIN all = DOMAIN q.kw \cup DOMAIN RequestDefaults
      /\ \A o \in DOMAIN all : all[o] = IF o \in DOMAIN q.kw THEN q.kw[o] ELSE RequestDefaults[o]
  BY DEF Over
<1> HIDE DEF all
<1>5. /\ DOMAIN opts = DOMAIN all \cup (IF Has(q.kw, "cookies") THEN {"cookies"} ELSE {})
      /\ \A o \in DOMAIN all : o # "cookies" => opts[o] = all[o]
  BY DEF Put
<1> HIDE DEF opts
<1>6. DOMAIN kept = DOMAIN opts \ {"body", "body_bytes"} /\ \A o \in DOMAIN kept : kept[o] = opts[o]
  BY DEF Without
<1>7. DOMAIN wire.opts = DOMAIN kept /\ \A o \in DOMAIN kept : o # "timeout" => wire.opts[o] = kept[o]
  BY <1>2
<1> HIDE DEF wire, kept
<1>8. DOMAIN wire.opts \cap {"body", "body_bytes", "headers"} = {}
      /\ {"user_agent", "timeout"} \subseteq DOMAIN wire.opts
  BY <1>3, <1>4, <1>5, <1>6, <1>7 DEF Has
<1>9. ASSUME NEW o \in DOMAIN wire.opts, o \notin {"timeout", "cookies"}
      PROVE  wire.opts[o] = IF o \in DOMAIN q.kw THEN q.kw[o]
                            ELSE IF o \in DOMAIN RequestDefaults THEN RequestDefaults[o] ELSE None
  <2>1. o \in DOMAIN all /\ wire.opts[o] = all[o]
    BY <1>5, <1>6, <1>7, <1>9
  <2> QED  BY <1>4, <2>1
<1> QED  BY <1>1, <1>8, <1>9 DEF wire

(* The headers of the request are those of its call.                       *)
OwnOf(k) == [n \in {m \in DOMAIN OwnHeaders(k) : Lower[m] # "user-agent"} |-> OwnHeaders(k)[n]]

HeadersFit(k, hdr) ==
  /\ ValuesOf(hdr, "user-agent") = {}
  /\ \A n \in DOMAIN OwnOf(k) \ Imposed(k) :
       \/ Has(hdr, n) /\ hdr[n] = OwnOf(k)[n]
       \/ \E m \in DOMAIN OwnOf(k) \ {n} : Lower[m] = Lower[n]
  /\ \A n \in DOMAIN SessionLayer(k) \ Imposed(k) :
       \/ Lower[n] \in {Lower[m] : m \in DOMAIN OwnOf(k)} \cup {"user-agent"}
       \/ Has(hdr, n) /\ hdr[n] = SessionLayer(k)[n]
  /\ \A n \in DOMAIN ProfileLayer(k) \ Imposed(k) :
       /\ Has(hdr, n)
       /\ hdr[n] # ProfileLayer(k)[n] =>
            Lower[n] \in {Lower[m] : m \in DOMAIN OwnOf(k)} \cup {Lower[m] : m \in DOMAIN SessionLayer(k)}
  /\ PassedAuth(k) # None => /\ Has(hdr, "Authorization")
                             /\ hdr["Authorization"] = <<"Basic", PassedAuth(k)>>

(* Headers that fit the arguments handed over fit the layers of the call.  *)
LEMMA HeadersAsAsked ==
  ASSUME NEW e, NEW k, NEW hdr, SentHeaders(hdr, e, k.profile),
         Layered(HeadersOf(e), OwnHeaders(k), SessionLayer(k)),
         Imposed(k) = SetFor(e), PassedAuth(k) = e.auth
  PROVE  HeadersFit(k, hdr)
<1> DEFINE own == OwnOf(k)
           below == SessionLayer(k)
<1> DEFINE h == HeadersOf(e)
           all == OwnHeaders(k)
           set == SetFor(e)
           profile == k.profile
<1>1. /\ ~\E n \in DOMAIN hdr : Lower[n] = "user-agent"
      /\ \A n \in DOMAIN h : Lower[n] # "user-agent" /\ n \notin set => n \in DOMAIN hdr /\ hdr[n] = h[n]
      /\ profile # None /\ profile.headers # None =>
           \A n \in DOMAIN profile.headers : n \notin set =>
             n \in DOMAIN hdr /\ (n \notin DOMAIN h => hdr[n] = profile.headers[n])
      /\ e.auth # None => Has(hdr, "Authorization") /\ hdr["Authorization"] = <<"Basic", e.auth>>
  BY DEF SentHeaders, Has
<1>2. /\ \A n \in DOMAIN h :
           \/ n \in DOMAIN all /\ h[n] = all[n]
           \/ /\ ~\E m \in DOMAIN all : Lower[m] = Lower[n]
              /\ n \in DOMAIN below /\ h[n] = below[n]
      /\ \A n \in DOMAIN all : n \in DOMAIN h \/ \E m \in DOMAIN all \ {n} : Lower[m] = Lower[n]
      /\ \A n \in DOMAIN below :
           (\E m \in DOMAIN all : Lower[m] = Lower[n]) \/ (n \in DOMAIN h /\ h[n] = below[n])
  BY DEF Layered
<1>3. /\ \A n : n \in DOMAIN own <=> n \in DOMAIN all /\ Lower[n] # "user-agent"
      /\ \A n \in DOMAIN own : own[n] = all[n]
  BY DEF OwnOf
<1>4. profile # None /\ profile.headers # None => ProfileLayer(k) = profile.headers
  BY DEF ProfileLayer
<1>5. profile = None \/ profile.headers = None => DOMAIN ProfileLayer(k) = {}
  BY DEF ProfileLayer, Empty
<1> HIDE DEF h, all, set, profile, own, below
<1>6. ValuesOf(hdr, "user-agent") = {}
  BY <1>1 DEF ValuesOf
<1>7. ASSUME NEW n \in DOMAIN own \ set
      PROVE  (Has(hdr, n) /\ hdr[n] = own[n]) \/ \E m \in DOMAIN own \ {n} : Lower[m] = Lower[n]
  <2>1. CASE n \in DOMAIN h
    <3>1. h[n] = all[n]
      BY <1>2, <1>3, <2>1
    <3> QED  BY <1>1, <1>3, <2>1, <3>1 DEF Has
  <2>2. CASE n \notin DOMAIN h
    <3>1. PICK m \in DOMAIN all \ {n} : Lower[m] = Lower[n]
      BY <1>2, <1>3, <2>2
    <3> QED  BY <1>3, <3>1
  <2> QED  BY <2>1, <2>2
<1>8. ASSUME NEW n \in DOMAIN below \ set
      PROVE  \/ Lower[n] \in {Lower[m] : m \in DOMAIN own} \cup {"user-agent"}
             \/ Has(hdr, n) /\ hdr[n] = below[n]
  <2>1. CASE \E m \in DOMAIN all : Lower[m] = Lower[n]
    BY <1>3, <2>1
  <2>2. CASE n \in DOMAIN h /\ h[n] = below[n]
    BY <1>1, <2>2 DEF Has
  <2> QED  BY <1>2, <2>1, <2>2
<1>9. ASSUME NEW n \in DOMAIN ProfileLayer(k) \ set
      PROVE  /\ Has(hdr, n)
             /\ hdr[n] # ProfileLayer(k)[n] =>
                  Lower[n] \in {Lower[m] : m \in DOMAIN own} \cup {Lower[m] : m \in DOMAIN below}
  <2>1. profile # None /\ profile.headers # None /\ ProfileLayer(k) = profile.headers
    BY <1>4, <1>5
  <2>2. n \in DOMAIN hdr /\ (n \notin DOMAIN h => hdr[n] = profile.headers[n])
    BY <1>1, <2>1
  <2>3. Lower[n] # "user-agent"
    BY <1>1, <2>2
  <2>4. n \in DOMAIN h => n \in DOMAIN own \/ n \in DOMAIN below
    BY <1>2, <1>3, <2>3
  <2> QED  BY <2>1, <2>2, <2>4 DEF Has
<1> QED  BY <1>1, <1>6, <1>7, <1>8, <1>9 DEF set, own, below, HeadersFit

(* The body, from files, json, data or the deprecated options.             *)
LEMMA BodyAsAsked ==
  ASSUME NEW e, NEW k, NEW q, SentBody(q.body, q.bytes, e),
         {"body", "body_bytes", "headers"} \cap DOMAIN q.kw = {},
         PassedJson(k) = JsonOf(e), k.given.files = e.files, DataOf(k.given) = DataOf(e),
         JsonOf(e) # None => None # <<"json", JsonOf(e)>>,
         DataOf(e) # None => None # Encoded(DataOf(e)),
         e.files # None =>
           None # EncodeMultipart(IF DataOf(e) # None /\ DataOf(e).kind = "dict" THEN DataOf(e) ELSE None, e.files)
  PROVE  WireBody(ToDict(q, e)) = BodyWith(k, PassedJson(k))
<1> DEFINE data == DataOf(e)
           json == JsonOf(e)
           parts == EncodeMultipart(IF data # None /\ data.kind = "dict" THEN data ELSE None, e.files)
           wire == ToDict(q, e)
<1>1. wire.body = (IF q.body # None THEN q.body ELSE << >>) /\ wire.bodyBytes = q.bytes
  BY ToDictIs
<1>2. BodyWith(k, PassedJson(k)) = IF e.files # None THEN parts
                                   ELSE IF json # None THEN <<"json", json>>
                                   ELSE IF data # None THEN Encoded(data) ELSE << >>
  BY DEF BodyWith, DataOf
<1>3. parts # << >>
  BY DEF EncodeMultipart
<1>4. None # << >>
  BY NoneAssumption
<1>5. WireBody(wire) = IF q.bytes # None /\ q.bytes # << >> THEN q.bytes
                       ELSE IF q.body # None THEN q.body ELSE << >>
  BY <1>1 DEF WireBody
<1>6. /\ e.files # None => q.bytes = parts
      /\ e.files = None /\ json # None => q.body = <<"json", json>> /\ q.bytes = None
      /\ e.files = None /\ json = None /\ data # None =>
           (q.body = Encoded(data) /\ q.bytes = None) \/ (q.body = None /\ q.bytes = Encoded(data))
      /\ e.files = None /\ json = None /\ data = None => q.body = None /\ q.bytes = None
  BY DEF SentBody
<1>7. /\ e.files # None => None # parts
      /\ json # None => None # <<"json", json>>
      /\ data # None => None # Encoded(data)
  OBVIOUS
<1> HIDE DEF wire, parts, json, data
<1>8. CASE e.files # None
  BY <1>2, <1>3, <1>5, <1>6, <1>7, <1>8 DEF wire
<1>9. CASE e.files = None /\ json # None
  BY <1>2, <1>5, <1>6, <1>7, <1>9 DEF wire
<1>10. CASE e.files = None /\ json = None /\ data # None
  BY <1>2, <1>5, <1>6, <1>7, <1>10 DEF wire
<1>11. CASE e.files = None /\ json = None /\ data = None
  BY <1>2, <1>5, <1>6, <1>11 DEF wire
<1> QED  BY <1>8, <1>9, <1>10, <1>11

(* No client changes an option but headers and cookies.                    *)
LEMMA EntryOptions ==
  ASSUME SessionOK, NEW c \in Calls, NEW g, IsEntry(g), g.method = c.verb,
         NEW o, o \notin {"headers", "cookies"}
  PROVE  /\ o \in DOMAIN Entry(c, g).kw <=> o \in DOMAIN g.kw
         /\ o \in DOMAIN g.kw => Entry(c, g).kw[o] = g.kw[o]
<1>1. PICK url, cookies : Entry(c, g) = HandedOver(c, g, url, cookies)
  BY EntryFields
<1>2. Entry(c, g).kw = IF c.client = "session" THEN Put(Put(g.kw, "cookies", cookies), "headers", MergedFor(g))
                       ELSE g.kw
  BY <1>1 DEF HandedOver
<1>3. CASE c.client = "session"
  <2>1. Entry(c, g).kw = Put(Put(g.kw, "cookies", cookies), "headers", MergedFor(g))
    BY <1>2, <1>3
  <2> QED  BY <2>1 DEF Put
<1>4. CASE c.client # "session"
  BY <1>2, <1>4
<1> QED  BY <1>3, <1>4

(* An option that is sent is the call's, the profile's or the default.     *)
LEMMA OptionAsAsked ==
  ASSUME NEW e, NEW k, NEW q, SentOptions(q.kw, e, k.profile),
         NEW o \in DOMAIN ToDict(q, e).opts, o \notin {"timeout", "cookies"},
         OptionIs(q.kw, o, e, k.profile),
         o \in DOMAIN e.kw <=> o \in DOMAIN k.given.kw,
         o \in DOMAIN k.given.kw => e.kw[o] = k.given.kw[o]
  PROVE  ToDict(q, e).opts[o] =
           IF Has(k.given.kw, o) THEN k.given.kw[o]
           ELSE ProfileOption(k, o, IF Has(RequestDefaults, o) THEN RequestDefaults[o] ELSE None)
<1>1. ToDict(q, e).opts[o] = IF o \in DOMAIN q.kw THEN q.kw[o]
                             ELSE IF o \in DOMAIN RequestDefaults THEN RequestDefaults[o] ELSE None
  BY ToDictIs DEF SentOptions
<1> DEFINE default == IF o \in DOMAIN RequestDefaults THEN RequestDefaults[o] ELSE None
           v == ToDict(q, e).opts[o]
<1>2. v = IF o \in DOMAIN q.kw THEN q.kw[o] ELSE default
  BY <1>1
<1> HIDE DEF v, default
<1>3. v = IF o \in DOMAIN k.given.kw THEN k.given.kw[o]
          ELSE IF k.profile # None /\ o \in DOMAIN k.profile.opts THEN k.profile.opts[o] ELSE default
  BY <1>2 DEF OptionIs
<1>4. v = IF Has(k.given.kw, o) THEN k.given.kw[o] ELSE ProfileOption(k, o, default)
  BY <1>3 DEF ProfileOption, Has
<1> QED  BY <1>4 DEF v, default, Has

(* The user agent that is sent is the one of the strongest layer that has  *)
(* one.                                                                    *)
LEMMA AgentAsAsked ==
  ASSUME NEW e, NEW k, NEW q, SentOptions(q.kw, e, k.profile),
         Layered(HeadersOf(e), OwnHeaders(k), SessionLayer(k)), IsHeaders(OwnHeaders(k)),
         "user_agent" \in DOMAIN e.kw <=> "user_agent" \in DOMAIN k.given.kw,
         "user_agent" \in DOMAIN k.given.kw => e.kw["user_agent"] = k.given.kw["user_agent"]
  PROVE  {ToDict(q, e).opts.user_agent} = AskedAgent(k)
<1> DEFINE h == HeadersOf(e)
           own == OwnHeaders(k)
           below == SessionLayer(k)
           v == ToDict(q, e).opts["user_agent"]
           agents(d) == ValuesOf(d, "user-agent")
           option == IF Has(k.given.kw, "user_agent") THEN k.given.kw["user_agent"]
                     ELSE ProfileOption(k, "user_agent", "default")
<1>1. AskedAgent(k) = IF agents(own) # {} THEN agents(own)
                      ELSE IF agents(below) # {} THEN agents(below) ELSE {option}
  BY DEF AskedAgent
<1>2. /\ "user_agent" \in DOMAIN ToDict(q, e).opts
      /\ v = IF "user_agent" \in DOMAIN q.kw THEN q.kw["user_agent"]
             ELSE IF "user_agent" \in DOMAIN RequestDefaults THEN RequestDefaults["user_agent"] ELSE None
  BY ToDictIs DEF SentOptions
<1>3. /\ \A n \in DOMAIN h : Lower[n] = "user-agent" => "user_agent" \in DOMAIN q.kw /\ q.kw["user_agent"] = h[n]
      /\ (~\E n \in DOMAIN h : Lower[n] = "user-agent") => OptionIs(q.kw, "user_agent", e, k.profile)
  BY DEF SentOptions, SentAgent
<1>4. \A d : agents(d) = {d[n] : n \in {m \in DOMAIN d : Lower[m] = "user-agent"}}
  BY DEF ValuesOf
<1>5. /\ \A n \in DOMAIN h :
           \/ n \in DOMAIN own /\ h[n] = own[n]
           \/ /\ ~\E m \in DOMAIN own : Lower[m] = Lower[n]
              /\ n \in DOMAIN below /\ h[n] = below[n]
      /\ \A n \in DOMAIN own : n \in DOMAIN h \/ \E m \in DOMAIN own \ {n} : Lower[m] = Lower[n]
      /\ \A n \in DOMAIN below :
           (\E m \in DOMAIN own : Lower[m] = Lower[n]) \/ (n \in DOMAIN h /\ h[n] = below[n])
      /\ \A m, n \in DOMAIN below : Lower[m] = Lower[n] => m = n
      /\ \A m, n \in DOMAIN own : Lower[m] = "user-agent" /\ Lower[n] = "user-agent" => m = n
  BY DEF Layered, IsHeaders
<1>6. CASE ~\E n \in DOMAIN h : Lower[n] = "user-agent"
  <2>1. ~\E n \in DOMAIN own : Lower[n] = "user-agent"
    <3>1. SUFFICES ASSUME NEW n \in DOMAIN own, Lower[n] = "user-agent" PROVE FALSE
      OBVIOUS
    <3>2. PICK m \in DOMAIN own \ {n} : Lower[m] = Lower[n]
      BY <1>5, <1>6, <3>1
    <3> QED  BY <1>5, <3>1, <3>2
  <2>2. ~\E n \in DOMAIN below : Lower[n] = "user-agent"
    BY <1>5, <1>6, <2>1
  <2>3. AskedAgent(k) = {option}
    BY <1>1, <1>4, <2>1, <2>2
  <2>4. v = option
    <3>1. OptionIs(q.kw, "user_agent", e, k.profile)
      BY <1>3, <1>6
    <3>2. v = IF Has(k.given.kw, "user_agent") THEN k.given.kw["user_agent"]
              ELSE ProfileOption(k, "user_agent",
                                 IF Has(RequestDefaults, "user_agent") THEN RequestDefaults["user_agent"] ELSE None)
      BY <1>2, <3>1, OptionAsAsked
    <3>3. Has(RequestDefaults, "user_agent") /\ RequestDefaults["user_agent"] = "default"
      BY DEF RequestDefaults, Has
    <3> QED  BY <3>2, <3>3
  <2> QED  BY <2>3, <2>4
<1>7. CASE \E n \in DOMAIN h : Lower[n] = "user-agent"
  <2>1. PICK n \in DOMAIN h : Lower[n] = "user-agent"
    BY <1>7
  <2>2. v = h[n]
    BY <1>2, <1>3, <2>1
  <2> HIDE DEF h, own, below, v, agents, option
  <2>3. CASE n \in DOMAIN own /\ h[n] = own[n]
    <3>1. agents(own) = {own[n]}
      BY <1>4, <1>5, <2>1, <2>3
    <3> QED  BY <1>1, <2>2, <2>3, <3>1 DEF v
  <2>4. CASE (~\E m \in DOMAIN own : Lower[m] = Lower[n]) /\ n \in DOMAIN below /\ h[n] = below[n]
    <3>1. agents(own) = {}
      BY <1>4, <2>1, <2>4
    <3>2. agents(below) = {below[n]}
      BY <1>4, <1>5, <2>1, <2>4
    <3> QED  BY <1>1, <2>2, <2>4, <3>1, <3>2 DEF v
  <2> QED  BY <1>5, <2>1, <2>3, <2>4
<1> QED  BY <1>6, <1>7

(* No body that a call may send is None.                                   *)
LEMMA BodiesAreSome ==
  ASSUME NEW c \in Calls, IsHeaders(mine), NEW f, IsPicked(f), NEW g, g = GivenBy(c, f)
  PROVE  /\ None # <<"json", g.json>> /\ None # <<"json", g.json_data>>
         /\ DataOf(g) # None => None # Encoded(DataOf(g))
         /\ g.files # None =>
              /\ None # EncodeMultipart(None, g.files)
              /\ DataOf(g) # None => None # EncodeMultipart(DataOf(g), g.files)
<1> DEFINE a == c.args
           data == {a.data} \cup {a.kw[o] : o \in DOMAIN a.kw \cap {"body", "body_bytes"}}
           asked == {d \in data : d # None}
<1>1. None \notin BodiesOf(a)
  BY CallsAssumption
<1>2. /\ g.data = a.data /\ g.json = a.json /\ g.json_data = a.json_data /\ g.files = a.files
      /\ g.kw = IF c.mine THEN Put(a.kw, "headers", mine) ELSE a.kw
  <2>1. g = [method |-> c.verb, url |-> a.url, params |-> a.params, data |-> a.data,
             json_data |-> a.json_data, json |-> a.json, files |-> a.files,
             fingerprint |-> f, auth |-> a.auth,
             kw |-> IF c.mine THEN Put(a.kw, "headers", mine) ELSE a.kw, own |-> c.mine]
    BY GivenIs
  <2> QED  BY <2>1
<1>3. \A o \in {"body", "body_bytes"} : /\ o \in DOMAIN g.kw <=> o \in DOMAIN a.kw
                                        /\ o \in DOMAIN a.kw => g.kw[o] = a.kw[o]
  BY <1>2 DEF Put
<1>4. DataOf(g) # None => DataOf(g) \in asked
  BY <1>2, <1>3 DEF DataOf, Has
<1>5. BodiesOf(a) = {Encoded(d) : d \in asked} \cup {<<"json", a.json>>, <<"json", a.json_data>>}
                    \cup (IF a.files = None THEN {} ELSE {EncodeMultipart(d, a.files) : d \in asked \cup {None}})
  BY DEF BodiesOf
<1> HIDE DEF asked
<1> QED  BY <1>1, <1>2, <1>4, <1>5

(* What a call has prepared is what it asked for.                          *)
LEMMA BegunAsAsked ==
  ASSUME RegistryOK, RequestsOK, NEW c \in Calls, NEW f \in Picked(c.args.fingerprint),
         NEW g, g = GivenBy(c, f), NEW k, IsCallOf(k, c, g), k.payload = PreparedFor(c, g).payload,
         k.payload # None
  PROVE  AsAsked(k)
<1> DEFINE e == Entry(c, g)
<1>1. IsPicked(f) /\ IsHeaders(mine) /\ SessionOK
  BY PickedIs, CallsAssumption DEF RequestsOK
<1>2. IsEntry(g) /\ OneBody(g) /\ g.method = c.verb
  BY <1>1, GivenIs
<1>3. PICK q : /\ k.payload = ToDict(q, e)
               /\ DOMAIN q.kw \subseteq RequestOptions
               /\ SentHeaders(q.hdr, e, k.profile)
               /\ SentOptions(q.kw, e, k.profile)
               /\ SentBody(q.body, q.bytes, e)
  BY <1>2, PreparedIs DEF IsCallOf
<1>4. DataOf(e) = DataOf(g)
  BY <1>1, <1>2, EntryIs
<1>5. Imposed(k) = SetFor(e) /\ PassedAuth(k) = e.auth /\ PassedJson(k) = JsonOf(e)
  BY <1>1, <1>2, ImposedIs DEF IsCallOf
<1>6. IsHeaders(OwnHeaders(k)) /\ Layered(HeadersOf(e), OwnHeaders(k), SessionLayer(k))
  BY <1>1, <1>2, LayersOfCall
<1>7. \A o : o \notin {"headers", "cookies"} => /\ o \in DOMAIN e.kw <=> o \in DOMAIN k.given.kw
                                                /\ o \in DOMAIN k.given.kw => e.kw[o] = k.given.kw[o]
  BY <1>1, <1>2, EntryOptions DEF IsCallOf
<1>8. e.files = g.files /\ e.json_data = g.json_data /\ (e.json = g.json \/ e.json = None)
  <2>1. PICK url, cookies : e = HandedOver(c, g, url, cookies)
    BY <1>1, <1>2, EntryFields
  <2> HIDE DEF e
  <2> QED  BY <2>1 DEF HandedOver
<1> HIDE DEF e
<1>9. k.given = g
  BY DEF IsCallOf
<1>10. WireBody(ToDict(q, e)) = BodyWith(k, PassedJson(k))
  <2>1. /\ None # <<"json", g.json>> /\ None # <<"json", g.json_data>>
        /\ DataOf(g) # None => None # Encoded(DataOf(g))
        /\ g.files # None => /\ None # EncodeMultipart(None, g.files)
                             /\ DataOf(g) # None => None # EncodeMultipart(DataOf(g), g.files)
    BY <1>1, BodiesAreSome
  <2>2. JsonOf(e) # None => None # <<"json", JsonOf(e)>>
    BY <1>8, <2>1 DEF JsonOf
  <2>3. {"body", "body_bytes", "headers"} \cap DOMAIN q.kw = {}
    BY <1>3 DEF SentOptions
  <2>4. DataOf(e) # None => None # Encoded(DataOf(e))
    BY <1>4, <2>1
  <2>5. e.files # None =>
          None # EncodeMultipart(IF DataOf(e) # None /\ DataOf(e).kind = "dict" THEN DataOf(e) ELSE None, e.files)
    BY <1>4, <1>8, <2>1
  <2>6. DataOf(k.given) = DataOf(e) /\ k.given.files = e.files
    BY <1>4, <1>8, <1>9
  <2> QED  BY <1>3, <1>5, <2>2, <2>3, <2>4, <2>5, <2>6, BodyAsAsked
<1>11. {ToDict(q, e).opts.user_agent} = AskedAgent(k)
  BY <1>3, <1>6, <1>7, AgentAsAsked
<1>12. ASSUME NEW o \in DOMAIN ToDict(q, e).opts \ {"user_agent", "timeout", "cookies"}
       PROVE  ToDict(q, e).opts[o] =
                IF Has(k.given.kw, o) THEN k.given.kw[o]
                ELSE ProfileOption(k, o, IF Has(RequestDefaults, o) THEN RequestDefaults[o] ELSE None)
  <2>1. o \notin {"body", "body_bytes", "headers"}
    BY <1>3, ToDictIs DEF SentOptions
  <2>2. OptionIs(q.kw, o, e, k.profile)
    BY <1>3, <2>1 DEF SentOptions
  <2> QED  BY <1>3, <1>7, <2>1, <2>2, OptionAsAsked
<1> DEFINE hdr == q.hdr
<1>13. SentHeaders(hdr, e, k.profile)
  BY <1>3
<1>14. ToDict(q, e).headers = hdr
  BY <1>3, ToDictIs DEF SentOptions
<1> HIDE DEF hdr
<1>15. HeadersFit(k, hdr)
  BY <1>5, <1>6, <1>13, HeadersAsAsked
<1> DEFINE wire == k.payload
<1>16. wire.headers = hdr /\ wire = ToDict(q, e)
  BY <1>3, <1>14
<1> HIDE DEF wire
<1>17. /\ {wire.opts.user_agent} = AskedAgent(k)
       /\ WireBody(wire) = BodyWith(k, PassedJson(k))
       /\ \A o \in DOMAIN wire.opts \ {"user_agent", "timeout", "cookies"} :
            wire.opts[o] =
              IF Has(k.given.kw, o) THEN k.given.kw[o]
              ELSE ProfileOption(k, o, IF Has(RequestDefaults, o) THEN RequestDefaults[o] ELSE None)
  BY <1>10, <1>11, <1>12, <1>16
<1> QED  BY <1>15, <1>16, <1>17 DEF AsAsked, HeadersFit, OwnOf, SendsAuth, wire

(* The rest of a call's life does not change what it has sent.             *)
LEMMA SameCall ==
  ASSUME NEW k, NEW l, k.client = l.client, k.given = l.given, k.under = l.under,
         k.profile = l.profile, k.payload = l.payload, AsAsked(k)
  PROVE  AsAsked(l)
<1>1. /\ OwnHeaders(l) = OwnHeaders(k) /\ SessionLayer(l) = SessionLayer(k)
      /\ ProfileLayer(l) = ProfileLayer(k) /\ PassedAuth(l) = PassedAuth(k) /\ PassedJson(l) = PassedJson(k)
      /\ \A o, d : ProfileOption(l, o, d) = ProfileOption(k, o, d)
  BY DEF OwnHeaders, SessionLayer, ProfileLayer, PassedAuth, PassedJson, NotPassedOn, AskedAuth, AskedJson,
         ProfileOption
<1>2. /\ Imposed(l) = Imposed(k) /\ AskedAgent(l) = AskedAgent(k)
      /\ BodyWith(l, PassedJson(l)) = BodyWith(k, PassedJson(k))
  BY <1>1 DEF Imposed, BodyWith, AskedAgent
<1> DEFINE wire == l.payload
           option(c, o) == IF Has(c.given.kw, o) THEN c.given.kw[o]
                           ELSE ProfileOption(c, o, IF Has(RequestDefaults, o) THEN RequestDefaults[o] ELSE None)
           asAsked(c) ==
             /\ {wire.opts.user_agent} = AskedAgent(c) /\ WireBody(wire) = BodyWith(c, PassedJson(c))
             /\ \A o \in DOMAIN wire.opts \ {"user_agent", "timeout", "cookies"} : wire.opts[o] = option(c, o)
             /\ HeadersFit(c, wire.headers)
<1>3. asAsked(k)
  BY DEF AsAsked, HeadersFit, OwnOf, SendsAuth
<1>4. OwnOf(l) = OwnOf(k) /\ \A o : option(l, o) = option(k, o)
  BY <1>1 DEF OwnOf
<1> HIDE DEF option
<1>5. HeadersFit(l, wire.headers) = HeadersFit(k, wire.headers)
  BY <1>1, <1>2, <1>4 DEF HeadersFit
<1> HIDE DEF wire
<1>6. asAsked(l)
  BY <1>1, <1>2, <1>3, <1>4, <1>5
<1> QED  BY <1>6 DEF AsAsked, HeadersFit, OwnOf, SendsAuth, wire, option

-----------------------------------------------------------------------------
(* The invariant of the calls.                                             *)

IsCall(k) ==
  k = [client |-> k.client, given |-> k.given, under |-> k.under, profile |-> k.profile,
       payload |-> k.payload, cookies |-> k.cookies, begun |-> k.begun, ended |-> k.ended,
       err |-> k.err, response |-> k.response, world |-> k.world]

(* A call that has ended has told the truth, and what a call has sent is   *)
(* what it was asked to send.                                              *)
CallOK(k) ==
  /\ IsCall(k) /\ k.ended \in Nat
  /\ k.client = "batch" => k.ended > 0
  /\ k.ended > 0 => HonestCall(k) /\ (k.err = None) # (k.response = None)
  /\ k.client # "batch" /\ k.payload # None => AsAsked(k)

CallsOK == \A i \in DOMAIN calls : CallOK(calls[i])

(* A new call is the next one.                                             *)
LEMMA MadeIs ==
  ASSUME RequestsOK, NEW client, made' = Made(client)
  PROVE  /\ made' = [session |-> made'.session, other |-> made'.other]
         /\ made'.session \in Nat /\ made'.other \in Nat /\ LastCall \in Nat /\ LastCall' = LastCall + 1
<1>1. \/ made' = [session |-> made.session + 1, other |-> made.other]
      \/ made' = [session |-> made.session, other |-> made.other + 1]
  BY DEF Made, RequestsOK
<1>2. LastCall = made.session + made.other /\ LastCall' = made'.session + made'.other
  BY DEF LastCall
<1> QED  BY <1>1, <1>2 DEF RequestsOK

(* A call that is as it should be joins the calls that are kept.           *)
LEMMA NewCallOK ==
  ASSUME RequestsOK, CallsOK, LastCall \in Nat, LastCall' = LastCall + 1,
         NEW k, CallOK(k), calls' = Put(Recent, LastCall + 1, k)
  PROVE  /\ CallsOK' /\ DOMAIN calls' \subseteq 1..LastCall'
         /\ LastCall' \in DOMAIN calls' /\ calls'[LastCall'] = k
<1>1. DOMAIN Recent \subseteq DOMAIN calls /\ \A i \in DOMAIN Recent : Recent[i] = calls[i]
  BY DEF Recent
<1>2. /\ DOMAIN calls' = DOMAIN Recent \cup {LastCall + 1}
      /\ calls'[LastCall + 1] = k
      /\ \A i \in DOMAIN Recent : i # LastCall + 1 => calls'[i] = Recent[i]
  BY DEF Put
<1>3. DOMAIN calls' \subseteq 1..LastCall'
  BY <1>1, <1>2 DEF RequestsOK
<1>4. \A i \in DOMAIN calls' : CallOK(calls'[i])
  BY <1>1, <1>2 DEF CallsOK
<1>5. CallsOK'
  BY <1>4 DEF CallsOK
<1> QED  BY <1>2, <1>3, <1>5

(* A call that begins sends what was asked.                                *)
LEMMA BegunIsOK ==
  ASSUME RegistryOK, RequestsOK, NEW c \in Calls, NEW f \in Picked(c.args.fingerprint)
  PROVE  CallOK(NewCall(c, GivenBy(c, f), PreparedFor(c, GivenBy(c, f))))
<1> DEFINE g == GivenBy(c, f)
           prepared == PreparedFor(c, g)
           k == NewCall(c, g, prepared)
<1>1. IsCall(k) /\ k.ended = 0 /\ k.client = c.client /\ IsCallOf(k, c, g) /\ k.payload = prepared.payload
  BY DEF NewCall, IsCall, IsCallOf
<1>2. c.client # "batch"
  BY CallsAssumption
<1> HIDE DEF g, prepared, k
<1>3. k.payload # None => AsAsked(k)
  BY <1>1, BegunAsAsked DEF g, prepared
<1>4. CallOK(k)
  BY <1>1, <1>2, <1>3 DEF CallOK
<1> QED  BY <1>4 DEF g, prepared, k

(* A call that ends tells what happened, and sent what it did before.      *)
LEMMA FinishedIsOK ==
  ASSUME RequestsOK, CallsOK, NEW i \in DOMAIN calls, NEW w \in AllWorlds, Finish(i, w)
  PROVE  /\ CallsOK' /\ DOMAIN calls' = DOMAIN calls
         /\ calls'[i] = [client |-> calls[i].client, given |-> calls[i].given, under |-> calls[i].under,
                         profile |-> calls[i].profile, payload |-> calls[i].payload,
                         cookies |-> calls[i].cookies, begun |-> calls[i].begun, ended |-> clock,
                         err |-> Outcome(w).err, response |-> Outcome(w).response, world |-> w]
         /\ \A j \in DOMAIN calls : j # i => calls'[j] = calls[j]
<1> DEFINE k == calls[i]
           e == Outcome(w).err
           r == Outcome(w).response
           l == calls'[i]
<1>1. calls' = [calls EXCEPT ![i].ended = clock, ![i].world = w, ![i].err = e, ![i].response = r]
  BY DEF Finish
<1>2. CallOK(k) /\ k.err = None /\ k.ended = 0 /\ clock \in Nat \ {0} /\ IsWorld(w)
  BY WorldsAssumption DEF CallsOK, Finish, InFlight, RequestsOK
<1> HIDE DEF e, r
<1>3. /\ DOMAIN calls' = DOMAIN calls
      /\ \A j \in DOMAIN calls : j # i => calls'[j] = calls[j]
      /\ l = [[[[k EXCEPT !.ended = clock] EXCEPT !.world = w] EXCEPT !.err = e] EXCEPT !.response = r]
  BY <1>1
<1> HIDE DEF k, l
<1>4. l = [client |-> k.client, given |-> k.given, under |-> k.under, profile |-> k.profile,
           payload |-> k.payload, cookies |-> k.cookies, begun |-> k.begun, ended |-> clock,
           err |-> e, response |-> r, world |-> w]
  <2>1. k = [client |-> k.client, given |-> k.given, under |-> k.under, profile |-> k.profile,
             payload |-> k.payload, cookies |-> k.cookies, begun |-> k.begun, ended |-> k.ended,
             err |-> k.err, response |-> k.response, world |-> k.world]
    BY <1>2 DEF CallOK, IsCall
  <2> QED  BY <1>3, <2>1
<1>5. CallOK(l)
  <2>1. IsCall(l) /\ l.ended \in Nat /\ l.ended > 0
    BY <1>2, <1>4 DEF IsCall
  <2>2. k.client # "batch"
    BY <1>2 DEF CallOK
  <2>3. HonestFor(w, e, r) /\ (e = None) # (r = None)
    BY <1>2, HonestOutcome DEF e, r
  <2>4. HonestCall(l) /\ (l.err = None) # (l.response = None)
    BY <1>4, <2>2, <2>3 DEF HonestCall
  <2>5. l.payload # None => AsAsked(l)
    <3>1. SUFFICES ASSUME l.payload # None PROVE AsAsked(l)
      OBVIOUS
    <3>2. k.client = l.client /\ k.given = l.given /\ k.under = l.under
          /\ k.profile = l.profile /\ k.payload = l.payload
      BY <1>4
    <3>3. AsAsked(k)
      BY <1>2, <2>2, <3>1, <3>2 DEF CallOK
    <3> QED  BY <3>2, <3>3, SameCall
  <2> QED  BY <2>1, <2>4, <2>5 DEF CallOK
<1>6. CallsOK'
  <2>1. \A j \in DOMAIN calls' : CallOK(calls'[j])
    BY <1>3, <1>5 DEF CallsOK, l
  <2> QED  BY <2>1 DEF CallsOK
<1> QED  BY <1>3, <1>4, <1>6 DEF k, l, e, r

(* A request of a batch is refused only for two bodies.                    *)
LEMMA BatchErrorIs ==
  ASSUME NEW a, IsArgs(a), BatchPayload(a).err # None
  PROVE  a.data # None /\ a.json_data # None /\ BatchPayload(a).err = "ValueError"
<1> DEFINE start == Start(a)
           no == FALSE
           p == [start EXCEPT !.shared = no]
           q == EncodeBody(p)
<1>1. BatchPayload(a).err = q.err
  BY DEF BatchPayload
<1> DEFINE given == IF Has(a.kw, "headers") THEN a.kw.headers ELSE Empty
           shared == a.own /\ given # Empty
           kw == Without(a.kw, "headers")
<1>2. start = [hdr |-> given, shared |-> shared, theirs |-> given, kw |-> kw,
               data |-> a.data, json |-> a.json_data, body |-> None, bytes |-> None, err |-> None]
  BY DEF Start
<1> HIDE DEF start, given, shared, kw, no
<1>3. p = [hdr |-> given, shared |-> no, theirs |-> given, kw |-> kw,
           data |-> a.data, json |-> a.json_data, body |-> None, bytes |-> None, err |-> None]
  BY <1>2
<1> HIDE DEF p
<1>4. Fine(p)
  BY <1>3 DEF Fine
<1>5. \A r, v : "err" \in DOMAIN r =>
        /\ [r EXCEPT !.body = v].err = r.err
        /\ [r EXCEPT !.bytes = v].err = r.err
  OBVIOUS
<1>6. "err" \in DOMAIN p /\ p.err = None
  BY <1>3
<1>7. \A v, body : [PutHeader(p, "Content-Type", v) EXCEPT !.body = body].err = None
  <2>1. ASSUME NEW v
        PROVE  "err" \in DOMAIN PutHeader(p, "Content-Type", v) /\ PutHeader(p, "Content-Type", v).err = None
    <3>1. \A d, t : /\ "err" \in DOMAIN [p EXCEPT !.hdr = d, !.theirs = t]
                    /\ [p EXCEPT !.hdr = d, !.theirs = t].err = None
      BY <1>6
    <3>2. \E d, t : PutHeader(p, "Content-Type", v) = [p EXCEPT !.hdr = d, !.theirs = t]
      <4> DEFINE d == Put(p.hdr, "Content-Type", v)
      <4>1. PutHeader(p, "Content-Type", v) = [p EXCEPT !.hdr = d, !.theirs = IF p.shared THEN d ELSE @]
        BY DEF PutHeader, SetHeaders
      <4> HIDE DEF d
      <4>2. PutHeader(p, "Content-Type", v) = [p EXCEPT !.hdr = d, !.theirs = IF p.shared THEN d ELSE p.theirs]
        BY <1>3, <4>1
      <4> QED  BY <4>2
    <3> QED  BY <3>1, <3>2
  <2> QED  BY <1>5, <2>1
<1>8. CASE a.json_data # None /\ a.data # None
  <2>1. q = Raise(p, "ValueError")
    BY <1>3, <1>4, <1>8 DEF EncodeBody
  <2>2. q.err = "ValueError"
    BY <1>3, <2>1 DEF Raise
  <2> QED  BY <1>1, <1>8, <2>2
<1>9. CASE a.json_data # None /\ a.data = None
  <2>1. q = [PutHeader(p, "Content-Type", JsonType) EXCEPT !.body = <<"json", p.json>>]
    BY <1>3, <1>4, <1>9 DEF EncodeBody
  <2> HIDE DEF q
  <2> QED  BY <1>1, <1>7, <2>1
<1>10. CASE a.json_data = None /\ a.data = None
  <2>1. q = p
    BY <1>3, <1>4, <1>10 DEF EncodeBody
  <2> QED  BY <1>1, <1>3, <2>1
<1>11. CASE a.json_data = None /\ a.data # None
  <2>1. \/ q = [PutHeader(p, "Content-Type", FormType) EXCEPT !.body = Encoded(p.data)]
        \/ q = [p EXCEPT !.body = Encoded(p.data)]
        \/ q = [p EXCEPT !.bytes = Encoded(p.data)]
    <3>1. p.json = None /\ p.data # None
      BY <1>3, <1>11
    <3>2. CASE p.data.kind = "dict" /\ ~Has(p.hdr, "Content-Type")
      BY <1>4, <3>1, <3>2 DEF EncodeBody
    <3>3. CASE p.data.kind = "dict" /\ Has(p.hdr, "Content-Type")
      BY <1>4, <3>1, <3>3 DEF EncodeBody
    <3>4. CASE p.data.kind = "bytes"
      BY <1>4, <3>1, <3>4 DEF EncodeBody
    <3>5. CASE p.data.kind \notin {"dict", "bytes"}
      BY <1>4, <3>1, <3>5 DEF EncodeBody
    <3> QED  BY <3>2, <3>3, <3>4, <3>5
  <2> HIDE DEF q
  <2>2. /\ [PutHeader(p, "Content-Type", FormType) EXCEPT !.body = Encoded(p.data)].err = None
        /\ [p EXCEPT !.body = Encoded(p.data)].err = None
        /\ [p EXCEPT !.bytes = Encoded(p.data)].err = None
    BY <1>5, <1>6, <1>7
  <2>3. q.err = None
    BY <2>1, <2>2
  <2> QED  BY <1>1, <2>3
<1> QED  BY <1>8, <1>9, <1>10, <1>11

(* A batch is answered honestly: its first exception, no answers when a    *)
(* timeout is lost, or one answer for each request.                        *)
LEMMA BatchedIsOK ==
  ASSUME RequestsOK, NEW b \in Batches, Batch(b)
  PROVE  \E k : CallOK(k) /\ k.client = "batch" /\ calls' = Put(Recent, LastCall + 1, k)
<1> DEFINE args == [i \in DOMAIN b |-> b[i].args]
           built == [i \in DOMAIN b |-> BatchPayload(args[i])]
           bad == {i \in DOMAIN b : built[i].err # None}
           got == [i \in DOMAIN b |-> Outcome(b[i].world)]
           raised == {i \in DOMAIN b : got[i].err # None}
           first(S) == CHOOSE i \in S : \A j \in S : i <= j
           lost == \E i \in DOMAIN b : Fractional(args[i])
           err == IF bad # {} THEN built[first(bad)].err
                  ELSE IF lost THEN None
                  ELSE IF raised # {} THEN got[first(raised)].err ELSE None
           answers == [i \in DOMAIN b |-> got[i].response]
           response == IF err # None THEN None ELSE IF lost THEN << >> ELSE answers
           worlds == [i \in DOMAIN b |-> b[i].world]
           sent == [i \in DOMAIN b |-> built[i].payload]
           k == [client |-> "batch", given |-> args, payload |-> sent, under |-> session, profile |-> None,
                 cookies |-> << >>, begun |-> clock, ended |-> clock, err |-> err, world |-> worlds,
                 response |-> response]
<1>1. calls' = Put(Recent, LastCall + 1, k)
  BY DEF Batch
<1>2. Len(b) \in Nat /\ DOMAIN b = 1..Len(b) /\ \A i \in DOMAIN b : b[i] \in ToSet(b)
  BY CallsAssumption DEF ToSet
<1>3. \A i \in DOMAIN b : IsArgs(b[i].args) /\ IsWorld(b[i].world)
  BY <1>2, CallsAssumption, WorldsAssumption
<1>4. \A i \in DOMAIN b : args[i] = b[i].args /\ worlds[i] = b[i].world /\ got[i] = Outcome(b[i].world)
                          /\ built[i] = BatchPayload(b[i].args) /\ answers[i] = got[i].response
  OBVIOUS
<1>5. \A S \in SUBSET DOMAIN b : S # {} => first(S) \in S
  <2>1. ASSUME NEW S \in SUBSET DOMAIN b, S # {} PROVE first(S) \in S
    <3>1. S \in SUBSET Nat
      BY <1>2
    <3>2. \E i \in S : \A j \in S : i <= j
      BY <2>1, <3>1, Least
    <3> QED  BY <3>2
  <2> QED  BY <2>1
<1>6. bad \in SUBSET DOMAIN b /\ raised \in SUBSET DOMAIN b
  OBVIOUS
<1>7. DOMAIN args = DOMAIN b /\ DOMAIN answers = DOMAIN b
  OBVIOUS
<1>8. answers # None /\ None # << >> /\ None # "ValueError"
  <2>1. answers = [i \in DOMAIN b |-> Outcome(b[i].world).response]
    OBVIOUS
  <2> HIDE DEF answers
  <2> QED  BY <2>1, NoneAssumption
<1>9. \A i \in bad : args[i].data # None /\ args[i].json_data # None /\ built[i].err = "ValueError"
  BY <1>3, <1>4, BatchErrorIs
<1>10. \A i \in raised : HonestFor(worlds[i], got[i].err, None) /\ got[i].err # None
  BY <1>3, <1>4, HonestOutcome
<1>11. \A i \in DOMAIN b : i \notin raised => HonestFor(worlds[i], None, answers[i])
  <2>1. ASSUME NEW i \in DOMAIN b, i \notin raised PROVE HonestFor(worlds[i], None, answers[i])
    <3>1. Outcome(b[i].world).err = None
      BY <2>1
    <3>2. HonestFor(b[i].world, Outcome(b[i].world).err, Outcome(b[i].world).response)
      BY <1>3, HonestOutcome
    <3> QED  BY <1>4, <3>1, <3>2
  <2> QED  BY <2>1
<1> HIDE DEF args, built, bad, got, raised, first, answers, worlds, sent
<1>12. CASE bad # {}
  <2>1. first(bad) \in bad /\ err = built[first(bad)].err
    BY <1>5, <1>6, <1>12
  <2>2. err # None /\ \E i \in DOMAIN args : args[i].data # None /\ args[i].json_data # None
    BY <1>6, <1>7, <1>8, <1>9, <2>1
  <2> HIDE DEF err
  <2>3. HonestCall(k) /\ (err = None) # (response = None)
    BY <2>2 DEF HonestCall
  <2> HIDE DEF response
  <2>4. CallOK(k)
    BY <2>3 DEF CallOK, IsCall, RequestsOK
  <2> QED  BY <1>1, <2>4
<1>13. CASE bad = {} /\ lost
  <2>1. err = None
    BY <1>13
  <2>2. response = << >>
    BY <1>13, <2>1
  <2>3. \E i \in DOMAIN args : Fractional(args[i])
    BY <1>7, <1>13
  <2> HIDE DEF err, lost
  <2>4. (err = None) # (response = None)
    BY <1>8, <2>1, <2>2
  <2> HIDE DEF response
  <2>5. HonestCall(k)
    BY <2>3 DEF HonestCall
  <2>6. CallOK(k)
    BY <2>4, <2>5 DEF CallOK, IsCall, RequestsOK
  <2> QED  BY <1>1, <2>6
<1>14. CASE bad = {} /\ ~lost /\ raised # {}
  <2>1. first(raised) \in raised /\ err = got[first(raised)].err
    BY <1>5, <1>6, <1>14
  <2>2. err # None /\ \E i \in DOMAIN args : HonestFor(worlds[i], err, None)
    BY <1>6, <1>7, <1>10, <2>1
  <2> HIDE DEF err
  <2>3. response = None
    BY <2>2
  <2> HIDE DEF response
  <2>4. HonestCall(k)
    BY <2>2 DEF HonestCall
  <2>5. CallOK(k)
    BY <2>2, <2>3, <2>4 DEF CallOK, IsCall, RequestsOK
  <2> QED  BY <1>1, <2>5
<1>15. CASE bad = {} /\ ~lost /\ raised = {}
  <2>1. err = None /\ response = answers
    BY <1>15
  <2> HIDE DEF err, response, lost
  <2>2. \A i \in DOMAIN args : HonestFor(worlds[i], None, answers[i])
    BY <1>7, <1>11, <1>15
  <2>3. HonestCall(k)
    BY <1>7, <2>1, <2>2 DEF HonestCall
  <2>4. CallOK(k)
    BY <1>8, <2>1, <2>3 DEF CallOK, IsCall, RequestsOK
  <2> QED  BY <1>1, <2>4
<1> QED  BY <1>12, <1>13, <1>14, <1>15

(* A new call: its record is the last one, the rest is counted.            *)
LEMMA BegunKeepsOK ==
  ASSUME RegistryOK, RequestsOK, CallsOK,
         NEW c \in Calls, NEW f \in Picked(c.args.fingerprint), Begin(c, f)
  PROVE  /\ RequestsOK' /\ CallsOK' /\ LastCall' \in DOMAIN calls'
         /\ calls'[LastCall'] = NewCall(c, GivenBy(c, f), PreparedFor(c, GivenBy(c, f)))
<1> DEFINE g == GivenBy(c, f)
           k == NewCall(c, g, PreparedFor(c, g))
<1>1. /\ IsEntry(g) /\ OneBody(g) /\ g.method = c.verb
      /\ calls' = Put(Recent, LastCall + 1, k)
      /\ mine' = IF Entry(c, g).own THEN PreparedFor(c, g).theirs ELSE mine
      /\ made' = Made(c.client) /\ clock' = Tick(c.client) /\ session' = session
  BY BeginIs
<1>2. CallOK(k)
  BY BegunIsOK
<1>3. IsHeaders(PreparedFor(c, g).theirs)
  BY <1>1, PreparedIs
<1> HIDE DEF g, k
<1>4. IsHeaders(mine')
  BY <1>1, <1>3 DEF RequestsOK
<1>5. /\ made' = [session |-> made'.session, other |-> made'.other]
      /\ made'.session \in Nat /\ made'.other \in Nat /\ LastCall \in Nat /\ LastCall' = LastCall + 1
  BY <1>1, MadeIs
<1>6. /\ CallsOK' /\ DOMAIN calls' \subseteq 1..LastCall'
      /\ LastCall' \in DOMAIN calls' /\ calls'[LastCall'] = k
  BY <1>1, <1>2, <1>5, NewCallOK
<1>7. clock' \in Nat \ {0}
  BY <1>1 DEF Tick, RequestsOK
<1>8. SessionOK'
  BY <1>1 DEF RequestsOK, SessionOK, IsCIDict
<1>9. RequestsOK'
  BY <1>4, <1>5, <1>6, <1>7, <1>8 DEF RequestsOK
<1> QED  BY <1>6, <1>9 DEF g, k

(* A batch keeps the invariant.                                            *)
LEMMA BatchedKeepsOK ==
  ASSUME RequestsOK, CallsOK, NEW b \in Batches, Batch(b)
  PROVE  RequestsOK' /\ CallsOK'
<1>1. made' = Made("batch") /\ UNCHANGED <<session, mine, clock>>
  BY DEF Batch
<1>2. PICK k : CallOK(k) /\ calls' = Put(Recent, LastCall + 1, k)
  BY BatchedIsOK
<1>3. /\ made' = [session |-> made'.session, other |-> made'.other]
      /\ made'.session \in Nat /\ made'.other \in Nat /\ LastCall \in Nat /\ LastCall' = LastCall + 1
  BY <1>1, MadeIs
<1>4. CallsOK' /\ DOMAIN calls' \subseteq 1..LastCall'
  BY <1>2, <1>3, NewCallOK
<1>5. SessionOK' /\ IsHeaders(mine') /\ clock' \in Nat \ {0}
  BY <1>1 DEF RequestsOK, SessionOK, IsCIDict
<1> QED  BY <1>3, <1>4, <1>5 DEF RequestsOK

(* Only the cookies of the session change.                                 *)
LEMMA FinishedKeepsOK ==
  ASSUME RequestsOK, CallsOK, NEW i \in DOMAIN calls, NEW w \in AllWorlds, Finish(i, w)
  PROVE  RequestsOK' /\ CallsOK'
<1>1. CallsOK' /\ DOMAIN calls' = DOMAIN calls
  BY FinishedIsOK
<1>2. /\ session' = session \/ session' = UpdateCookies(session, Outcome(w).response)
      /\ clock' = Tick(calls[i].client) /\ UNCHANGED <<mine, made>>
  BY DEF Finish
<1>3. /\ session' = [headers |-> session'.headers, cookies |-> session'.cookies, closed |-> session'.closed]
      /\ session'.headers = session.headers /\ session'.closed = session.closed
  <2> DEFINE jar == JarSet(session.cookies, Outcome(w).response.cookies)
  <2>1. session' = session \/ session' = [session EXCEPT !.cookies = jar]
    BY <1>2 DEF UpdateCookies
  <2> HIDE DEF jar
  <2>2. session = [headers |-> session.headers, cookies |-> session.cookies, closed |-> session.closed]
    BY DEF RequestsOK, SessionOK
  <2> QED  BY <2>1, <2>2
<1>4. SessionOK'
  BY <1>3 DEF RequestsOK, SessionOK, IsCIDict
<1>5. clock' \in Nat \ {0}
  BY <1>2 DEF Tick, RequestsOK
<1>6. LastCall' = LastCall
  BY <1>2 DEF LastCall
<1> QED  BY <1>1, <1>2, <1>4, <1>5, <1>6 DEF RequestsOK

(* The steps that only change the session.                                 *)
LEMMA SessionKeepsOK ==
  ASSUME RequestsOK, CallsOK, UNCHANGED <<mine, calls, made, clock>>, SessionOK'
  PROVE  RequestsOK' /\ CallsOK'
<1>1. LastCall' = LastCall
  BY DEF LastCall
<1> QED  BY <1>1 DEF RequestsOK, CallsOK

(* The headers of a session stay a dictionary without case.                *)
LEMMA SessionSteps ==
  ASSUME SessionOK
  PROVE  /\ \A n \in DOMAIN SessionHeaders : \A v : SetSessionHeader(n, v) => SessionOK'
         /\ Close => SessionOK'
         /\ Aclose => SessionOK'
<1>1. ASSUME NEW n \in DOMAIN SessionHeaders, NEW v, SetSessionHeader(n, v) PROVE SessionOK'
  <2> DEFINE h == CISet(session.headers, n, v)
  <2>1. IsCIDict(h)
    BY CallsAssumption DEF CISet, Put, IsCIDict, SessionOK
  <2>2. session' = [session EXCEPT !.headers = h]
    BY <1>1 DEF SetSessionHeader
  <2> HIDE DEF h
  <2>3. session' = [headers |-> h, cookies |-> session.cookies, closed |-> session.closed]
    BY <2>2 DEF SessionOK
  <2> QED  BY <2>1, <2>3 DEF SessionOK, IsCIDict
<1>2. ASSUME Close PROVE SessionOK'
  BY <1>2 DEF Close, SessionOK, IsCIDict, Empty
<1>3. ASSUME Aclose PROVE SessionOK'
  <2>1. session' = [headers |-> session.headers, cookies |-> session.cookies, closed |-> TRUE]
    BY <1>3 DEF Aclose, SessionOK
  <2> QED  BY <2>1 DEF SessionOK, IsCIDict
<1> QED  BY <1>1, <1>2, <1>3

(* A new process has a new session and no calls.                           *)
LEMMA RequestsInitOK ==
  ASSUME session = NewSession, mine = MyHeaders, calls = Empty, clock = 1,
         made = [session |-> made.session, other |-> made.other],
         made.session \in Nat, made.other \in Nat
  PROVE  RequestsOK /\ CallsOK
<1>1. SessionOK
  BY DEF NewSession, SessionOK, IsCIDict, Empty
<1>2. IsHeaders(mine)
  BY CallsAssumption
<1>3. DOMAIN calls = {}
  BY DEF Empty
<1> QED  BY <1>1, <1>2, <1>3 DEF RequestsOK, CallsOK

(* Every step keeps what is known of the session, the caller's dictionary  *)
(* and each call.                                                          *)
LEMMA RequestsStep ==
  ASSUME RegistryOK, RequestsOK, CallsOK, [Next]_vars
  PROVE  RequestsOK' /\ CallsOK'
<1>1. CASE \E c \in Calls : \E f \in Picked(c.args.fingerprint) : Begin(c, f)
  BY <1>1, BegunKeepsOK
<1>2. CASE \E i \in DOMAIN calls, w \in AllWorlds : Finish(i, w)
  BY <1>2, FinishedKeepsOK
<1>3. CASE \E b \in Batches : Batch(b)
  BY <1>3, BatchedKeepsOK
<1>4. CASE (\E n \in DOMAIN SessionHeaders : SetSessionHeader(n, SessionHeaders[n])) \/ Close \/ Aclose
  <2>1. SessionOK'
    BY <1>4, SessionSteps DEF RequestsOK
  <2>2. UNCHANGED <<mine, calls, made, clock>>
    BY <1>4 DEF SetSessionHeader, Close, Aclose
  <2> QED  BY <2>1, <2>2, SessionKeepsOK
<1>5. CASE Registry
  <2>1. CASE process' = "down"
    <3>1. session' = NewSession /\ mine' = MyHeaders /\ calls' = Empty /\ clock' = 1 /\ made' = made
      BY <1>5, <2>1 DEF Registry
    <3>2. SessionOK'
      BY <3>1 DEF NewSession, SessionOK, IsCIDict, Empty
    <3>3. IsHeaders(mine')
      BY <3>1, CallsAssumption
    <3>4. DOMAIN calls' = {}
      BY <3>1 DEF Empty
    <3> QED  BY <3>1, <3>2, <3>3, <3>4 DEF RequestsOK, CallsOK
  <2>2. CASE process' # "down"
    <3>1. UNCHANGED requestVars
      BY <1>5, <2>2 DEF Registry
    <3> QED  BY <3>1, SessionKeepsOK DEF requestVars, RequestsOK, SessionOK, IsCIDict
  <2> QED  BY <2>1, <2>2
<1>6. CASE UNCHANGED vars
  BY <1>6, SessionKeepsOK DEF vars, RequestsOK, SessionOK, IsCIDict
<1> QED  BY <1>1, <1>2, <1>3, <1>4, <1>5, <1>6 DEF Next

(* The registry, the session and the calls are as they should be in every  *)
(* state.                                                                  *)
LEMMA RequestsInvariant == Spec => [](RegistryOK /\ RequestsOK /\ CallsOK)
<1>1. Init => RequestsOK /\ CallsOK
  BY RequestsInitOK DEF Init
<1> QED  BY <1>1, RequestsStep, RegistryInvariant, PTL DEF Spec

(* What reaches the Go side is what the call asked for: its user agent,    *)
(* its body, its options and its headers, the call's over the session's    *)
(* over the profile's over the defaults, through the three merges of       *)
(* api.py _prepare_request, fingerprints.py apply_to_kwargs and            *)
(* sessions.py _merge_session_state.                                       *)
THEOREM Asked == Spec => []SentIsWhatWasAsked
<1>1. CallsOK => SentIsWhatWasAsked
  BY DEF CallsOK, CallOK, SentIsWhatWasAsked, Sent
<1> QED  BY <1>1, RequestsInvariant, PTL

(* What the caller gets is what happened: a failure raises the exception   *)
(* of its cause and an answer is returned as it is, with the exceptions    *)
(* that the property names, although Go passes on a status and a text only *)
(* (errors.go parseError, schema.py _raise_for_error_response).            *)
THEOREM Honest == Spec => []OutcomeIsHonest
<1>1. ASSUME RegistryOK, RequestsOK, CallsOK PROVE OutcomeIsHonest
  <2>1. /\ process \in {"down", "running", "broken"} /\ saving \in BOOLEAN
        /\ registryOps \in 0..MaxRegistryOps
        /\ \A n \in DOMAIN profiles : profiles[n].name = n
    BY <1>1 DEF RegistryOK, GoodRegistry
  <2>2. DOMAIN session.headers \subseteq {Lower[n] : n \in DOMAIN Lower}
    BY <1>1 DEF RequestsOK, SessionOK, IsCIDict
  <2>3. /\ session.closed \in BOOLEAN /\ DOMAIN mine \subseteq DOMAIN Lower
        /\ DOMAIN calls \subseteq 1..LastCall /\ clock \in Nat \ {0}
    BY <1>1 DEF RequestsOK, SessionOK, IsHeaders
  <2>4. \A i \in DOMAIN calls : calls[i].ended > 0 =>
          HonestCall(calls[i]) /\ (calls[i].err = None) # (calls[i].response = None)
    BY <1>1 DEF CallsOK, CallOK
  <2>5. TypeOK
    BY <2>1, <2>2, <2>3, <2>4 DEF TypeOK
  <2> QED  BY <2>4, <2>5 DEF OutcomeIsHonest
<1> QED  BY <1>1, RequestsInvariant, PTL

(* A call through a session never changes the dictionary its caller passed *)
(* as headers; one through another client only takes the user agent out    *)
(* and adds headers the library sets (sessions.py _merge_session_state,    *)
(* api.py _prepare_request).                                               *)
THEOREM DictIsKept == Spec => CallersDictIsKept
<1>1. ASSUME RegistryOK, RequestsOK, CallsOK, [Next]_vars, mine' # mine, process' # "down"
      PROVE  LET c == calls'[LastCall']
             IN  /\ c.client # "session"
                 /\ \A n \in DOMAIN mine :
                      Lower[n] # "user-agent" /\ n \notin Imposed(c) => Has(mine', n) /\ mine'[n] = mine[n]
                 /\ \A n \in DOMAIN mine' \ DOMAIN mine :
                      n \in {"Authorization", "Content-Type"} \/ n \in DOMAIN DynamicSecChUa(c.profile)
  <2>1. PICK c \in Calls : \E f \in Picked(c.args.fingerprint) : Begin(c, f)
    BY <1>1 DEF Next, vars, requestVars, Registry, Finish, Batch, SetSessionHeader, Close, Aclose
  <2>2. PICK f \in Picked(c.args.fingerprint) : Begin(c, f)
    BY <2>1
  <2> DEFINE g == GivenBy(c, f)
             k == NewCall(c, g, PreparedFor(c, g))
  <2>3. /\ IsEntry(g) /\ OneBody(g) /\ g.method = c.verb
        /\ g.own = c.mine /\ (c.mine => HeadersOf(g) = mine)
        /\ mine' = IF Entry(c, g).own THEN PreparedFor(c, g).theirs ELSE mine
    BY <1>1, <2>2, BeginIs
  <2>4. calls'[LastCall'] = k
    BY <1>1, <2>2, BegunKeepsOK
  <2>5. k.client = c.client /\ k.given = g /\ k.profile = ProfileOf(g)
    BY DEF NewCall
  <2> HIDE DEF g, k
  <2>6. Entry(c, g).own /\ mine' = PreparedFor(c, g).theirs
    BY <1>1, <2>3
  <2>7. c.client # "session" /\ g.own
    BY <1>1, <2>3, <2>6, EntryIs DEF RequestsOK
  <2>8. Keeps(mine, mine', SetFor(Entry(c, g)), AddedFor(ProfileOf(g)))
    BY <1>1, <2>3, <2>6, <2>7, PreparedIs
  <2>9. Imposed(k) = SetFor(Entry(c, g))
    BY <1>1, <2>3, <2>5, ImposedIs DEF RequestsOK
  <2>10. \A n \in AddedFor(k.profile) :
          n \in {"Authorization", "Content-Type"} \/ n \in DOMAIN DynamicSecChUa(k.profile)
    BY DEF AddedFor
  <2> QED  BY <2>4, <2>5, <2>7, <2>8, <2>9, <2>10 DEF Keeps, Has
<1> QED  BY <1>1, RequestsInvariant, PTL DEF Spec, CallersDictIsKept

-----------------------------------------------------------------------------
(* The cookies of a session.                                               *)

(* merged is what _merge_cookie makes of the first k cookies of given.     *)
Merging(f, jar, given, N) ==
  f = [k \in 0..N |-> IF k = 0 THEN jar ELSE MergeCookie(f[k - 1], given[k])]

(* The function that MergeCookies defines by recursion exists: if not,     *)
(* there is a least length for which it does not.                          *)
LEMMA MergingExists ==
  ASSUME NEW jar, NEW given, NEW N \in Nat
  PROVE  \E f : Merging(f, jar, given, N)
<1> DEFINE T == {n \in Nat : ~\E f : Merging(f, jar, given, n)}
<1>1. SUFFICES T = {}
  OBVIOUS
<1>2. SUFFICES ASSUME T # {} PROVE FALSE
  OBVIOUS
<1>3. PICK n \in T : \A m \in T : n <= m
  BY <1>2, Least, T \in SUBSET Nat
<1>4. CASE n = 0
  <2> DEFINE f == [k \in 0..0 |-> jar]
  <2>1. \A k \in 0..0 : k = 0
    OBVIOUS
  <2>2. Merging(f, jar, given, 0)
    BY <2>1 DEF Merging
  <2> QED  BY <1>3, <1>4, <2>2
<1>5. CASE n # 0
  <2>1. n - 1 \in Nat /\ n - 1 \notin T
    BY <1>3, <1>5
  <2>2. PICK g : Merging(g, jar, given, n - 1)
    BY <2>1
  <2> DEFINE f == [k \in 0..n |-> IF k = n THEN MergeCookie(g[n - 1], given[n]) ELSE g[k]]
  <2>3. \A k \in 0..n : f[k] = IF k = 0 THEN jar ELSE MergeCookie(f[k - 1], given[k])
    <3>1. \A k \in 0..(n - 1) : g[k] = IF k = 0 THEN jar ELSE MergeCookie(g[k - 1], given[k])
      BY <2>2 DEF Merging
    <3>2. \A k \in 0..(n - 1) : f[k] = g[k]
      BY <2>1
    <3>3. f[n] = MergeCookie(g[n - 1], given[n])
      BY <1>5, <2>1
    <3> HIDE DEF f
    <3>4. ASSUME NEW k \in 0..n PROVE f[k] = IF k = 0 THEN jar ELSE MergeCookie(f[k - 1], given[k])
      <4>1. CASE k = n
        <5>1. f[n - 1] = g[n - 1]
          BY <2>1, <3>2
        <5> QED  BY <1>5, <3>3, <4>1, <5>1
      <4>2. CASE k = 0
        BY <1>5, <2>1, <3>1, <3>2, <4>2
      <4>3. CASE k # n /\ k # 0
        <5>1. k \in 0..(n - 1) /\ k - 1 \in 0..(n - 1)
          BY <2>1, <4>3
        <5> QED  BY <3>1, <3>2, <4>3, <5>1
      <4> QED  BY <4>1, <4>2, <4>3
    <3> QED  BY <3>4
  <2>4. Merging(f, jar, given, n)
    <3>1. f = [k \in 0..n |-> f[k]]
      OBVIOUS
    <3> HIDE DEF f
    <3> QED  BY <2>3, <3>1 DEF Merging
  <2> QED  BY <1>3, <2>4
<1> QED  BY <1>4, <1>5

(* MergeCookies is the last value of such a function.                      *)
LEMMA MergeCookiesIs ==
  ASSUME NEW jar, NEW given, Len(given) \in Nat
  PROVE  \E f : Merging(f, jar, given, Len(given)) /\ MergeCookies(jar, given) = f[Len(given)]
<1> DEFINE merged[k \in 0..Len(given)] ==
             IF k = 0 THEN jar ELSE MergeCookie(merged[k - 1], given[k])
<1>1. MergeCookies(jar, given) = merged[Len(given)]
  BY DEF MergeCookies
<1>2. merged = CHOOSE f : Merging(f, jar, given, Len(given))
  BY DEF merged, Merging
<1> HIDE DEF merged
<1>3. Merging(merged, jar, given, Len(given))
  BY <1>2, MergingExists
<1> QED  BY <1>1, <1>3

Distinct(s) == \A i, j \in 1..Len(s) : s[i].name = s[j].name => i = j

(* m is the jar with the first k cookies of given over it.                 *)
MergedUpTo(m, jar, given, k) ==
  /\ m \in Seq(ToSet(jar) \cup ToSet(given)) /\ Distinct(m)
  /\ \A i \in 1..Len(m) :
       \/ \E j \in 1..k : m[i] = given[j]
       \/ /\ i \in 1..Len(jar) /\ m[i] = jar[i]
          /\ \A j \in 1..k : given[j].name # m[i].name
  /\ \A j \in 1..k : \E i \in 1..Len(m) : m[i].name = given[j].name
  /\ \A j \in 1..Len(jar) : \E i \in 1..Len(m) : m[i].name = jar[j].name

(* Merging one more of the given cookies.                                  *)
LEMMA MergeCookieStep ==
  ASSUME NEW jar, jar \in Seq(ToSet(jar)), NEW given, given \in Seq(ToSet(given)),
         NEW k \in 1..Len(given), NEW m, MergedUpTo(m, jar, given, k - 1)
  PROVE  MergedUpTo(MergeCookie(m, given[k]), jar, given, k)
<1> DEFINE S == ToSet(jar) \cup ToSet(given)
           c == given[k]
           same == {i \in 1..Len(m) : m[i].name = c.name}
           q == MergeCookie(m, c)
<1>1. m \in Seq(S) /\ Len(m) \in Nat /\ Len(given) \in Nat /\ Len(jar) \in Nat
  BY DEF MergedUpTo
<1>2. c \in S
  BY DEF ToSet
<1>3. 1..k = 1..(k - 1) \cup {k}
  BY <1>1
<1>4. Distinct(m)
  BY DEF MergedUpTo
<1>5. /\ \A i \in 1..Len(m) :
           \/ \E j \in 1..(k - 1) : m[i] = given[j]
           \/ /\ i \in 1..Len(jar) /\ m[i] = jar[i]
              /\ \A j \in 1..(k - 1) : given[j].name # m[i].name
      /\ \A j \in 1..(k - 1) : \E i \in 1..Len(m) : m[i].name = given[j].name
      /\ \A j \in 1..Len(jar) : \E i \in 1..Len(m) : m[i].name = jar[j].name
  BY DEF MergedUpTo
<1>6. c = given[k] /\ k \in 1..k
  BY <1>3
<1> HIDE DEF S, c
<1>7. CASE same = {}
  <2>1. q = Append(m, c)
    BY <1>7 DEF MergeCookie
  <2>2. /\ q \in Seq(S) /\ Len(q) = Len(m) + 1 /\ q[Len(m) + 1] = c
        /\ \A i \in 1..Len(m) : q[i] = m[i]
    BY <1>1, <1>2, <2>1
  <2>3. 1..Len(q) = 1..Len(m) \cup {Len(m) + 1}
    BY <1>1, <2>2
  <2>4. \A i \in 1..Len(m) : m[i].name # c.name
    BY <1>7
  <2> HIDE DEF q, same
  <2>5. Distinct(q)
    BY <1>4, <2>2, <2>3, <2>4 DEF Distinct
  <2>6. \A i \in 1..Len(q) :
           \/ \E j \in 1..k : q[i] = given[j]
           \/ /\ i \in 1..Len(jar) /\ q[i] = jar[i]
              /\ \A j \in 1..k : given[j].name # q[i].name
    <3>1. ASSUME NEW i \in 1..Len(m)
          PROVE  \/ \E j \in 1..k : q[i] = given[j]
                 \/ /\ i \in 1..Len(jar) /\ q[i] = jar[i]
                    /\ \A j \in 1..k : given[j].name # q[i].name
      <4>1. q[i] = m[i] /\ m[i].name # given[k].name
        BY <1>6, <2>2, <2>4
      <4> QED  BY <1>3, <1>5, <4>1
    <3>2. q[Len(m) + 1] = given[k]
      BY <1>6, <2>2
    <3> QED  BY <1>6, <2>3, <3>1, <3>2
  <2>7. \A j \in 1..k : \E i \in 1..Len(q) : q[i].name = given[j].name
    <3>1. \A j \in 1..(k - 1) : \E i \in 1..Len(m) : q[i].name = given[j].name
      BY <1>5, <2>2
    <3>2. q[Len(m) + 1].name = given[k].name
      BY <1>6, <2>2
    <3> QED  BY <1>3, <2>3, <3>1, <3>2
  <2>8. ASSUME NEW j \in 1..Len(jar) PROVE \E i \in 1..Len(q) : q[i].name = jar[j].name
    <3>1. PICK i \in 1..Len(m) : m[i].name = jar[j].name
      BY <1>5
    <3>2. i \in 1..Len(q) /\ q[i] = m[i]
      BY <2>2, <2>3
    <3> QED  BY <3>1, <3>2
  <2>9. MergedUpTo(q, jar, given, k)
    BY <2>2, <2>5, <2>6, <2>7, <2>8 DEF MergedUpTo, S
  <2> QED  BY <2>9 DEF q, c
<1>8. CASE same # {}
  <2> DEFINE x == CHOOSE i \in same : \A j \in same : i <= j
  <2>1. x \in same
    <3>1. \E i \in same : \A j \in same : i <= j
      BY <1>1, <1>8, Least, same \in SUBSET Nat
    <3> QED  BY <3>1
  <2>2. q = [m EXCEPT ![x] = c]
    BY <1>8 DEF MergeCookie
  <2>3. x \in 1..Len(m) /\ m[x].name = c.name
    BY <2>1
  <2> HIDE DEF x, q, same
  <2>4. /\ q \in Seq(S) /\ Len(q) = Len(m) /\ q[x] = c
        /\ \A i \in 1..Len(m) : i # x => q[i] = m[i]
    BY <1>1, <1>2, <2>2, <2>3
  <2>5. \A i \in 1..Len(m) : q[i].name = m[i].name
    BY <2>3, <2>4
  <2>6. \A i \in 1..Len(m) : i # x => m[i].name # c.name
    BY <1>4, <2>3 DEF Distinct
  <2>7. Distinct(q)
    BY <1>4, <2>4, <2>5 DEF Distinct
  <2>8. \A i \in 1..Len(q) :
           \/ \E j \in 1..k : q[i] = given[j]
           \/ /\ i \in 1..Len(jar) /\ q[i] = jar[i]
              /\ \A j \in 1..k : given[j].name # q[i].name
    <3>1. ASSUME NEW i \in 1..Len(m), i # x
          PROVE  \/ \E j \in 1..k : q[i] = given[j]
                 \/ /\ i \in 1..Len(jar) /\ q[i] = jar[i]
                    /\ \A j \in 1..k : given[j].name # q[i].name
      <4>1. q[i] = m[i] /\ m[i].name # given[k].name
        BY <1>6, <2>4, <2>6, <3>1
      <4> QED  BY <1>3, <1>5, <4>1
    <3>2. q[x] = given[k]
      BY <1>6, <2>4
    <3> QED  BY <1>6, <2>4, <3>1, <3>2
  <2>9. \A j \in 1..k : \E i \in 1..Len(q) : q[i].name = given[j].name
    <3>1. \A j \in 1..(k - 1) : \E i \in 1..Len(m) : q[i].name = given[j].name
      BY <1>5, <2>5
    <3>2. q[x].name = given[k].name
      BY <1>6, <2>4
    <3> QED  BY <1>3, <2>3, <2>4, <3>1, <3>2
  <2>10. \A j \in 1..Len(jar) : \E i \in 1..Len(q) : q[i].name = jar[j].name
    BY <1>5, <2>4, <2>5
  <2>11. MergedUpTo(q, jar, given, k)
    BY <2>4, <2>7, <2>8, <2>9, <2>10 DEF MergedUpTo, S
  <2> QED  BY <2>11 DEF q, c
<1> QED  BY <1>7, <1>8

(* All given cookies are merged, by induction over their number.           *)
LEMMA MergeCookiesFacts ==
  ASSUME NEW jar, jar \in Seq(ToSet(jar)), Distinct(jar), NEW given, given \in Seq(ToSet(given))
  PROVE  MergedUpTo(MergeCookies(jar, given), jar, given, Len(given))
<1>1. Len(given) \in Nat /\ Len(jar) \in Nat
  OBVIOUS
<1>2. PICK f : Merging(f, jar, given, Len(given)) /\ MergeCookies(jar, given) = f[Len(given)]
  BY <1>1, MergeCookiesIs
<1>3. \A k \in 0..Len(given) : f[k] = IF k = 0 THEN jar ELSE MergeCookie(f[k - 1], given[k])
  BY <1>2 DEF Merging
<1> DEFINE T == {k \in Nat : k <= Len(given) /\ ~MergedUpTo(f[k], jar, given, k)}
<1>4. SUFFICES T = {}
  BY <1>1, <1>2
<1>5. SUFFICES ASSUME T # {} PROVE FALSE
  OBVIOUS
<1>6. PICK k \in T : \A m \in T : k <= m
  BY <1>5, Least, T \in SUBSET Nat
<1>7. CASE k = 0
  <2>1. f[k] = jar
    BY <1>1, <1>3, <1>7
  <2>2. jar \in Seq(ToSet(jar) \cup ToSet(given))
    OBVIOUS
  <2>3. MergedUpTo(jar, jar, given, 0)
    BY <1>1, <2>2 DEF MergedUpTo
  <2> QED  BY <1>6, <1>7, <2>1, <2>3
<1>8. CASE k # 0
  <2>1. k \in 1..Len(given) /\ k \in 0..Len(given) /\ k - 1 \in Nat /\ k - 1 <= Len(given) /\ k - 1 \notin T
    BY <1>1, <1>6, <1>8
  <2>2. MergedUpTo(f[k - 1], jar, given, k - 1)
    BY <2>1
  <2>3. f[k] = MergeCookie(f[k - 1], given[k])
    BY <1>3, <1>8, <2>1
  <2>4. MergedUpTo(f[k], jar, given, k)
    BY <2>1, <2>2, <2>3, MergeCookieStep
  <2> QED  BY <1>6, <2>4
<1> QED  BY <1>7, <1>8

(* The jar of a session: cookies of answers, each under its name.          *)
IsJar(jar) ==
  /\ IsFiniteSet(DOMAIN jar)
  /\ \A n \in DOMAIN jar :
       [name |-> n, value |-> jar[n].value, same_site |-> jar[n].same_site] \in AllCookies

(* The jar's cookies, each name once, with its value.                      *)
LEMMA JarCookiesFacts ==
  ASSUME NEW jar, IsJar(jar)
  PROVE  /\ JarCookies(jar) \in Seq(AllCookies) /\ JarCookies(jar) \in Seq(ToSet(JarCookies(jar)))
         /\ Distinct(JarCookies(jar))
         /\ \A i \in 1..Len(JarCookies(jar)) :
              /\ JarCookies(jar)[i].name \in DOMAIN jar
              /\ JarCookies(jar)[i].value = jar[JarCookies(jar)[i].name].value
         /\ \A n \in DOMAIN jar : \E i \in 1..Len(JarCookies(jar)) : JarCookies(jar)[i].name = n
<1> DEFINE names == SetToSeq(DOMAIN jar)
           N == Cardinality(DOMAIN jar)
           cookie(n) == [name |-> n, value |-> jar[n].value, same_site |-> jar[n].same_site]
           s == JarCookies(jar)
<1>1. /\ names \in [1..N -> DOMAIN jar] /\ N \in Nat
      /\ \A n \in DOMAIN jar : \E i \in 1..N : names[i] = n
      /\ \A i, j \in 1..N : names[i] = names[j] => i = j
  BY SetToSeqFacts DEF IsJar
<1>2. Len(names) = N
  BY <1>1
<1>3. s = [i \in 1..N |-> cookie(names[i])]
  BY <1>2 DEF JarCookies
<1> HIDE DEF names, N, s
<1>4. \A i \in 1..N : cookie(names[i]) \in AllCookies
  BY <1>1 DEF IsJar
<1>5. s \in [1..N -> AllCookies]
  BY <1>3, <1>4
<1>6. s \in Seq(AllCookies) /\ Len(s) = N
  BY <1>1, <1>5
<1>7. \A i \in 1..N : s[i].name = names[i] /\ s[i].value = jar[names[i]].value
  BY <1>3
<1>8. s \in Seq(ToSet(s))
  <2>1. s \in [1..N -> ToSet(s)]
    BY <1>5 DEF ToSet
  <2> QED  BY <1>1, <2>1
<1>9. Distinct(s)
  BY <1>1, <1>6, <1>7 DEF Distinct
<1> QED  BY <1>1, <1>6, <1>7, <1>8, <1>9 DEF s

(* schema._cookie_to_dict: name and value stay, the attribute becomes Go's *)
(* code.                                                                   *)
LEMMA CookieToDictIs ==
  ASSUME NEW c
  PROVE  /\ CookieToDict(c).name = c.name /\ CookieToDict(c).value = c.value
         /\ c.same_site \in ToSet(SameSiteWords) \cup {None} => SameCookie(CookieToDict(c), c)
<1> DEFINE plain == [name |-> c.name, value |-> c.value]
           d == CookieToDict(c)
<1>1. CASE c.same_site = None
  <2>1. d = plain
    BY <1>1 DEF CookieToDict
  <2>2. ~Has(d, "sameSite")
    BY <2>1 DEF Has
  <2> QED  BY <1>1, <2>1, <2>2 DEF SameCookie
<1>2. CASE c.same_site # None
  <2> DEFINE code == ConvertSameSite(c.same_site)
  <2>1. d = Put(plain, "sameSite", code)
    BY <1>2 DEF CookieToDict
  <2>2. /\ d.name = c.name /\ d.value = c.value /\ Has(d, "sameSite") /\ d.sameSite = code
    BY <2>1 DEF Put, Has
  <2>3. ASSUME c.same_site \in ToSet(SameSiteWords) PROVE SameSiteWords[code] = c.same_site
    <3>1. c.same_site \in {"default", "lax", "strict", "none"}
      BY <2>3 DEF ToSet, SameSiteWords
    <3>2. CASE c.same_site = "default"
      BY <3>2 DEF ConvertSameSite, SameSiteWords
    <3>3. CASE c.same_site = "lax"
      BY <3>3 DEF ConvertSameSite, SameSiteWords
    <3>4. CASE c.same_site = "strict"
      BY <3>4 DEF ConvertSameSite, SameSiteWords
    <3>5. CASE c.same_site = "none"
      BY <3>5 DEF ConvertSameSite, SameSiteWords
    <3> QED  BY <3>1, <3>2, <3>3, <3>4, <3>5
  <2> HIDE DEF code, d
  <2> QED  BY <1>2, <2>2, <2>3 DEF SameCookie, d
<1> QED  BY <1>1, <1>2

(* What a call of a session sends: of each name one cookie, the call's own *)
(* or else the one of the jar.                                             *)
OwnCookies(k) == GivenCookies(k.given.kw).items
CookieFits(d, k) ==
  \/ \E o \in ToSet(OwnCookies(k)) : o.name = d.name /\ SameCookie(d, o)
  \/ /\ \A o \in ToSet(OwnCookies(k)) : o.name # d.name
     /\ d.name \in DOMAIN k.under.cookies /\ d.value = k.under.cookies[d.name].value

CookiesSent(k) ==
  /\ \A i, j \in DOMAIN k.cookies : k.cookies[i].name = k.cookies[j].name => i = j
  /\ \A i \in DOMAIN k.cookies : CookieFits(k.cookies[i], k)
  /\ \A n \in DOMAIN k.under.cookies : \E i \in DOMAIN k.cookies : k.cookies[i].name = n
  /\ \A o \in ToSet(OwnCookies(k)) : \E i \in DOMAIN k.cookies : k.cookies[i].name = o.name

(* The jar's cookies under those given, as Go reads them.                  *)
LEMMA MergedAreSent ==
  ASSUME NEW k, IsJar(k.under.cookies), OwnCookies(k) \in Seq(ToSet(OwnCookies(k))),
         \A o \in ToSet(OwnCookies(k)) : o.same_site \in ToSet(SameSiteWords) \cup {None},
         NEW m, m = MergeCookies(JarCookies(k.under.cookies), OwnCookies(k)),
         k.cookies = [i \in DOMAIN m |-> CookieToDict(m[i])]
  PROVE  CookiesSent(k)
<1> DEFINE jar == k.under.cookies
           own == OwnCookies(k)
           s == JarCookies(jar)
           sent == k.cookies
<1>1. /\ s \in Seq(AllCookies) /\ s \in Seq(ToSet(s)) /\ Distinct(s)
      /\ \A i \in 1..Len(s) : s[i].name \in DOMAIN jar /\ s[i].value = jar[s[i].name].value
      /\ \A n \in DOMAIN jar : \E i \in 1..Len(s) : s[i].name = n
  BY JarCookiesFacts
<1>2. own \in Seq(ToSet(own)) /\ ToSet(own) = {own[j] : j \in 1..Len(own)}
  BY DEF ToSet
<1> HIDE DEF jar, own, s
<1>3. MergedUpTo(m, s, own, Len(own))
  BY <1>1, <1>2, MergeCookiesFacts DEF jar, own, s
<1>4. /\ m \in Seq(ToSet(s) \cup ToSet(own)) /\ Distinct(m)
      /\ \A i \in 1..Len(m) :
           \/ \E j \in 1..Len(own) : m[i] = own[j]
           \/ /\ i \in 1..Len(s) /\ m[i] = s[i]
              /\ \A j \in 1..Len(own) : own[j].name # m[i].name
      /\ \A j \in 1..Len(own) : \E i \in 1..Len(m) : m[i].name = own[j].name
      /\ \A j \in 1..Len(s) : \E i \in 1..Len(m) : m[i].name = s[j].name
  BY <1>3 DEF MergedUpTo
<1>5. DOMAIN m = 1..Len(m)
  BY <1>4
<1>6. /\ DOMAIN sent = 1..Len(m)
      /\ \A i \in 1..Len(m) : /\ sent[i] = CookieToDict(m[i]) /\ sent[i].name = m[i].name
                              /\ sent[i].value = m[i].value
  BY <1>5, CookieToDictIs
<1> HIDE DEF sent
<1>7. \A i, j \in DOMAIN sent : sent[i].name = sent[j].name => i = j
  <2>1. \A i, j \in 1..Len(m) : m[i].name = m[j].name => i = j
    BY <1>4 DEF Distinct
  <2>2. \A i \in 1..Len(m) : sent[i].name = m[i].name
    BY <1>6
  <2>3. DOMAIN sent = 1..Len(m)
    BY <1>6
  <2>4. \A i, j \in 1..Len(m) : sent[i].name = sent[j].name => i = j
    BY <2>1, <2>2, Zenon
  <2> QED  BY <2>3, <2>4, Zenon
<1>8. ASSUME NEW i \in 1..Len(m) PROVE CookieFits(sent[i], k)
  <2>1. CASE \E j \in 1..Len(own) : m[i] = own[j]
    <3>1. m[i] \in ToSet(own)
      BY <1>2, <2>1
    <3>2. SameCookie(sent[i], m[i])
      BY <1>6, <3>1, CookieToDictIs DEF own
    <3> QED  BY <1>6, <3>1, <3>2 DEF CookieFits, own
  <2>2. CASE /\ i \in 1..Len(s) /\ m[i] = s[i]
             /\ \A j \in 1..Len(own) : own[j].name # m[i].name
    <3>1. ASSUME NEW o \in ToSet(own) PROVE o.name # sent[i].name
      <4>1. PICK j \in 1..Len(own) : own[j] = o
        BY <1>2
      <4>2. sent[i].name = m[i].name
        BY <1>6
      <4> QED  BY <2>2, <4>1, <4>2, Zenon
    <3>2. sent[i].name \in DOMAIN jar /\ sent[i].value = jar[sent[i].name].value
      BY <1>1, <1>6, <2>2
    <3> QED  BY <3>1, <3>2 DEF CookieFits, own, jar
  <2> QED  BY <1>4, <2>1, <2>2
<1>9. ASSUME NEW n \in DOMAIN jar PROVE \E i \in DOMAIN sent : sent[i].name = n
  <2>1. PICK j \in 1..Len(s) : s[j].name = n
    BY <1>1
  <2>2. PICK i \in 1..Len(m) : m[i].name = s[j].name
    BY <1>4
  <2> QED  BY <1>6, <2>1, <2>2
<1>10. ASSUME NEW o \in ToSet(own) PROVE \E i \in DOMAIN sent : sent[i].name = o.name
  <2>1. PICK j \in 1..Len(own) : own[j] = o
    BY <1>2
  <2>2. PICK i \in 1..Len(m) : m[i].name = own[j].name
    BY <1>4
  <2> QED  BY <1>6, <2>1, <2>2
<1> QED  BY <1>6, <1>7, <1>8, <1>9, <1>10 DEF CookiesSent, jar, own, sent

(* A closed client sends nothing.                                          *)
LEMMA ClosedSendsNothing ==
  ASSUME NEW a
  PROVE  PrepareRequest(TRUE, a, profiles).payload = None
<1> DEFINE p == CheckOpen(Start(a), TRUE)
<1>1. p.err = "CycleTLSError"
  BY DEF CheckOpen, Raise, Start
<1>2. "CycleTLSError" # None
  BY NoneAssumption DEF Ancestors, Put
<1>3. ~Fine(p)
  BY <1>1, <1>2 DEF Fine
<1> HIDE DEF p
<1>4. Named(TRUE, a) = p
  BY <1>3 DEF Named, JsonAlias, ApplyAuth, p
<1>5. Styled(TRUE, a) = p
  BY <1>3, <1>4 DEF Styled, ApplyFingerprint, DeprecatedBody, TakeForData
<1>6. Ready(TRUE, a) = p
  <2>1. ExtractUserAgent(p) = p
    BY <1>3 DEF ExtractUserAgent
  <2>2. EncodeBody(p) = p
    BY <1>3 DEF EncodeBody
  <2>3. AttachFiles(p, a) = p
    BY <1>3 DEF AttachFiles
  <2>4. NormaliseCookies(p) = p
    BY <1>3 DEF NormaliseCookies
  <2> QED  BY <1>5, <2>1, <2>2, <2>3, <2>4 DEF Ready, Filled, Bodied
<1> DEFINE ready == Ready(TRUE, a)
           last == IF Fine(ready) /\ ~(DOMAIN ready.kw \subseteq RequestOptions)
                   THEN Raise(ready, "TypeError") ELSE ready
<1> DEFINE payload == IF Fine(last) THEN ToDict(last, a) ELSE None
           out == PrepareRequest(TRUE, a, profiles)
<1>7. out = [err |-> last.err, theirs |-> last.theirs, payload |-> payload]
  BY StagesOfPrepareRequest
<1>8. last = p
  BY <1>3, <1>6
<1> HIDE DEF last
<1>9. payload = None
  BY <1>3, <1>8
<1> HIDE DEF payload, out
<1>10. out.payload = None
  BY <1>7, <1>9
<1> QED  BY <1>10 DEF out

(* The cookies in the request that goes to the Go side.                    *)
LEMMA ToDictCookies ==
  ASSUME NEW q, NEW a
  PROVE  /\ Has(ToDict(q, a).opts, "cookies") <=> Has(q.kw, "cookies")
         /\ Has(q.kw, "cookies") =>
              ToDict(q, a).opts["cookies"] = [i \in DOMAIN q.kw.cookies |-> CookieToDict(q.kw.cookies[i])]
<1> DEFINE all == Over(q.kw, RequestDefaults)
           items == [i \in DOMAIN q.kw.cookies |-> CookieToDict(q.kw.cookies[i])]
           opts == IF ~Has(q.kw, "cookies") THEN all ELSE Put(all, "cookies", items)
           kept == Without(Without(opts, "body"), "body_bytes")
<1>1. ToDict(q, a).opts = [kept EXCEPT !["timeout"] = TimeoutSeconds(@)]
  BY DEF ToDict
<1>2. "cookies" \notin DOMAIN RequestDefaults
  BY DEF RequestDefaults
<1> HIDE DEF items
<1>3. /\ Has(opts, "cookies") <=> Has(q.kw, "cookies")
      /\ Has(q.kw, "cookies") => opts["cookies"] = items
  BY <1>2 DEF Has, Over, Put
<1> HIDE DEF opts
<1>4. /\ Has(kept, "cookies") <=> Has(opts, "cookies")
      /\ Has(opts, "cookies") => kept["cookies"] = opts["cookies"]
  BY DEF Has, Without
<1> HIDE DEF kept
<1>5. DOMAIN ToDict(q, a).opts = DOMAIN kept
      /\ ("cookies" \in DOMAIN kept => ToDict(q, a).opts["cookies"] = kept["cookies"])
  BY <1>1
<1> QED  BY <1>3, <1>4, <1>5 DEF Has, items

(* What a session hands over as cookies.                                   *)
MergedCookies(g) == MergeCookies(JarCookies(session.cookies), GivenCookies(g.kw).items)
(* A session hands over the merged cookies, or None if there are none.     *)
LEMMA SessionEntryCookies ==
  ASSUME NEW c \in Calls, c.client = "session", NEW g, IsEntry(g)
  PROVE  /\ Has(Entry(c, g).kw, "cookies")
         /\ Entry(c, g).kw["cookies"] =
              IF MergedCookies(g) = << >> THEN None ELSE [raw |-> FALSE, items |-> MergedCookies(g)]
<1> DEFINE merged == MergedCookies(g)
           cookies == IF merged = << >> THEN None ELSE [raw |-> FALSE, items |-> merged]
           hdr == CIDict(CIUpdate(session.headers, HeadersOf(g)))
<1>1. g = [method |-> g.method, url |-> g.url, params |-> g.params, data |-> g.data,
           json_data |-> g.json_data, json |-> g.json, files |-> g.files,
           fingerprint |-> g.fingerprint, auth |-> g.auth, kw |-> g.kw, own |-> g.own]
  BY DEF IsEntry
<1>2. Entry(c, g) = [g EXCEPT !.url = PrepareUrl(@), !.own = FALSE,
                              !.auth = IF @ = None THEN SessionAuth ELSE @,
                              !.kw = Put(Put(@, "cookies", cookies), "headers", hdr)]
  BY DEF Entry, SessionArgs, HeadersOf, MergedCookies
<1> HIDE DEF cookies, hdr
<1>3. Entry(c, g).kw = Put(Put(g.kw, "cookies", cookies), "headers", hdr)
  BY <1>1, <1>2
<1>4. Has(Entry(c, g).kw, "cookies") /\ Entry(c, g).kw["cookies"] = cookies
  BY <1>3 DEF Put, Has
<1> QED  BY <1>4 DEF cookies

(* The cookies that a call gives, whatever dictionary of headers it uses.  *)
LEMMA GivenCookiesAre ==
  ASSUME NEW c \in Calls, IsHeaders(mine), NEW f, IsPicked(f)
  PROVE  /\ GivenCookies(GivenBy(c, f).kw) = GivenCookies(c.args.kw)
         /\ GivenCookies(c.args.kw).items \in Seq(ToSet(GivenCookies(c.args.kw).items))
         /\ ToSet(GivenCookies(c.args.kw).items) \subseteq AllCookies
         /\ \A o \in ToSet(GivenCookies(c.args.kw).items) :
              o.same_site \in ToSet(SameSiteWords) \cup {None}
<1>1. GivenBy(c, f).kw = IF c.mine THEN Put(c.args.kw, "headers", mine) ELSE c.args.kw
  BY GivenIs
<1>2. GivenCookies(GivenBy(c, f).kw) = GivenCookies(c.args.kw)
  BY <1>1 DEF GivenCookies, Put, Has
<1>3. IsArgs(c.args)
  BY CallsAssumption
<1>4. ToSet(GivenCookies(c.args.kw).items) \subseteq AllCookies
  <2>1. \A o \in CookiesGivenBy(c) : o \in OwnedCookies
    BY DEF OwnedCookies
  <2>2. \A o \in CookiesGivenBy(c) : o \in AllCookies
    BY <2>1 DEF AllCookies
  <2> QED  BY <2>2 DEF CookiesGivenBy
<1> QED  BY <1>2, <1>3, <1>4 DEF IsArgs

(* A call through the session sends the cookies of the jar under those it  *)
(* gives, and no call is sent by a closed session.                         *)
LEMMA SessionSends ==
  ASSUME RegistryOK, RequestsOK, IsJar(session.cookies),
         NEW c \in Calls, c.client = "session", NEW f \in Picked(c.args.fingerprint),
         NEW g, g = GivenBy(c, f), IsEntry(g), OneBody(g), g.method = c.verb,
         NEW k, k = NewCall(c, g, PreparedFor(c, g)), k.payload # None
  PROVE  CookiesSent(k) /\ ~session.closed
<1> DEFINE e == Entry(c, g)
           m == MergedCookies(g)
           own == GivenCookies(g.kw).items
<1>1. /\ k.payload = PreparedFor(c, g).payload /\ k.under = session /\ k.given = g
      /\ k.cookies = IF k.payload # None /\ Has(k.payload.opts, "cookies")
                     THEN k.payload.opts["cookies"] ELSE << >>
  BY DEF NewCall
<1>2. PICK q : k.payload = ToDict(q, e) /\ SentOptions(q.kw, e, ProfileOf(g))
  BY <1>1, PreparedIs
<1>3. ~session.closed
  <2>1. PreparedFor(c, g) = PrepareRequest(c.client = "session" /\ session.closed, e, profiles)
    BY <1>1 DEF PreparedFor
  <2>2. CASE session.closed
    <3>1. (c.client = "session" /\ session.closed) = TRUE
      BY <2>2
    <3>2. PreparedFor(c, g).payload = None
      BY <2>1, <3>1, ClosedSendsNothing
    <3> QED  BY <1>1, <3>2
  <2> QED  BY <2>2
<1>4. IsPicked(f) /\ IsHeaders(mine)
  BY PickedIs, CallsAssumption DEF RequestsOK
<1>5. /\ own \in Seq(ToSet(own)) /\ ToSet(own) \subseteq AllCookies
      /\ \A o \in ToSet(own) : o.same_site \in ToSet(SameSiteWords) \cup {None}
  BY <1>4, GivenCookiesAre
<1>6. OwnCookies(k) = own
  BY <1>1 DEF OwnCookies
<1>7. m = MergeCookies(JarCookies(session.cookies), own)
  BY DEF MergedCookies
<1> HIDE DEF own, m, e
<1>8. m \in Seq(AllCookies)
  <2> DEFINE s == JarCookies(session.cookies)
  <2>1. s \in Seq(AllCookies) /\ s \in Seq(ToSet(s)) /\ Distinct(s)
    BY JarCookiesFacts
  <2>2. MergedUpTo(m, s, own, Len(own))
    BY <1>5, <1>7, <2>1, MergeCookiesFacts
  <2>3. m \in Seq(ToSet(s) \cup ToSet(own))
    BY <2>2 DEF MergedUpTo
  <2>4. ToSet(s) \cup ToSet(own) \subseteq AllCookies
    BY <1>5, <2>1 DEF ToSet
  <2> HIDE DEF s
  <2>5. m \in [1..Len(m) -> AllCookies] /\ Len(m) \in Nat
    BY <2>3, <2>4
  <2> QED  BY <2>5
<1>9. [raw |-> FALSE, items |-> m] # None
  <2>1. [raw |-> FALSE, items |-> m] \in [raw : BOOLEAN, items : Seq(AllCookies)]
    BY <1>8
  <2> QED  BY <2>1, NoneAssumption, Zenon
<1>10. /\ Has(e.kw, "cookies")
       /\ e.kw["cookies"] = IF m = << >> THEN None ELSE [raw |-> FALSE, items |-> m]
  BY SessionEntryCookies DEF e, m
<1>11. /\ Has(q.kw, "cookies") <=> m # << >>
       /\ m # << >> => q.kw["cookies"] = m
  BY <1>2, <1>9, <1>10 DEF SentOptions
<1>12. k.cookies = [i \in DOMAIN m |-> CookieToDict(m[i])]
  <2>1. CASE m = << >>
    <3>1. k.cookies = << >>
      BY <1>1, <1>2, <1>11, <2>1, ToDictCookies
    <3> QED  BY <2>1, <3>1
  <2>2. CASE m # << >>
    <3>1. k.cookies = k.payload.opts["cookies"]
      <4>1. Has(k.payload.opts, "cookies")
        <5>1. Has(ToDict(q, e).opts, "cookies") <=> Has(q.kw, "cookies")
          BY ToDictCookies
        <5>2. Has(q.kw, "cookies")
          BY <1>11, <2>2
        <5> QED  BY <1>2, <5>1, <5>2, Zenon
      <4> QED  BY <1>1, <4>1, Zenon
    <3>2. k.payload.opts["cookies"] = [i \in DOMAIN q.kw["cookies"] |-> CookieToDict(q.kw["cookies"][i])]
      BY <1>2, <1>11, <2>2, ToDictCookies
    <3> QED  BY <1>11, <2>2, <3>1, <3>2
  <2> QED  BY <2>1, <2>2
<1>13. CookiesSent(k)
  BY <1>1, <1>5, <1>6, <1>7, <1>12, MergedAreSent
<1> QED  BY <1>3, <1>13

-----------------------------------------------------------------------------
(* The jar of the session and the answers it comes from.                   *)

AnsweredIn(cs, t) == {j \in DOMAIN cs : /\ cs[j].client = "session" /\ cs[j].response # None
                                        /\ cs[j].ended < t}
SettersIn(cs, t, n) == {j \in AnsweredIn(cs, t) : Has(cs[j].response.cookies, n)}

(* jar holds what the answers before time t have set, the last one winning.*)
JarIs(cs, jar, t) ==
  /\ \A n : n \in DOMAIN jar <=> SettersIn(cs, t, n) # {}
  /\ \A n \in DOMAIN jar : \A j \in SettersIn(cs, t, n) :
       (\A i \in SettersIn(cs, t, n) : cs[i].ended <= cs[j].ended) =>
         jar[n].value = cs[j].response.cookies[n].value

TimesOK(cs, now) ==
  \A i \in DOMAIN cs :
    /\ cs[i].ended = 0 => cs[i].response = None
    /\ cs[i].client = "session" => cs[i].begun \in Nat /\ cs[i].begun < now /\ cs[i].ended < now

SentOK(cs) ==
  \A i \in DOMAIN cs : cs[i].client = "session" /\ cs[i].payload # None =>
    CookiesSent(cs[i]) /\ JarIs(cs, cs[i].under.cookies, cs[i].begun)

JarOK(cs, s, now) == IsJar(s.cookies) /\ (~s.closed => JarIs(cs, s.cookies, now))

(* A session that is open has the cookies of all answers so far, and each  *)
(* of its calls was sent with those of the answers before it.              *)
HistoryOK == TimesOK(calls, clock) /\ SentOK(calls) /\ JarOK(calls, session, clock)

(* A jar that holds the last answers' cookies holds them as long as the    *)
(* answers are the same.                                                   *)
LEMMA SameAnswers ==
  ASSUME NEW cs, NEW ds, NEW t, NEW u, AnsweredIn(ds, u) = AnsweredIn(cs, t),
         \A j \in AnsweredIn(cs, t) : ds[j] = cs[j],
         NEW jar, JarIs(cs, jar, t)
  PROVE  JarIs(ds, jar, u)
<1>1. \A n : SettersIn(ds, u, n) = SettersIn(cs, t, n)
  BY DEF SettersIn
<1>2. \A n : \A j \in SettersIn(cs, t, n) : ds[j] = cs[j]
  BY DEF SettersIn
<1>3. \A n : n \in DOMAIN jar <=> SettersIn(ds, u, n) # {}
  BY <1>1 DEF JarIs
<1>4. ASSUME NEW n \in DOMAIN jar, NEW j \in SettersIn(ds, u, n),
             \A i \in SettersIn(ds, u, n) : ds[i].ended <= ds[j].ended
      PROVE  jar[n].value = ds[j].response.cookies[n].value
  <2>1. j \in SettersIn(cs, t, n) /\ ds[j] = cs[j]
    BY <1>1, <1>2, <1>4
  <2>2. \A i \in SettersIn(cs, t, n) : cs[i].ended <= cs[j].ended
    BY <1>1, <1>2, <1>4, <2>1
  <2>3. jar[n].value = cs[j].response.cookies[n].value
    BY <2>1, <2>2 DEF JarIs
  <2> QED  BY <2>1, <2>3
<1> QED  BY <1>3, <1>4 DEF JarIs

(* An open session that has made no call yet.                              *)
LEMMA EmptyHistory ==
  ASSUME NEW cs, cs = Empty, NEW s, s = NewSession, NEW now
  PROVE  TimesOK(cs, now) /\ SentOK(cs) /\ JarOK(cs, s, now)
<1>1. DOMAIN cs = {} /\ s.cookies = Empty /\ DOMAIN Empty = {}
  BY DEF Empty, NewSession
<1>2. IsJar(s.cookies)
  BY <1>1, FS_EmptySet DEF IsJar
<1>3. \A t, n : SettersIn(cs, t, n) = {}
  BY <1>1 DEF SettersIn, AnsweredIn
<1>4. JarIs(cs, s.cookies, now)
  BY <1>1, <1>3 DEF JarIs
<1> QED  BY <1>1, <1>2, <1>4 DEF TimesOK, SentOK, JarOK

(* A new call is no answer, and all answers are still there.               *)
LEMMA NewCallAnswers ==
  ASSUME RequestsOK, CallsOK, HistoryOK, LastCall \in Nat,
         NEW k, k.client = "batch" \/ k.response = None,
         NEW ds, ds = Put(Recent, LastCall + 1, k), NEW t
  PROVE  AnsweredIn(ds, t) = AnsweredIn(calls, t) /\ \A j \in AnsweredIn(calls, t) : ds[j] = calls[j]
<1>1. DOMAIN Recent = {j \in DOMAIN calls :
                         calls[j].err = None /\ (calls[j].client = "session" \/ calls[j].ended = 0)}
  BY DEF Recent
<1>2. \A i \in DOMAIN Recent : Recent[i] = calls[i] /\ i \in DOMAIN calls
  BY DEF Recent
<1>3. /\ DOMAIN ds = DOMAIN Recent \cup {LastCall + 1}
      /\ ds[LastCall + 1] = k
      /\ \A i \in DOMAIN Recent : i # LastCall + 1 => ds[i] = Recent[i]
  BY DEF Put
<1>4. LastCall + 1 \notin DOMAIN calls
  BY DEF RequestsOK
<1>5. ASSUME NEW j \in AnsweredIn(calls, t) PROVE j \in DOMAIN Recent
  <2>1. /\ j \in DOMAIN calls /\ calls[j].client = "session" /\ calls[j].response # None
    BY DEF AnsweredIn
  <2>2. calls[j].ended \in Nat /\ calls[j].ended # 0
    BY <2>1 DEF CallsOK, CallOK, HistoryOK, TimesOK
  <2>3. (calls[j].err = None) # (calls[j].response = None)
    BY <2>1, <2>2 DEF CallsOK, CallOK
  <2> QED  BY <1>1, <2>1, <2>3
<1>6. \A j \in DOMAIN Recent : ds[j] = calls[j] /\ j \in DOMAIN ds
  BY <1>2, <1>3, <1>4
<1>7. \A j \in AnsweredIn(calls, t) : ds[j] = calls[j]
  BY <1>5, <1>6
<1>8. AnsweredIn(calls, t) \subseteq AnsweredIn(ds, t)
  BY <1>5, <1>6 DEF AnsweredIn
<1>9. AnsweredIn(ds, t) \subseteq AnsweredIn(calls, t)
  BY <1>2, <1>3, <1>6 DEF AnsweredIn
<1> QED  BY <1>7, <1>8, <1>9

(* The history after a new call, ds being the calls then.                  *)
LEMMA NewCallHistory ==
  ASSUME RequestsOK, CallsOK, HistoryOK, LastCall \in Nat,
         NEW k, k.client = "batch" \/ k.response = None,
         NEW ds, ds = Put(Recent, LastCall + 1, k), NEW now, now \in {clock, clock + 1},
         k.ended = 0 => k.response = None,
         k.client = "session" => /\ k.begun \in Nat /\ k.begun < now /\ k.ended < now
                                 /\ k.payload # None =>
                                      CookiesSent(k) /\ JarIs(calls, k.under.cookies, k.begun)
  PROVE  TimesOK(ds, now) /\ SentOK(ds) /\ JarOK(ds, session, now)
<1>1. \A t : AnsweredIn(ds, t) = AnsweredIn(calls, t)
  BY NewCallAnswers
<1>2. \A t : \A j \in AnsweredIn(calls, t) : ds[j] = calls[j]
  BY NewCallAnswers
<1>3. ASSUME NEW t, NEW jar, JarIs(calls, jar, t) PROVE JarIs(ds, jar, t)
  BY <1>1, <1>2, <1>3, SameAnswers
<1>4. \A j \in DOMAIN ds : ds[j] = k \/ (j \in DOMAIN calls /\ ds[j] = calls[j])
  BY DEF Put, Recent
<1>5. clock \in Nat /\ \A x \in Nat : x < clock => x < now
  BY DEF RequestsOK
<1>6. TimesOK(ds, now)
  <2>1. ASSUME NEW j \in DOMAIN calls
        PROVE  /\ calls[j].ended = 0 => calls[j].response = None
               /\ calls[j].client = "session" =>
                    calls[j].begun \in Nat /\ calls[j].begun < now /\ calls[j].ended < now
    <3>1. calls[j].ended \in Nat
      BY DEF CallsOK, CallOK
    <3> QED  BY <1>5, <3>1 DEF HistoryOK, TimesOK
  <2> QED  BY <1>4, <2>1 DEF TimesOK
<1>7. SentOK(ds)
  <2>1. ASSUME NEW j \in DOMAIN ds, ds[j].client = "session", ds[j].payload # None
        PROVE  CookiesSent(ds[j]) /\ JarIs(ds, ds[j].under.cookies, ds[j].begun)
    <3>1. CASE ds[j] = k
      BY <1>3, <2>1, <3>1
    <3>2. CASE j \in DOMAIN calls /\ ds[j] = calls[j]
      <4>1. CookiesSent(calls[j]) /\ JarIs(calls, calls[j].under.cookies, calls[j].begun)
        BY <2>1, <3>2 DEF HistoryOK, SentOK
      <4> QED  BY <1>3, <3>2, <4>1
    <3> QED  BY <1>4, <3>1, <3>2
  <2> QED  BY <2>1 DEF SentOK
<1>8. JarOK(ds, session, now)
  <2>1. IsJar(session.cookies) /\ (~session.closed => JarIs(calls, session.cookies, clock))
    BY DEF HistoryOK, JarOK
  <2>2. AnsweredIn(calls, now) = AnsweredIn(calls, clock)
    <3>1. \A j \in DOMAIN calls : calls[j].ended \in Nat /\ (calls[j].client = "session" => calls[j].ended < clock)
      BY DEF CallsOK, CallOK, HistoryOK, TimesOK
    <3> QED  BY <1>5, <3>1 DEF AnsweredIn
  <2>3. ASSUME JarIs(calls, session.cookies, clock) PROVE JarIs(ds, session.cookies, now)
    <3>1. AnsweredIn(ds, now) = AnsweredIn(calls, clock) /\ \A j \in AnsweredIn(calls, clock) : ds[j] = calls[j]
      BY <1>1, <1>2, <2>2
    <3> QED  BY <2>3, <3>1, SameAnswers
  <2> QED  BY <2>1, <2>3 DEF JarOK
<1> QED  BY <1>6, <1>7, <1>8

(* A call that begins finds in the jar the cookies of the answers before   *)
(* it.                                                                     *)
LEMMA BegunHistory ==
  ASSUME RegistryOK, RequestsOK, CallsOK, HistoryOK,
         NEW c \in Calls, NEW f \in Picked(c.args.fingerprint), Begin(c, f)
  PROVE  HistoryOK'
<1> DEFINE g == GivenBy(c, f)
           k == NewCall(c, g, PreparedFor(c, g))
<1>1. /\ IsEntry(g) /\ OneBody(g) /\ g.method = c.verb
      /\ calls' = Put(Recent, LastCall + 1, k)
      /\ made' = Made(c.client) /\ clock' = Tick(c.client) /\ session' = session
  BY BeginIs
<1>2. LastCall \in Nat
  BY <1>1, MadeIs
<1>3. /\ k.client = c.client /\ k.response = None /\ k.ended = 0 /\ k.begun = clock /\ k.under = session
  BY DEF NewCall
<1>4. c.client = "session" /\ k.payload # None => CookiesSent(k) /\ ~session.closed
  BY <1>1, SessionSends DEF HistoryOK, JarOK
<1> HIDE DEF k, g
<1>5. clock \in Nat /\ clock' \in {clock, clock + 1} /\ (c.client = "session" => clock' = clock + 1)
  BY <1>1 DEF Tick, RequestsOK
<1>6. c.client = "session" /\ k.payload # None => JarIs(calls, k.under.cookies, k.begun)
  BY <1>3, <1>4 DEF HistoryOK, JarOK
<1>7. k.client = "session" => k.begun \in Nat /\ k.begun < clock' /\ k.ended < clock'
  BY <1>3, <1>5
<1>8. TimesOK(calls', clock') /\ SentOK(calls') /\ JarOK(calls', session, clock')
  BY <1>1, <1>2, <1>3, <1>4, <1>5, <1>6, <1>7, NewCallHistory
<1> QED  BY <1>1, <1>8 DEF HistoryOK

(* A batch leaves the calls of the session, and the jar, as they are.      *)
LEMMA BatchedHistory ==
  ASSUME RequestsOK, CallsOK, HistoryOK, NEW b \in Batches, Batch(b)
  PROVE  HistoryOK'
<1>1. made' = Made("batch") /\ clock' = clock /\ session' = session
  BY DEF Batch
<1>2. PICK k : CallOK(k) /\ k.client = "batch" /\ calls' = Put(Recent, LastCall + 1, k)
  BY BatchedIsOK
<1>3. LastCall \in Nat
  BY <1>1, MadeIs
<1>4. k.ended # 0 /\ k.client # "session"
  BY <1>2 DEF CallOK
<1>5. TimesOK(calls', clock) /\ SentOK(calls') /\ JarOK(calls', session, clock)
  BY <1>2, <1>3, <1>4, NewCallHistory
<1> QED  BY <1>1, <1>5 DEF HistoryOK

(* What an answer adds to a jar.                                           *)
LEMMA AnswerIsJar ==
  ASSUME NEW w \in AllWorlds, Outcome(w).err = None, NEW jar, IsJar(jar)
  PROVE  IsJar(JarSet(jar, Outcome(w).response.cookies))
<1> DEFINE set == Outcome(w).response.cookies
           new == [n \in DOMAIN set |-> [value |-> set[n].value, same_site |-> None]]
           d == JarSet(jar, set)
<1>1. IsFiniteSet(DOMAIN set)
  <2> DEFINE r == GoResponse(w)
             cookies == [n \in DOMAIN r.cookies |-> DictToCookie(r.cookies[n])]
  <2>1. Outcome(w).response = [r EXCEPT !.cookies = cookies]
    BY DEF Outcome, DictToResponse
  <2>2. r = [status |-> r.status, text |-> r.text, cookies |-> r.cookies]
    BY DEF GoResponse
  <2>3. IsFiniteSet(DOMAIN r.cookies)
    <3>1. CASE ~w.failed
      <4>1. DOMAIN r.cookies = DOMAIN Cookies(w.hops)
        BY <3>1 DEF GoResponse
      <4> QED  BY <3>1, <4>1, WorldsAssumption DEF IsWorld
    <3>2. CASE w.failed
      <4>1. r.cookies = Empty
        BY <3>2 DEF GoResponse
      <4>2. DOMAIN r.cookies = {}
        BY <4>1 DEF Empty
      <4> QED  BY <4>2, FS_EmptySet
    <3> QED  BY <3>1, <3>2
  <2>4. DOMAIN cookies = DOMAIN r.cookies
    OBVIOUS
  <2> HIDE DEF r, cookies
  <2>5. set = cookies
    BY <2>1, <2>2
  <2> QED  BY <2>3, <2>4, <2>5
<1>2. \A n \in DOMAIN set : [name |-> n, value |-> set[n].value, same_site |-> None] \in AllCookies
  <2>1. \A n \in DOMAIN set : [name |-> n, value |-> set[n].value, same_site |-> None] \in CookiesSetBy(w)
    BY DEF CookiesSetBy
  <2>2. \A o \in CookiesSetBy(w) : o \in SetCookies
    BY DEF SetCookies
  <2> QED  BY <2>1, <2>2 DEF AllCookies
<1> HIDE DEF set
<1>3. \A n \in DOMAIN set : new[n].value = set[n].value /\ new[n].same_site = None
  OBVIOUS
<1>4. DOMAIN new = DOMAIN set
  OBVIOUS
<1>5. d = Over(new, jar)
  BY DEF JarSet
<1> HIDE DEF new, d
<1>6. /\ DOMAIN d = DOMAIN set \cup DOMAIN jar
      /\ \A n \in DOMAIN set : d[n] = new[n]
      /\ \A n \in DOMAIN jar : n \notin DOMAIN set => d[n] = jar[n]
  BY <1>4, <1>5 DEF Over
<1>7. IsFiniteSet(DOMAIN d)
  BY <1>1, <1>6, FS_Union DEF IsJar
<1>8. \A n \in DOMAIN d : [name |-> n, value |-> d[n].value, same_site |-> d[n].same_site] \in AllCookies
  <2>1. ASSUME NEW n \in DOMAIN set
        PROVE  [name |-> n, value |-> d[n].value, same_site |-> d[n].same_site] \in AllCookies
    <3>1. d[n].value = set[n].value /\ d[n].same_site = None
      BY <1>3, <1>6
    <3> QED  BY <1>2, <3>1
  <2>2. ASSUME NEW n \in DOMAIN jar, n \notin DOMAIN set
        PROVE  [name |-> n, value |-> d[n].value, same_site |-> d[n].same_site] \in AllCookies
    <3>1. d[n] = jar[n]
      BY <1>6, <2>2
    <3> QED  BY <3>1 DEF IsJar
  <2> QED  BY <1>6, <2>1, <2>2
<1> QED  BY <1>7, <1>8 DEF IsJar, d, set

(* The cookies of an answer that comes in now are the last ones.           *)
LEMMA AnswerFollows ==
  ASSUME NEW cs, NEW ds, NEW now \in Nat, NEW i, NEW jar, JarIs(cs, jar, now),
         AnsweredIn(ds, now + 1) = AnsweredIn(cs, now) \cup {i}, i \notin AnsweredIn(cs, now),
         \A j \in AnsweredIn(cs, now) : ds[j] = cs[j] /\ cs[j].ended \in Nat /\ cs[j].ended < now,
         ds[i].ended = now
  PROVE  JarIs(ds, JarSet(jar, ds[i].response.cookies), now + 1)
<1> DEFINE set == ds[i].response.cookies
           d == JarSet(jar, set)
<1>1. /\ DOMAIN d = DOMAIN set \cup DOMAIN jar
      /\ \A n \in DOMAIN set : d[n].value = set[n].value
      /\ \A n \in DOMAIN jar : n \notin DOMAIN set => d[n] = jar[n]
  BY DEF JarSet, Over
<1> HIDE DEF d
<1>2. \A n : n \in DOMAIN set => SettersIn(ds, now + 1, n) = SettersIn(cs, now, n) \cup {i}
  BY DEF SettersIn, Has
<1>3. \A n : n \notin DOMAIN set => SettersIn(ds, now + 1, n) = SettersIn(cs, now, n)
  BY DEF SettersIn, Has
<1>4. \A n : \A j \in SettersIn(cs, now, n) :
        ds[j] = cs[j] /\ cs[j].ended \in Nat /\ cs[j].ended < now /\ j # i
  BY DEF SettersIn
<1>5. \A n : n \in DOMAIN jar <=> SettersIn(cs, now, n) # {}
  BY DEF JarIs
<1>6. \A n : n \in DOMAIN d <=> SettersIn(ds, now + 1, n) # {}
  <2>1. ASSUME NEW n PROVE n \in DOMAIN d <=> SettersIn(ds, now + 1, n) # {}
    <3>1. CASE n \in DOMAIN set
      BY <1>1, <1>2, <3>1
    <3>2. CASE n \notin DOMAIN set
      BY <1>1, <1>3, <1>5, <3>2
    <3> QED  BY <3>1, <3>2
  <2> QED  BY <2>1
<1>7. ASSUME NEW n \in DOMAIN d, NEW j \in SettersIn(ds, now + 1, n),
             \A k \in SettersIn(ds, now + 1, n) : ds[k].ended <= ds[j].ended
      PROVE  d[n].value = ds[j].response.cookies[n].value
  <2>1. CASE n \in DOMAIN set
    <3>1. now <= ds[j].ended
      BY <1>2, <1>7, <2>1
    <3>2. j = i
      BY <1>2, <1>4, <2>1, <3>1
    <3> QED  BY <1>1, <2>1, <3>2
  <2>2. CASE n \notin DOMAIN set
    <3>1. j \in SettersIn(cs, now, n) /\ n \in DOMAIN jar /\ d[n] = jar[n] /\ ds[j] = cs[j]
      BY <1>1, <1>3, <1>4, <1>5, <2>2
    <3>2. \A k \in SettersIn(cs, now, n) : cs[k].ended <= cs[j].ended
      BY <1>3, <1>4, <1>7, <2>2, <3>1
    <3>3. jar[n].value = cs[j].response.cookies[n].value
      BY <3>1, <3>2 DEF JarIs
    <3> QED  BY <3>1, <3>3
  <2> QED  BY <2>1, <2>2
<1> QED  BY <1>6, <1>7 DEF JarIs, d

(* What a call sent does not depend on its answer.                         *)
LEMMA SameCookiesSent ==
  ASSUME NEW k, NEW l, l.given = k.given, l.under = k.under, l.cookies = k.cookies, CookiesSent(k)
  PROVE  CookiesSent(l)
<1>1. OwnCookies(l) = OwnCookies(k)
  BY DEF OwnCookies
<1>2. \A d : CookieFits(d, k) => CookieFits(d, l)
  BY <1>1 DEF CookieFits
<1> QED  BY <1>1, <1>2 DEF CookiesSent

(* An answer comes after all earlier ones, and its cookies replace those   *)
(* of the same names in the jar.                                           *)
LEMMA FinishedHistory ==
  ASSUME RequestsOK, CallsOK, HistoryOK, NEW i \in DOMAIN calls, NEW w \in AllWorlds, Finish(i, w)
  PROVE  HistoryOK'
<1> DEFINE k == calls[i]
           ds == calls'
           l == ds[i]
           e == Outcome(w).err
           r == Outcome(w).response
<1>1. /\ DOMAIN ds = DOMAIN calls /\ \A j \in DOMAIN calls : j # i => ds[j] = calls[j]
      /\ l = [client |-> k.client, given |-> k.given, under |-> k.under, profile |-> k.profile,
              payload |-> k.payload, cookies |-> k.cookies, begun |-> k.begun, ended |-> clock,
              err |-> e, response |-> r, world |-> w]
  BY FinishedIsOK
<1>2. k.ended = 0 /\ k.response = None /\ clock \in Nat \ {0}
  BY DEF Finish, InFlight, HistoryOK, TimesOK, RequestsOK
<1>3. (e = None) # (r = None)
  BY HonestOutcome, WorldsAssumption
<1>4. /\ session' = IF k.client = "session" /\ e = None THEN UpdateCookies(session, r) ELSE session
      /\ clock' = Tick(k.client)
  BY DEF Finish
<1>5. \A j \in DOMAIN calls :
        /\ calls[j].ended \in Nat /\ (calls[j].ended = 0 => calls[j].response = None)
        /\ calls[j].client = "session" =>
             calls[j].begun \in Nat /\ calls[j].begun < clock /\ calls[j].ended < clock
  BY DEF CallsOK, CallOK, HistoryOK, TimesOK
<1> HIDE DEF e, r, k, ds, l
<1>6. /\ l.client = k.client /\ l.given = k.given /\ l.under = k.under /\ l.payload = k.payload
      /\ l.cookies = k.cookies /\ l.begun = k.begun /\ l.ended = clock /\ l.response = r
  BY <1>1
<1>7. clock' \in {clock, clock + 1} /\ clock' = IF k.client = "session" THEN clock + 1 ELSE clock
  BY <1>4 DEF Tick
<1>8. \A j \in DOMAIN calls : j = i \/ ds[j] = calls[j]
  BY <1>1
<1>9. ASSUME NEW t, t \in Nat, t <= clock \/ k.client # "session" \/ r = None
      PROVE  AnsweredIn(ds, t) = AnsweredIn(calls, t) /\ \A j \in AnsweredIn(calls, t) : ds[j] = calls[j]
  <2>1. i \notin AnsweredIn(ds, t)
    BY <1>2, <1>6, <1>9 DEF AnsweredIn, l
  <2>2. i \notin AnsweredIn(calls, t)
    BY <1>2 DEF AnsweredIn, k
  <2>3. \A j \in AnsweredIn(calls, t) : j \in DOMAIN calls /\ j # i
    BY <2>2 DEF AnsweredIn
  <2>4. AnsweredIn(calls, t) \subseteq AnsweredIn(ds, t)
    BY <1>1, <2>3 DEF AnsweredIn
  <2>5. AnsweredIn(ds, t) \subseteq AnsweredIn(calls, t)
    BY <1>1, <2>1 DEF AnsweredIn
  <2> QED  BY <1>1, <2>3, <2>4, <2>5
<1>10. TimesOK(ds, clock')
  <2>1. ASSUME NEW j \in DOMAIN calls
        PROVE  /\ ds[j].ended = 0 => ds[j].response = None
               /\ ds[j].client = "session" =>
                    ds[j].begun \in Nat /\ ds[j].begun < clock' /\ ds[j].ended < clock'
    <3>1. CASE j = i
      <4>1. ds[j] = l
        BY <3>1 DEF l
      <4>2. l.client = "session" => l.begun \in Nat /\ l.begun < clock
        BY <1>5, <1>6 DEF k
      <4> QED  BY <1>2, <1>6, <1>7, <4>1, <4>2
    <3>2. CASE j # i
      <4>1. ds[j] = calls[j]
        BY <1>1, <3>2
      <4> QED  BY <1>2, <1>5, <1>7, <4>1
    <3> QED  BY <3>1, <3>2
  <2> QED  BY <1>1, <2>1 DEF TimesOK
<1>11. SentOK(ds)
  <2>1. ASSUME NEW j \in DOMAIN calls, ds[j].client = "session", ds[j].payload # None
        PROVE  CookiesSent(ds[j]) /\ JarIs(ds, ds[j].under.cookies, ds[j].begun)
    <3>1. /\ ds[j].client = calls[j].client /\ ds[j].given = calls[j].given
          /\ ds[j].under = calls[j].under /\ ds[j].payload = calls[j].payload
          /\ ds[j].cookies = calls[j].cookies /\ ds[j].begun = calls[j].begun
      BY <1>6, <1>8 DEF k, l
    <3>2. CookiesSent(calls[j]) /\ JarIs(calls, calls[j].under.cookies, calls[j].begun)
      BY <2>1, <3>1 DEF HistoryOK, SentOK
    <3>3. CookiesSent(ds[j])
      BY <3>1, <3>2, SameCookiesSent
    <3>4. calls[j].begun \in Nat /\ calls[j].begun <= clock
      BY <1>2, <1>5, <2>1, <3>1
    <3> DEFINE t == calls[j].begun
    <3> HIDE DEF t
    <3>5. AnsweredIn(ds, t) = AnsweredIn(calls, t) /\ \A m \in AnsweredIn(calls, t) : ds[m] = calls[m]
      BY <1>9, <3>4 DEF t
    <3>6. JarIs(ds, calls[j].under.cookies, t)
      BY <3>2, <3>5, SameAnswers DEF t
    <3> QED  BY <3>1, <3>3, <3>6 DEF t
  <2> QED  BY <1>1, <2>1 DEF SentOK
<1>12. JarOK(ds, session', clock')
  <2>1. IsJar(session.cookies) /\ (~session.closed => JarIs(calls, session.cookies, clock))
    BY DEF HistoryOK, JarOK
  <2>2. CASE k.client = "session" /\ e = None
    <3>1. /\ session = [headers |-> session.headers, cookies |-> session.cookies, closed |-> session.closed]
      BY DEF RequestsOK, SessionOK
    <3> DEFINE jar == JarSet(session.cookies, r.cookies)
    <3>2. session' = [session EXCEPT !.cookies = jar]
      BY <1>4, <2>2 DEF UpdateCookies
    <3> HIDE DEF jar
    <3>3. session'.cookies = jar /\ session'.closed = session.closed
      BY <3>1, <3>2
    <3>4. IsJar(jar)
      BY <2>1, <2>2, AnswerIsJar DEF jar, e, r
    <3>5. i \notin AnsweredIn(calls, clock)
      BY <1>2 DEF AnsweredIn, k
    <3>6. r # None
      BY <1>3, <2>2
    <3>7. i \in AnsweredIn(ds, clock + 1)
      BY <1>1, <1>2, <1>6, <2>2, <3>6 DEF AnsweredIn, l
    <3>8. \A j \in AnsweredIn(calls, clock) : j \in DOMAIN calls /\ j # i /\ ds[j] = calls[j]
      BY <1>1, <3>5 DEF AnsweredIn
    <3>9. AnsweredIn(ds, clock + 1) = AnsweredIn(calls, clock) \cup {i}
      <4>1. AnsweredIn(calls, clock) \subseteq AnsweredIn(ds, clock + 1)
        BY <1>1, <1>2, <1>5, <3>8 DEF AnsweredIn
      <4>2. ASSUME NEW j \in AnsweredIn(ds, clock + 1), j # i PROVE j \in AnsweredIn(calls, clock)
        BY <1>1, <1>5, <4>2 DEF AnsweredIn
      <4> QED  BY <3>7, <4>1, <4>2
    <3>10. \A j \in AnsweredIn(calls, clock) :
             ds[j] = calls[j] /\ calls[j].ended \in Nat /\ calls[j].ended < clock
      BY <1>5, <3>8 DEF AnsweredIn
    <3>11. ASSUME ~session.closed PROVE JarIs(ds, jar, clock + 1)
      <4>1. ds[i].ended = clock /\ ds[i].response.cookies = r.cookies
        BY <1>6 DEF l
      <4>2. JarIs(ds, JarSet(session.cookies, ds[i].response.cookies), clock + 1)
        BY <1>2, <2>1, <3>5, <3>9, <3>10, <3>11, <4>1, AnswerFollows
      <4> QED  BY <4>1, <4>2 DEF jar
    <3>12. clock' = clock + 1
      BY <1>7, <2>2
    <3> QED  BY <3>3, <3>4, <3>11, <3>12 DEF JarOK
  <2>3. CASE ~(k.client = "session" /\ e = None)
    <3>1. session' = session /\ (k.client # "session" \/ r = None)
      BY <1>3, <1>4, <2>3
    <3>2. AnsweredIn(calls, clock') = AnsweredIn(calls, clock)
      BY <1>2, <1>5, <1>7 DEF AnsweredIn
    <3>3. clock' \in Nat
      BY <1>2, <1>7
    <3> DEFINE now == clock'
    <3> HIDE DEF now
    <3>4. AnsweredIn(ds, now) = AnsweredIn(calls, clock) /\ \A j \in AnsweredIn(calls, clock) : ds[j] = calls[j]
      BY <1>9, <3>1, <3>2, <3>3 DEF now
    <3>5. ~session.closed => JarIs(ds, session.cookies, now)
      BY <2>1, <3>4, SameAnswers
    <3> QED  BY <2>1, <3>1, <3>5 DEF JarOK, now
  <2> QED  BY <2>2, <2>3
<1> QED  BY <1>10, <1>11, <1>12 DEF HistoryOK, ds

(* Every step keeps the order of the answers and what the jar holds of     *)
(* them.                                                                   *)
LEMMA HistoryStep ==
  ASSUME RegistryOK, RequestsOK, CallsOK, HistoryOK, [Next]_vars
  PROVE  HistoryOK'
<1>1. CASE \E c \in Calls : \E f \in Picked(c.args.fingerprint) : Begin(c, f)
  BY <1>1, BegunHistory
<1>2. CASE \E i \in DOMAIN calls, w \in AllWorlds : Finish(i, w)
  BY <1>2, FinishedHistory
<1>3. CASE \E b \in Batches : Batch(b)
  BY <1>3, BatchedHistory
<1>4. CASE (\E n \in DOMAIN SessionHeaders : SetSessionHeader(n, SessionHeaders[n])) \/ Aclose
  <2>1. UNCHANGED <<calls, clock>>
    BY <1>4 DEF SetSessionHeader, Aclose
  <2>2. session'.cookies = session.cookies /\ (~session'.closed => ~session.closed)
    <3>1. session = [headers |-> session.headers, cookies |-> session.cookies, closed |-> session.closed]
      BY DEF RequestsOK, SessionOK
    <3>2. CASE Aclose
      BY <3>1, <3>2 DEF Aclose
    <3>3. CASE \E n \in DOMAIN SessionHeaders : SetSessionHeader(n, SessionHeaders[n])
      <4>1. PICK n : SetSessionHeader(n, SessionHeaders[n])
        BY <3>3
      <4> DEFINE h == CISet(session.headers, n, SessionHeaders[n])
      <4>2. session' = [session EXCEPT !.headers = h] /\ ~session.closed
        BY <4>1 DEF SetSessionHeader
      <4> HIDE DEF h
      <4> QED  BY <3>1, <4>2
    <3> QED  BY <1>4, <3>2, <3>3
  <2> QED  BY <2>1, <2>2 DEF HistoryOK, JarOK
<1>5. CASE Close
  <2>1. UNCHANGED <<calls, clock>> /\ session'.cookies = Empty /\ session'.closed
    BY <1>5 DEF Close
  <2>2. IsJar(session'.cookies)
    BY <2>1, FS_EmptySet DEF IsJar, Empty
  <2> QED  BY <2>1, <2>2 DEF HistoryOK, JarOK
<1>6. CASE Registry
  <2>1. CASE process' = "down"
    <3>1. session' = NewSession /\ calls' = Empty
      BY <1>6, <2>1 DEF Registry
    <3>2. TimesOK(calls', clock') /\ SentOK(calls') /\ JarOK(calls', session', clock')
      BY <3>1, EmptyHistory
    <3> QED  BY <3>2 DEF HistoryOK
  <2>2. CASE process' # "down"
    <3>1. UNCHANGED <<session, calls, clock>>
      BY <1>6, <2>2 DEF Registry, requestVars
    <3> QED  BY <3>1 DEF HistoryOK
  <2> QED  BY <2>1, <2>2
<1>7. CASE UNCHANGED vars
  BY <1>7 DEF vars, HistoryOK
<1> QED  BY <1>1, <1>2, <1>3, <1>4, <1>5, <1>6, <1>7 DEF Next

(* The jar holds the cookies of the last answers in every state.           *)
LEMMA HistoryInvariant == Spec => [](RegistryOK /\ RequestsOK /\ CallsOK /\ HistoryOK)
<1>1. Init => HistoryOK
  BY EmptyHistory DEF Init, HistoryOK
<1> QED  BY <1>1, HistoryStep, RequestsInvariant, PTL DEF Spec

(* A session sends, under the cookies a call gives, the cookies of the     *)
(* answers that were in before the call began: of each name the value of   *)
(* the answer that came last, whatever the order in which the calls were   *)
(* made, and no name twice (sessions.py _merge_session_state and           *)
(* _update_cookies_from_response, schema.py _cookie_to_dict).              *)
THEOREM CookiesDoFollow == Spec => []CookiesFollow
<1>1. ASSUME RegistryOK, RequestsOK, CallsOK, HistoryOK PROVE CookiesFollow
  <2>1. SUFFICES ASSUME NEW i \in Sent, calls[i].client = "session"
        PROVE LET c == calls[i]
                  given == GivenCookies(c.given.kw).items
                  own(n) == {o \in ToSet(given) : o.name = n}
                  names == {o.name : o \in ToSet(c.cookies) \cup ToSet(given)}
                  last(n) == CHOOSE j \in Setters(c.begun, n) :
                               \A k \in Setters(c.begun, n) : calls[k].ended <= calls[j].ended
              IN  /\ \A j, k \in DOMAIN c.cookies : c.cookies[j].name = c.cookies[k].name => j = k
                  /\ \A n \in names \cup UNION {DOMAIN calls[j].response.cookies : j \in Answered(c.begun)} :
                       \E k \in DOMAIN c.cookies :
                         /\ c.cookies[k].name = n
                         /\ IF own(n) # {} THEN \E o \in own(n) : SameCookie(c.cookies[k], o)
                            ELSE /\ Setters(c.begun, n) # {}
                                 /\ c.cookies[k].value = calls[last(n)].response.cookies[n].value
    BY DEF CookiesFollow
  <2> DEFINE c == calls[i]
             given == GivenCookies(c.given.kw).items
             own(n) == {o \in ToSet(given) : o.name = n}
             names == {o.name : o \in ToSet(c.cookies) \cup ToSet(given)}
             set == UNION {DOMAIN calls[j].response.cookies : j \in Answered(c.begun)}
             setters(n) == Setters(c.begun, n)
             last(n) == CHOOSE j \in setters(n) : \A k \in setters(n) : calls[k].ended <= calls[j].ended
             jar == c.under.cookies
  <2>2. /\ CookiesSent(c) /\ JarIs(calls, jar, c.begun) /\ c.begun \in Nat
    BY <1>1, <2>1 DEF HistoryOK, SentOK, TimesOK, Sent
  <2>3. /\ Answered(c.begun) = AnsweredIn(calls, c.begun)
        /\ \A n : setters(n) = SettersIn(calls, c.begun, n)
    BY DEF Answered, AnsweredIn, Setters, SettersIn
  <2>4. OwnCookies(c) = given
    BY DEF OwnCookies
  <2> HIDE DEF jar, c, given
  <2>5. /\ \A j, k \in DOMAIN c.cookies : c.cookies[j].name = c.cookies[k].name => j = k
        /\ \A k \in DOMAIN c.cookies : CookieFits(c.cookies[k], c)
        /\ \A n \in DOMAIN jar : \E k \in DOMAIN c.cookies : c.cookies[k].name = n
        /\ \A o \in ToSet(given) : \E k \in DOMAIN c.cookies : c.cookies[k].name = o.name
    BY <2>2, <2>4 DEF CookiesSent, jar
  <2>6. /\ \A n : n \in DOMAIN jar <=> setters(n) # {}
        /\ \A n \in DOMAIN jar : \A j \in setters(n) :
             (\A k \in setters(n) : calls[k].ended <= calls[j].ended) =>
               jar[n].value = calls[j].response.cookies[n].value
    BY <2>2, <2>3 DEF JarIs
  <2>7. ASSUME NEW n, setters(n) # {}
        PROVE  last(n) \in setters(n) /\ \A k \in setters(n) : calls[k].ended <= calls[last(n)].ended
    <3> DEFINE S == setters(n)
               T == {calls[j].ended : j \in S}
    <3>1. \A j \in S : calls[j].ended \in 1..c.begun
      <4>1. ASSUME NEW j \in S PROVE calls[j].ended \in 1..c.begun
        <5>1. j \in DOMAIN calls /\ calls[j].response # None /\ calls[j].ended < c.begun
          BY <2>3 DEF SettersIn, AnsweredIn
        <5>2. calls[j].ended \in Nat /\ calls[j].ended # 0
          BY <1>1, <5>1 DEF CallsOK, CallOK, HistoryOK, TimesOK
        <5> QED  BY <2>2, <5>1, <5>2
      <4> QED  BY <4>1
    <3> HIDE DEF S
    <3>2. T \in SUBSET (1..c.begun)
      BY <3>1
    <3>3. T # {}
      BY <2>7 DEF S
    <3>4. \E t \in T : \A u \in T : u <= t
      BY <2>2, <3>2, <3>3, Greatest
    <3>5. \E j \in S : \A k \in S : calls[k].ended <= calls[j].ended
      BY <3>4
    <3> HIDE DEF setters
    <3> QED  BY <3>5 DEF S
  <2> HIDE DEF setters, last
  <2>8. ASSUME NEW n \in names \cup set PROVE \E k \in DOMAIN c.cookies : c.cookies[k].name = n
    <3>1. CASE n \in set
      <4>1. PICK j \in Answered(c.begun) : n \in DOMAIN calls[j].response.cookies
        BY <3>1
      <4>2. j \in setters(n)
        BY <4>1 DEF setters, Setters, Has
      <4> QED  BY <2>5, <2>6, <4>2
    <3>2. CASE n \in names
      <4>1. PICK o \in ToSet(c.cookies) \cup ToSet(given) : o.name = n
        BY <3>2
      <4>2. CASE o \in ToSet(c.cookies)
        BY <4>1, <4>2 DEF ToSet
      <4>3. CASE o \in ToSet(given)
        BY <2>5, <4>1, <4>3
      <4> QED  BY <4>2, <4>3
    <3> QED  BY <3>1, <3>2
  <2>9. ASSUME NEW k \in DOMAIN c.cookies, NEW n, n = c.cookies[k].name
        PROVE  IF own(n) # {} THEN \E o \in own(n) : SameCookie(c.cookies[k], o)
               ELSE /\ setters(n) # {}
                    /\ c.cookies[k].value = calls[last(n)].response.cookies[n].value
    <3>1. \/ \E o \in ToSet(given) : o.name = n /\ SameCookie(c.cookies[k], o)
          \/ /\ \A o \in ToSet(given) : o.name # n
             /\ n \in DOMAIN jar /\ c.cookies[k].value = jar[n].value
      BY <2>4, <2>5, <2>9 DEF CookieFits, jar
    <3>2. CASE \E o \in ToSet(given) : o.name = n /\ SameCookie(c.cookies[k], o)
      BY <3>2
    <3>3. CASE /\ \A o \in ToSet(given) : o.name # n
               /\ n \in DOMAIN jar /\ c.cookies[k].value = jar[n].value
      <4>1. own(n) = {}
        BY <3>3
      <4>2. setters(n) # {}
        BY <2>6, <3>3
      <4>3. jar[n].value = calls[last(n)].response.cookies[n].value
        BY <2>6, <2>7, <3>3, <4>2
      <4> QED  BY <3>3, <4>1, <4>2, <4>3
    <3> QED  BY <3>1, <3>2, <3>3
  <2> HIDE DEF own, names, set
  <2>10. \A n \in names \cup set :
           \E k \in DOMAIN c.cookies :
             /\ c.cookies[k].name = n
             /\ IF own(n) # {} THEN \E o \in own(n) : SameCookie(c.cookies[k], o)
                ELSE /\ setters(n) # {}
                     /\ c.cookies[k].value = calls[last(n)].response.cookies[n].value
    BY <2>8, <2>9
  <2> QED  BY <2>5, <2>10 DEF own, names, set, setters, last, c, given
<1> QED  BY <1>1, HistoryInvariant, PTL
=============================================================================
