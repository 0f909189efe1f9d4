--------------------------- MODULE RegistryProofs ---------------------------
(***************************************************************************)
(* Proofs about the registry and about the user-level calls that go        *)
(* through it, for every declared table, every list of built-ins, every    *)
(* set of satellites, every argument and every integer width.              *)
(***************************************************************************)
EXTENDS RCalls, TLAPS, WellFoundedInduction

\* What registration established for each codec already in the table.
DeclarationsHonoured ==
    \A i \in Slots : registry[i].codec # ZU_CODEC_NONE /\ HonoursDeclarations(registry[i])

\* The cache was filled in the past.
CacheIsBehind == cache.filled => cache.gen <= gen

\* The first slot of a set with one member.
LEMMA FirstOfOne ==
    ASSUME NEW S, NEW i \in Nat, i \in S, \A j \in S : j = i
    PROVE  FirstSlot(S) = i
<1>1. \A j \in S : i <= j
  OBVIOUS
<1>2. FirstSlot(S) \in S
  BY <1>1, Zenon DEF FirstSlot
<1>. QED  BY <1>2

\* Every vtable that can be registered is one.
LEMMA OfferedTypes ==
    /\ Satellites \subseteq VtableType
    /\ \A k \in 1 .. Len(Builtin) : Builtin[k] \in VtableType
BY RegistryAssumption

\* A registration either appends a vtable that passed every check or
\* changes nothing.
LEMMA RegisterCases ==
    ASSUME NEW v, Register(v)
    PROVE  \/ UNCHANGED <<registry, gen>>
           \/ /\ v.codec # ZU_CODEC_NONE /\ ~Registered(v.codec)
              /\ HonoursDeclarations(v) /\ NoDuplicate(v)
              /\ Len(registry) < Cap \/ ~(Len(registry) >= Cap)
              /\ registry' = Append(registry, v) /\ gen' = gen + 1
BY DEF Register, RegisterStatus, ZU_OK, ZU_ERR_INVALID_ARGUMENT, ZU_ERR_MEMORY

\* The table before a registration, as the table after it sees it.
LEMMA AppendSlots ==
    ASSUME registry \in Seq(VtableType), NEW v \in VtableType,
           registry' = Append(registry, v)
    PROVE  /\ registry' \in Seq(VtableType)
           /\ Len(registry') = Len(registry) + 1
           /\ Len(registry) \in Nat
           /\ \A i \in Slots : registry'[i] = registry[i]
           /\ registry'[Len(registry) + 1] = v
           /\ Slots' = Slots \cup {Len(registry) + 1}
BY DEF Slots

\* Appending a vtable that passed the checks keeps the table unambiguous.
LEMMA RegisterKeepsUnique ==
    ASSUME registry \in Seq(VtableType), NEW v \in VtableType,
           Unique, DeclarationsHonoured, Register(v)
    PROVE  Unique' /\ DeclarationsHonoured'
<1>1. CASE UNCHANGED <<registry, gen>>
  BY <1>1 DEF Unique, DeclarationsHonoured, Slots, SameToken, HonoursDeclarations,
              IsDeclared
<1>2. CASE /\ v.codec # ZU_CODEC_NONE /\ ~Registered(v.codec)
           /\ HonoursDeclarations(v) /\ NoDuplicate(v)
           /\ registry' = Append(registry, v)
  <2>. DEFINE n == Len(registry) + 1
  <2>1. /\ n \in Nat /\ n \notin Slots
        /\ \A i \in Slots : registry'[i] = registry[i]
        /\ registry'[n] = v
        /\ Slots' = Slots \cup {n}
    BY <1>2, AppendSlots DEF Slots
  <2>2. \A i \in Slots : /\ registry[i].codec # v.codec
                         /\ registry[i].name # v.name
                         /\ ~SameToken(registry[i].ce, v.ce)
                         /\ ~SameToken(v.ce, registry[i].ce)
    BY <1>2 DEF Registered, NoDuplicate, SameToken
  <2>. HIDE DEF n
  <2>3. Unique'
    <3>. SUFFICES ASSUME NEW i \in Slots', NEW j \in Slots', i # j
                  PROVE  /\ registry'[i].codec # registry'[j].codec
                         /\ registry'[i].name # registry'[j].name
                         /\ ~SameToken(registry'[i].ce, registry'[j].ce)
      BY DEF Unique, SameToken
    <3>1. CASE i \in Slots /\ j \in Slots
      BY <2>1, <3>1 DEF Unique
    <3>2. CASE i \in Slots /\ j = n
      BY <2>1, <2>2, <3>2
    <3>3. CASE i = n /\ j \in Slots
      BY <2>1, <2>2, <3>3
    <3>. QED  BY <2>1, <3>1, <3>2, <3>3
  <2>4. DeclarationsHonoured'
    <3>. SUFFICES ASSUME NEW i \in Slots'
                  PROVE  /\ registry'[i].codec # ZU_CODEC_NONE
                         /\ HonoursDeclarations(registry'[i])
      BY DEF DeclarationsHonoured, HonoursDeclarations, IsDeclared, SameToken
    <3>1. CASE i \in Slots
      BY <2>1, <3>1 DEF DeclarationsHonoured
    <3>2. CASE i = n
      BY <1>2, <2>1, <3>2
    <3>. QED  BY <2>1, <3>1, <3>2
  <2>. QED  BY <2>3, <2>4
<1>. QED  BY <1>1, <1>2, RegisterCases

\* A rebuilt table has well-formed rows.
LEMMA TableType ==
    ASSUME registry \in Seq(VtableType), Unique
    PROVE  Table \in SUBSET RowType
<1>. DEFINE Columns == [min : Int, max : Int, fast : Int, best : Int]
<1>1. \A i \in Slots : registry[i] \in VtableType /\ i \in Nat
  BY DEF Slots
<1>2. ASSUME NEW d \in Declared, Registered(d.codec)
      PROVE  VtableOf(d.codec) \in VtableType
  <2>1. PICK i \in Slots : registry[i].codec = d.codec
    BY <1>2 DEF Registered
  <2>2. FirstSlot({k \in Slots : registry[k].codec = d.codec}) = i
    <3>. DEFINE S == {k \in Slots : registry[k].codec = d.codec}
    <3>1. i \in S /\ i \in Nat
      BY <1>1, <2>1
    <3>2. \A j \in S : j = i
      BY <2>1 DEF Unique
    <3>. HIDE DEF S
    <3>3. FirstSlot(S) = i
      BY <3>1, <3>2, FirstOfOne
    <3>. QED  BY <3>3 DEF S
  <2>. QED  BY <1>1, <2>1, <2>2 DEF VtableOf
<1>3. NoColumns \in Columns
  BY LevelAssumption DEF NoColumns, NA
<1>4. ASSUME NEW v \in VtableType
      PROVE  RowOf(v) \in RowType
  <2>1. LevelFast(v) \in Int /\ LevelBest(v) \in Int
    BY LevelAssumption DEF LevelFast, LevelBest, VtableType, Int32
  <2>2. [min |-> v.level_min, max |-> v.level_max,
         fast |-> LevelFast(v), best |-> LevelBest(v)] \in Columns
    BY <2>1, LevelAssumption DEF VtableType, Int32
  <2>3. LevelColumns(v) \in Columns
    BY <1>3, <2>2 DEF LevelColumns
  <2>4. v.codec \in Nat /\ v.name \in Names
    BY DEF VtableType
  <2>. QED  BY <2>3, <2>4 DEF RowOf, RowType
<1>5. ASSUME NEW d \in Declared
      PROVE  [codec |-> d.codec, id |-> d.name, available |-> FALSE,
              levels |-> NoColumns] \in RowType
  <2>1. d.codec \in Nat /\ d.name \in Names
    BY RegistryAssumption
  <2>. QED  BY <1>3, <2>1 DEF RowType
<1>6. \A d \in Declared :
         (IF Registered(d.codec) THEN RowOf(VtableOf(d.codec))
          ELSE [codec |-> d.codec, id |-> d.name, available |-> FALSE,
                levels |-> NoColumns]) \in RowType
  BY <1>2, <1>4, <1>5
<1>7. \A i \in Slots : RowOf(registry[i]) \in RowType
  BY <1>1, <1>4
<1>. QED  BY <1>6, <1>7 DEF Table

----------------------------------------------------------------------------
(***************************************************************************)
(* The inductive invariant.  Uniqueness is what makes "the first match" of *)
(* the table the only one; the cache's honesty needs to know that the      *)
(* cache was filled in the past, so that a registration outdates it.       *)
(***************************************************************************)
IInv ==
    /\ TypeOK
    /\ Unique
    /\ DeclarationsHonoured
    /\ CacheIsBehind
    /\ CacheIsHonest

\* A registration, accepted or refused, keeps the inductive invariant: the
\* generation moves whenever the table does.
LEMMA RegisterKeepsIInv ==
    ASSUME IInv, NEW v \in VtableType, Register(v), UNCHANGED cache,
           load' \in 0 .. Len(Builtin), failed' \in BOOLEAN
    PROVE  IInv'
<1>0. registry \in Seq(VtableType) /\ gen \in Nat /\ Len(registry) <= Cap /\ Cap \in Nat
  BY RegistryAssumption DEF IInv, TypeOK
<1>1. Unique' /\ DeclarationsHonoured'
  BY <1>0, RegisterKeepsUnique DEF IInv
<1>2. CASE UNCHANGED <<registry, gen>>
  <2>1. TypeOK'
    BY <1>2 DEF IInv, TypeOK
  <2>2. Table' = Table
    BY <1>2 DEF Table, Registered, VtableOf, Slots
  <2>3. CacheIsBehind' /\ CacheIsHonest'
    BY <1>2, <2>2 DEF IInv, CacheIsBehind, CacheIsHonest
  <2>. QED  BY <1>1, <2>1, <2>3 DEF IInv
<1>3. CASE /\ ~(Len(registry) >= Cap)
           /\ registry' = Append(registry, v) /\ gen' = gen + 1
  <2>1. registry' \in Seq(VtableType) /\ Len(registry') = Len(registry) + 1
    BY <1>0, <1>3, AppendSlots
  <2>2. Len(registry') <= Cap /\ gen' \in Nat
    BY <1>0, <1>3, <2>1
  <2>3. TypeOK'
    BY <2>1, <2>2 DEF IInv, TypeOK
  <2>4. cache.filled => cache.gen \in Nat /\ cache.gen < gen'
    BY <1>0, <1>3 DEF IInv, TypeOK, CacheIsBehind
  <2>5. CacheIsBehind' /\ CacheIsHonest'
    BY <2>2, <2>4 DEF CacheIsBehind, CacheIsHonest
  <2>. QED  BY <1>1, <2>3, <2>5 DEF IInv
<1>. QED  BY <1>0, <1>2, <1>3, RegisterCases

\* A name check only touches the cache, and refreshes it from the registry.
LEMMA CheckKeepsIInv ==
    ASSUME IInv, NEW name, CheckCodecName(name)
    PROVE  IInv'
<1>1. UNCHANGED <<load, failed, registry, gen>> /\ cache' = Refreshed
  BY DEF CheckCodecName
<1>2. Table \in SUBSET RowType
  BY TableType DEF IInv, TypeOK
<1>3. Table' = Table
  BY <1>1 DEF Table, Registered, VtableOf, Slots
<1>4. /\ cache' \in [gen : Nat, filled : BOOLEAN, rows : SUBSET RowType]
      /\ CacheIsBehind' /\ CacheIsHonest'
  <2>1. CASE cache' = cache
    BY <1>1, <1>3, <2>1 DEF IInv, TypeOK, CacheIsBehind, CacheIsHonest
  <2>2. CASE cache' = [gen |-> gen, filled |-> TRUE, rows |-> Table]
    <3>1. gen \in Nat
      BY DEF IInv, TypeOK
    <3>. HIDE DEF Table
    <3>. QED  BY <1>1, <1>2, <1>3, <2>2, <3>1 DEF CacheIsBehind, CacheIsHonest
  <2>. QED  BY <1>1, <2>1, <2>2 DEF Refreshed
<1>5. TypeOK'
  BY <1>1, <1>4 DEF IInv, TypeOK
<1>6. Unique' /\ DeclarationsHonoured'
  BY <1>1 DEF IInv, Unique, DeclarationsHonoured, Slots, SameToken,
              HonoursDeclarations, IsDeclared
<1>. QED  BY <1>4, <1>5, <1>6 DEF IInv

\* The invariant holds in every reachable state.
THEOREM Inductive == Spec => []IInv
<1>1. Init => IInv
  <2>. SUFFICES ASSUME Init PROVE IInv
    OBVIOUS
  <2>1. Len(registry) = 0 /\ Slots = {} /\ registry \in Seq(VtableType)
    BY DEF Init, Slots
  <2>2. Len(Builtin) \in Nat /\ Cap \in Nat
    BY RegistryAssumption
  <2>3. cache \in [gen : Nat, filled : BOOLEAN, rows : SUBSET RowType] /\ ~cache.filled
    BY DEF Init, NoCache
  <2>4. failed \in BOOLEAN
    BY Zenon DEF Init
  <2>5. TypeOK
    BY <2>1, <2>2, <2>3, <2>4 DEF Init, TypeOK
  <2>. QED  BY <2>1, <2>3, <2>5 DEF IInv, Unique, DeclarationsHonoured,
                                    CacheIsBehind, CacheIsHonest
<1>2. IInv /\ [Next]_vars => IInv'
  <2>. SUFFICES ASSUME IInv, [Next]_vars PROVE IInv'
    OBVIOUS
  <2>1. CASE LoadBuiltin
    <3>1. load \in 0 .. Len(Builtin) /\ load # Len(Builtin) /\ Len(Builtin) \in Nat
      BY <2>1, RegistryAssumption DEF IInv, TypeOK, LoadBuiltin, Loaded
    <3>2. Builtin[load + 1] \in VtableType
      BY <3>1, OfferedTypes
    <3>3. load' \in 0 .. Len(Builtin)
      BY <2>1, <3>1 DEF LoadBuiltin
    <3>4. failed' \in BOOLEAN
      BY <2>1 DEF LoadBuiltin
    <3>5. Register(Builtin[load + 1]) /\ UNCHANGED cache
      BY <2>1 DEF LoadBuiltin
    <3>. QED  BY <3>2, <3>3, <3>4, <3>5, RegisterKeepsIInv
  <2>2. ASSUME NEW v \in Satellites, RegisterSatellite(v)
        PROVE  IInv'
    <3>1. /\ v \in VtableType /\ Register(v) /\ UNCHANGED cache
          /\ load' \in 0 .. Len(Builtin) /\ failed' \in BOOLEAN
      BY <2>2, OfferedTypes DEF RegisterSatellite, IInv, TypeOK
    <3>. QED  BY <3>1, RegisterKeepsIInv
  <2>3. ASSUME NEW name \in Names, CheckCodecName(name)
        PROVE  IInv'
    BY <2>3, CheckKeepsIInv
  <2>4. CASE UNCHANGED vars
    <3>1. UNCHANGED <<load, failed, registry, gen, cache>>
      BY <2>4 DEF vars
    <3>2. Table' = Table
      BY <3>1 DEF Table, Registered, VtableOf, Slots
    <3>3. TypeOK' /\ CacheIsBehind' /\ CacheIsHonest'
      BY <3>1, <3>2 DEF IInv, TypeOK, CacheIsBehind, CacheIsHonest
    <3>4. Unique' /\ DeclarationsHonoured'
      BY <3>1 DEF IInv, Unique, DeclarationsHonoured, Slots, SameToken,
                  HonoursDeclarations, IsDeclared
    <3>. QED  BY <3>3, <3>4 DEF IInv
  <2>. QED  BY <2>1, <2>2, <2>3, <2>4 DEF Next
<1>. QED  BY <1>1, <1>2, PTL DEF Spec

\* No order of loading satellites makes two codecs share an identity, a name
\* or a token.
THEOREM RegistryIsUnambiguous == Spec => []Unique
<1>1. IInv => Unique
  BY DEF IInv
<1>. QED  BY <1>1, Inductive, PTL

\* A cache hit returns what a rebuild would.
THEOREM CacheNeverStale == Spec => []CacheIsHonest
<1>1. IInv => CacheIsHonest
  BY DEF IInv
<1>. QED  BY <1>1, Inductive, PTL

\* Both lookups find the codec that registered the name or the token.
THEOREM LookupsAreSound == Spec => []LookupsReachTheirOwner
<1>1. IInv => LookupsReachTheirOwner
  <2>. SUFFICES ASSUME IInv, NEW i \in Slots
                PROVE  /\ VtableOf(registry[i].codec) = registry[i]
                       /\ Lookup(registry[i].name) = registry[i].codec
                       /\ registry[i].ce # NoToken =>
                             FromContentEncoding(registry[i].ce) = registry[i].codec
    BY DEF LookupsReachTheirOwner
  <2>. DEFINE v == registry[i]
  <2>1. i \in Nat /\ v \in VtableType
    BY DEF IInv, TypeOK, Slots
  <2>2. HonoursDeclarations(v)
    BY DEF IInv, DeclarationsHonoured
  <2>3. Lookup(v.name) = v.codec
    <3>1. CASE \E d \in Declared : d.name = v.name
      <4>1. \A d \in Declared : d.name = v.name => d.codec = v.codec
        BY <2>2 DEF HonoursDeclarations
      <4>. DEFINE d0 == CHOOSE d \in Declared : d.name = v.name
      <4>2. d0 \in Declared /\ d0.name = v.name
        BY <3>1
      <4>. QED  BY <3>1, <4>1, <4>2 DEF Lookup
    <3>2. CASE ~\E d \in Declared : d.name = v.name
      <4>. DEFINE S == {k \in Slots : registry[k].name = v.name}
      <4>1. i \in S /\ \A j \in S : j = i
        BY DEF IInv, Unique
      <4>. HIDE DEF S
      <4>2. FirstSlot(S) = i
        BY <2>1, <4>1, FirstOfOne
      <4>3. Lookup(v.name) = IF S = {} THEN ZU_CODEC_NONE ELSE registry[FirstSlot(S)].codec
        BY <3>2 DEF Lookup, S
      <4>. QED  BY <4>1, <4>2, <4>3
    <3>. QED  BY <3>1, <3>2
  <2>4. ASSUME v.ce # NoToken
        PROVE  FromContentEncoding(v.ce) = v.codec
    <3>1. CASE \E d \in Declared : SameToken(d.ce, v.ce)
      <4>1. \A d \in Declared : SameToken(d.ce, v.ce) => d.codec = v.codec
        BY <2>2 DEF HonoursDeclarations
      <4>. DEFINE d0 == CHOOSE d \in Declared : SameToken(d.ce, v.ce)
      <4>2. d0 \in Declared /\ SameToken(d0.ce, v.ce)
        BY <3>1
      <4>. QED  BY <3>1, <4>1, <4>2 DEF FromContentEncoding
    <3>2. CASE ~\E d \in Declared : SameToken(d.ce, v.ce)
      <4>. DEFINE S == {k \in Slots : SameToken(registry[k].ce, v.ce)}
      <4>1. i \in S
        BY <2>4 DEF SameToken
      <4>2. \A j \in S : j = i
        BY DEF IInv, Unique
      <4>. HIDE DEF S
      <4>3. FirstSlot(S) = i
        BY <2>1, <4>1, <4>2, FirstOfOne
      <4>4. FromContentEncoding(v.ce) =
              IF S = {} THEN ZU_CODEC_NONE ELSE registry[FirstSlot(S)].codec
        BY <3>2 DEF FromContentEncoding, S
      <4>. QED  BY <4>1, <4>3, <4>4
    <3>. QED  BY <3>1, <3>2
  <2>5. VtableOf(v.codec) = v
    <3>. DEFINE S == {k \in Slots : registry[k].codec = v.codec}
    <3>1. i \in S /\ \A j \in S : j = i
      BY DEF IInv, Unique
    <3>. HIDE DEF S
    <3>2. FirstSlot(S) = i
      BY <2>1, <3>1, FirstOfOne
    <3>. QED  BY <3>2 DEF VtableOf, S
  <2>. QED  BY <2>3, <2>4, <2>5
<1>. QED  BY <1>1, Inductive, PTL

\* Every variable keeps its type; in particular the table never outgrows its
\* array.
THEOREM TypeCorrect == Spec => []TypeOK
<1>1. IInv => TypeOK
  BY DEF IInv
<1>. QED  BY <1>1, Inductive, PTL

\* The row of a declared codec carries its declared name, whether or not the
\* codec is registered.
LEMMA DeclaredRow ==
    ASSUME IInv, NEW d \in Declared
    PROVE  Registered(d.codec) => RowOf(VtableOf(d.codec)).id = d.name
<1>. SUFFICES ASSUME Registered(d.codec)
              PROVE  VtableOf(d.codec).name = d.name
  BY DEF RowOf
<1>1. PICK i \in Slots : registry[i].codec = d.codec
  BY DEF Registered
<1>. DEFINE S == {k \in Slots : registry[k].codec = d.codec}
<1>2. i \in S /\ i \in Nat /\ \A j \in S : j = i
  BY <1>1 DEF IInv, Unique, Slots
<1>. HIDE DEF S
<1>3. FirstSlot(S) = i
  BY <1>2, FirstOfOne
<1>4. VtableOf(d.codec) = registry[i]
  BY <1>3 DEF VtableOf, S
<1>5. registry[i].name = d.name
  BY <1>1 DEF IInv, DeclarationsHonoured, HonoursDeclarations
<1>. QED  BY <1>4, <1>5

\* The table and the registry say the same of every name: the declarations
\* keep a declared name for its own row, uniqueness gives every other
\* registered name one row.
LEMMA VerdictsAgree ==
    ASSUME IInv, NEW name
    PROVE  RowVerdict(Table, name) = CoreVerdict(name)
<1>. DEFINE Absent(d) == [codec |-> d.codec, id |-> d.name, available |-> FALSE,
                          levels |-> NoColumns]
            DRow(d) == IF Registered(d.codec) THEN RowOf(VtableOf(d.codec)) ELSE Absent(d)
            Extra == {k \in Slots : ~IsDeclared(registry[k].codec)}
            hits == {r \in Table : r.id = name}
<1>1. Table = {DRow(d) : d \in Declared} \cup {RowOf(registry[i]) : i \in Extra}
  BY DEF Table
<1>2. \A d \in Declared : DRow(d).id = d.name /\ DRow(d).available = Registered(d.codec)
  <2>. TAKE d \in Declared
  <2>1. CASE Registered(d.codec)
    BY <2>1, DeclaredRow DEF RowOf
  <2>2. CASE ~Registered(d.codec)
    BY <2>2 DEF Registered
  <2>. QED  BY <2>1, <2>2
<1>3. \A i \in Extra : RowOf(registry[i]).id = registry[i].name
                        /\ RowOf(registry[i]).available = TRUE
  BY DEF RowOf
<1>. HIDE DEF DRow
<1>4. CASE \E d \in Declared : d.name = name
  <2>. DEFINE d0 == CHOOSE d \in Declared : d.name = name
  <2>1. d0 \in Declared /\ d0.name = name
    BY <1>4
  <2>. HIDE DEF d0
  <2>2. Lookup(name) = d0.codec /\ d0.codec # ZU_CODEC_NONE
    BY <1>4, <2>1, RegistryAssumption DEF Lookup, d0
  <2>3. \A d \in Declared : DRow(d).id = name => d = d0
    BY <1>2, <2>1, RegistryAssumption
  <2>4. \A i \in Extra : registry[i].name # name
    BY <2>1 DEF IInv, DeclarationsHonoured, HonoursDeclarations, IsDeclared
  <2>5. hits = {DRow(d0)}
    BY <1>1, <1>2, <1>3, <2>1, <2>3, <2>4
  <2>6. RowVerdict(Table, name) = IF Registered(d0.codec) THEN "available" ELSE "reserved"
    BY <1>2, <2>1, <2>5 DEF RowVerdict
  <2>. QED  BY <2>2, <2>6 DEF CoreVerdict
<1>5. CASE ~\E d \in Declared : d.name = name
  <2>. DEFINE S == {i \in Slots : registry[i].name = name}
  <2>1. \A i \in S : i \in Extra
    BY <1>5 DEF IInv, DeclarationsHonoured, HonoursDeclarations, IsDeclared
  <2>2. \A d \in Declared : DRow(d).id # name
    BY <1>2, <1>5
  <2>3. Lookup(name) = IF S = {} THEN ZU_CODEC_NONE ELSE registry[FirstSlot(S)].codec
    BY <1>5 DEF Lookup
  <2>4. CASE S = {}
    <3>1. hits = {}
      BY <1>1, <1>3, <2>2, <2>4
    <3>. QED  BY <2>3, <2>4, <3>1 DEF RowVerdict, CoreVerdict
  <2>5. CASE S # {}
    <3>1. PICK i : i \in S
      BY <2>5
    <3>2. i \in Nat /\ \A j \in S : j = i
      BY <3>1 DEF IInv, Unique, Slots
    <3>3. FirstSlot(S) = i
      <4>. HIDE DEF S
      <4>. QED  BY <3>1, <3>2, FirstOfOne
    <3>4. Lookup(name) = registry[i].codec /\ registry[i].codec # ZU_CODEC_NONE
      BY <2>3, <2>5, <3>1, <3>3 DEF IInv, DeclarationsHonoured
    <3>5. CoreVerdict(name) = "available"
      BY <3>1, <3>4 DEF CoreVerdict, Registered
    <3>6. hits = {RowOf(registry[i])}
      BY <1>1, <1>3, <2>1, <2>2, <3>1, <3>2
    <3>7. RowVerdict(Table, name) = "available"
      BY <1>3, <2>1, <3>1, <3>6 DEF RowVerdict
    <3>. QED  BY <3>5, <3>7
  <2>. QED  BY <2>4, <2>5
<1>. QED  BY <1>4, <1>5

\* The cached table and the registry never disagree about a codec's name,
\* whenever satellites register between the calls.
THEOREM LayersNeverDisagree == Spec => []LayersAgree
<1>1. Init => LayersAgree
  BY DEF Init, LayersAgree
<1>2. IInv /\ LayersAgree /\ [Next]_vars => LayersAgree'
  <2>. SUFFICES ASSUME IInv, LayersAgree, [Next]_vars PROVE LayersAgree'
    OBVIOUS
  <2>1. CASE UNCHANGED answer
    BY <2>1 DEF LayersAgree
  <2>2. ASSUME NEW name \in Names, CheckCodecName(name)
        PROVE  LayersAgree'
    <3>1. cache' = Refreshed
          /\ answer' = [r |-> RowVerdict(cache'.rows, name), c |-> CoreVerdict(name)]
      BY <2>2 DEF CheckCodecName
    <3>2. Refreshed.rows = Table
      BY DEF Refreshed, IInv, CacheIsHonest, TypeOK
    <3>. QED  BY <3>1, <3>2, VerdictsAgree DEF LayersAgree
  <2>. QED  BY <2>1, <2>2 DEF Next, vars, LoadBuiltin, RegisterSatellite
<1>. QED  BY <1>1, <1>2, Inductive, PTL DEF Spec

----------------------------------------------------------------------------
\* A set of naturals that is not empty has a least member.
LEMMA LeastExists ==
    ASSUME NEW T \in SUBSET Nat, T # {}
    PROVE  \E x \in T : \A y \in T : x <= y
<1>. DEFINE R == OpToRel(<, Nat)
<1>1. PICK x \in T : \A y \in T : ~(<<y, x>> \in R)
  <2>1. IsWellFoundedOn(R, Nat)
    BY NatLessThanWellFounded
  <2>. HIDE DEF R
  <2>. QED  BY <2>1, WFMin
<1>2. \A y \in T : x <= y
  <2>. TAKE y \in T
  <2>1. ~(<<y, x>> \in R)
    BY <1>1
  <2>2. y \in Nat /\ x \in Nat
    OBVIOUS
  <2>3. ~(y < x)
    BY <2>1, <2>2 DEF OpToRel
  <2>. QED  BY <2>2, <2>3
<1>. QED  BY <1>2

\* So the first slot of a set of slots is one of them.
LEMMA FirstSlotIn ==
    ASSUME NEW T \in SUBSET Nat, T # {}
    PROVE  FirstSlot(T) \in T
BY LeastExists, Zenon DEF FirstSlot

\* ... and the least of them.
LEMMA FirstSlotLeast ==
    ASSUME NEW T \in SUBSET Nat, T # {}
    PROVE  FirstSlot(T) \in T /\ \A j \in T : FirstSlot(T) <= j
BY LeastExists, Zenon DEF FirstSlot

\* Slots that come after all of a set's leave its first where it was.
LEMMA FirstSlotStays ==
    ASSUME NEW S \in SUBSET Nat, S # {}, NEW T \in SUBSET Nat, S \subseteq T,
           \A t \in T \ S : \A s \in S : s <= t
    PROVE  FirstSlot(T) = FirstSlot(S)
<1>. DEFINE f == FirstSlot(S)
            g == FirstSlot(T)
<1>1. f \in S /\ \A j \in S : f <= j
  BY FirstSlotLeast
<1>2. g \in T /\ \A j \in T : g <= j
  BY FirstSlotLeast
<1>. HIDE DEF f, g
<1>3. f \in Nat /\ g \in Nat /\ g <= f /\ f <= g
  BY <1>1, <1>2
<1>. QED  BY <1>3 DEF f, g

\* A set of slots that is not empty has a member with the longest literal.
LEMMA LongestExists ==
    ASSUME NEW N \in Nat, NEW T \in SUBSET (1 .. N), T # {}, NEW len \in [T -> Nat]
    PROVE  \E i \in T : \A j \in T : len[j] <= len[i]
<1>. DEFINE UpTo(n) == {i \in T : i <= n}
            HasLongest(n) == \E i \in UpTo(n) : \A j \in UpTo(n) : len[j] <= len[i]
            Bad == {n \in Nat : UpTo(n) # {} /\ ~HasLongest(n)}
<1>1. \A i \in T : i \in Nat /\ 1 <= i /\ i <= N /\ len[i] \in Nat
  OBVIOUS
<1>2. Bad = {}
  <2>. SUFFICES ASSUME Bad # {} PROVE FALSE
    OBVIOUS
  <2>1. PICK n \in Bad : \A m \in Bad : n <= m
    <3>1. Bad \in SUBSET Nat
      OBVIOUS
    <3>. HIDE DEF Bad
    <3>. QED  BY <3>1, LeastExists
  <2>2. n \in Nat /\ n # 0 /\ n - 1 \in Nat /\ n - 1 \notin Bad
    <3>1. n \in Nat /\ UpTo(n) # {}
      BY <2>1
    <3>2. n # 0
      <4>1. PICK i \in T : i <= n
        BY <3>1
      <4>. QED  BY <1>1, <3>1, <4>1
    <3>3. n - 1 \in Nat /\ ~(n <= n - 1)
      BY <3>1, <3>2
    <3>4. n - 1 \notin Bad
      BY <2>1, <3>3
    <3>. QED  BY <3>1, <3>2, <3>3, <3>4
  <2>3. UpTo(n) = UpTo(n - 1) \cup {i \in T : i = n}
    <3>1. \A i \in T : i <= n <=> i <= n - 1 \/ i = n
      <4>1. n \in Nat /\ \A i \in T : i \in Nat
        BY <1>1, <2>2
      <4>. QED  BY ONLY <4>1
    <3>. QED  BY <3>1
  <2>4. CASE n \notin T
    <3>1. UpTo(n) = UpTo(n - 1)
      BY <2>3, <2>4
    <3>2. UpTo(n) # {} /\ ~HasLongest(n) /\ n - 1 \in Nat
      BY <2>1, <2>2
    <3>3. HasLongest(n) <=> HasLongest(n - 1)
      BY <3>1
    <3>. HIDE DEF UpTo, HasLongest
    <3>4. n - 1 \in Bad
      BY <3>1, <3>2, <3>3
    <3>. QED  BY <2>2, <3>4
  <2>5. CASE n \in T /\ UpTo(n - 1) = {}
    <3>1. UpTo(n) = {n}
      BY <2>3, <2>5
    <3>2. len[n] <= len[n]
      BY <1>1, <2>5
    <3>3. HasLongest(n)
      BY <3>1, <3>2
    <3>. QED  BY <2>1, <3>3
  <2>6. CASE n \in T /\ UpTo(n - 1) # {}
    <3>1. HasLongest(n - 1)
      BY <2>2, <2>6
    <3>2. PICK i \in UpTo(n - 1) : \A j \in UpTo(n - 1) : len[j] <= len[i]
      BY <3>1
    <3>3. len[i] \in Nat /\ len[n] \in Nat /\ \A j \in UpTo(n - 1) : len[j] \in Nat
      BY <1>1, <2>6
    <3>4. CASE len[n] <= len[i]
      <4>1. i \in UpTo(n) /\ \A j \in UpTo(n) : len[j] <= len[i]
        BY <2>3, <3>2, <3>4
      <4>. QED  BY <2>1, <4>1
    <3>5. CASE ~(len[n] <= len[i])
      <4>1. \A j \in UpTo(n - 1) : len[j] <= len[n]
        BY <3>2, <3>3, <3>5
      <4>2. n \in UpTo(n) /\ \A j \in UpTo(n) : len[j] <= len[n]
        BY <2>2, <2>3, <2>6, <3>3, <4>1
      <4>. QED  BY <2>1, <4>2
    <3>. QED  BY <3>4, <3>5
  <2>. QED  BY <2>4, <2>5, <2>6
<1>3. UpTo(N) = T
  BY <1>1
<1>4. HasLongest(N)
  BY <1>1, <1>2, <1>3
<1>. QED  BY <1>3, <1>4

\* Detection answers with a registered codec, or with none.
LEMMA SniffSlotIn ==
    ASSUME registry \in Seq(VtableType), NEW x, SniffSlot(x) # 0
    PROVE  SniffSlot(x) \in Slots
<1>. DEFINE lits  == {i \in Slots : registry[i].magic_len > 0 /\ x \in registry[i].magic}
            long  == {i \in lits : \A j \in lits : registry[j].magic_len <= registry[i].magic_len}
            preds == {i \in Slots : x \in registry[i].sniff}
<1>1. lits \in SUBSET Slots /\ long \in SUBSET Slots /\ preds \in SUBSET Slots
      /\ Slots \subseteq Nat
  BY DEF Slots
<1>2. lits # {} => long # {}
  <2>1. \A i : i \in long <=> i \in lits /\ \A j \in lits :
                                 registry[j].magic_len <= registry[i].magic_len
    OBVIOUS
  <2>. DEFINE len == [i \in lits |-> registry[i].magic_len]
  <2>2. Len(registry) \in Nat /\ lits \in SUBSET (1 .. Len(registry))
    BY DEF Slots
  <2>. SUFFICES ASSUME lits # {} PROVE long # {}
    OBVIOUS
  <2>4. \A i \in lits : registry[i].magic_len \in Nat
    <3>. TAKE i \in lits
    <3>1. registry[i] \in VtableType
      BY DEF Slots
    <3>. QED  BY <3>1 DEF VtableType
  <2>5. len \in [lits -> Nat]
    BY <2>4
  <2>3. \A i \in lits : len[i] = registry[i].magic_len
    OBVIOUS
  <2>. HIDE DEF lits, long, len
  <2>6. PICK i \in lits : \A j \in lits : len[j] <= len[i]
    BY <2>2, <2>5, LongestExists
  <2>7. \A j \in lits : registry[j].magic_len <= registry[i].magic_len
    BY <2>3, <2>6
  <2>. QED  BY <2>1, <2>6, <2>7
<1>3. SniffSlot(x) = IF lits # {} THEN FirstSlot(long)
                     ELSE IF preds # {} THEN FirstSlot(preds) ELSE 0
  BY DEF SniffSlot
<1>. HIDE DEF lits, long, preds
<1>4. CASE lits # {}
  BY <1>1, <1>2, <1>3, <1>4, FirstSlotIn
<1>5. CASE lits = {} /\ preds # {}
  BY <1>1, <1>3, <1>5, FirstSlotIn
<1>. QED  BY <1>3, <1>4, <1>5

----------------------------------------------------------------------------
\* A name that resolves keeps its codec when a vtable is appended: the
\* declared table is scanned first, then the earlier registrations.
LEMMA AppendKeepsLookups ==
    ASSUME registry \in Seq(VtableType), NEW v \in VtableType,
           registry' = Append(registry, v)
    PROVE  /\ \A n : Lookup(n) # ZU_CODEC_NONE => Lookup(n)' = Lookup(n)
           /\ \A t : FromContentEncoding(t) # ZU_CODEC_NONE =>
                 FromContentEncoding(t)' = FromContentEncoding(t)
<1>. DEFINE n0 == Len(registry) + 1
<1>1. /\ n0 \in Nat /\ Slots \subseteq Nat /\ \A i \in Slots : i <= n0
      /\ \A i \in Slots : registry'[i] = registry[i]
      /\ Slots' = Slots \cup {n0}
  BY AppendSlots DEF Slots
<1>. HIDE DEF n0
<1>2. ASSUME NEW n, Lookup(n) # ZU_CODEC_NONE
      PROVE  Lookup(n)' = Lookup(n)
  <2>1. CASE \E d \in Declared : d.name = n
    BY <2>1 DEF Lookup
  <2>2. CASE ~\E d \in Declared : d.name = n
    <3>. DEFINE S == {i \in Slots : registry[i].name = n}
                T == {i \in Slots' : registry'[i].name = n}
    <3>1. S \in SUBSET Nat /\ T \in SUBSET Nat /\ S \subseteq T
          /\ \A t \in T \ S : \A s \in S : s <= t
      BY <1>1
    <3>2. S # {} /\ Lookup(n) = registry[FirstSlot(S)].codec
      BY <1>2, <2>2 DEF Lookup
    <3>3. T # {} /\ Lookup(n)' = registry'[FirstSlot(T)].codec
      BY <2>2, <3>1, <3>2 DEF Lookup
    <3>4. S \subseteq Slots
      OBVIOUS
    <3>. HIDE DEF S, T
    <3>5. FirstSlot(T) = FirstSlot(S) /\ FirstSlot(S) \in S
      BY <3>1, <3>2, FirstSlotStays, FirstSlotIn
    <3>. QED  BY <1>1, <3>2, <3>3, <3>4, <3>5
  <2>. QED  BY <2>1, <2>2
<1>3. ASSUME NEW t, FromContentEncoding(t) # ZU_CODEC_NONE
      PROVE  FromContentEncoding(t)' = FromContentEncoding(t)
  <2>1. CASE \E d \in Declared : SameToken(d.ce, t)
    BY <2>1 DEF FromContentEncoding, SameToken
  <2>2. CASE ~\E d \in Declared : SameToken(d.ce, t)
    <3>. DEFINE S == {i \in Slots : SameToken(registry[i].ce, t)}
                T == {i \in Slots' : SameToken(registry'[i].ce, t)}
    <3>1. S \in SUBSET Nat /\ T \in SUBSET Nat /\ S \subseteq T
          /\ \A u \in T \ S : \A s \in S : s <= u
      BY <1>1
    <3>2. S # {} /\ FromContentEncoding(t) = registry[FirstSlot(S)].codec
      BY <1>3, <2>2 DEF FromContentEncoding
    <3>3. T # {} /\ FromContentEncoding(t)' = registry'[FirstSlot(T)].codec
      BY <2>2, <3>1, <3>2 DEF FromContentEncoding, SameToken
    <3>4. S \subseteq Slots
      OBVIOUS
    <3>. HIDE DEF S, T
    <3>5. FirstSlot(T) = FirstSlot(S) /\ FirstSlot(S) \in S
      BY <3>1, <3>2, FirstSlotStays, FirstSlotIn
    <3>. QED  BY <1>1, <3>2, <3>3, <3>4, <3>5
  <2>. QED  BY <2>1, <2>2
<1>. QED  BY <1>2, <1>3

\* An appended vtable takes an input from the codec that detected it only
\* with a literal, and from a literal only with a longer one: among the
\* longest the earliest wins, and the new one is the latest.
LEMMA AppendKeepsDetection ==
    ASSUME registry \in Seq(VtableType), NEW v \in VtableType,
           registry' = Append(registry, v), NEW x,
           SniffSlot(x) # 0, SniffSlot(x)' # SniffSlot(x)
    PROVE  /\ x \in registry'[SniffSlot(x)'].magic
           /\ x \in registry[SniffSlot(x)].magic /\ registry[SniffSlot(x)].magic_len > 0
                 => registry'[SniffSlot(x)'].magic_len > registry[SniffSlot(x)].magic_len
<1>. DEFINE n0    == Len(registry) + 1
            lits  == {i \in Slots : registry[i].magic_len > 0 /\ x \in registry[i].magic}
            long  == {i \in lits : \A j \in lits : registry[j].magic_len <= registry[i].magic_len}
            preds == {i \in Slots : x \in registry[i].sniff}
            lits2 == {i \in Slots' : registry'[i].magic_len > 0 /\ x \in registry'[i].magic}
            long2 == {i \in lits2 : \A j \in lits2 :
                                       registry'[j].magic_len <= registry'[i].magic_len}
            preds2 == {i \in Slots' : x \in registry'[i].sniff}
            old   == SniffSlot(x)
            new   == SniffSlot(x)'
<1>1. /\ n0 \in Nat /\ Slots \subseteq Nat /\ \A i \in Slots : i < n0
      /\ \A i \in Slots : registry'[i] = registry[i]
      /\ Slots' = Slots \cup {n0} /\ Slots' = 1 .. n0
      /\ registry' \in Seq(VtableType) /\ Len(registry') = n0
  BY AppendSlots DEF Slots
<1>2. \A i \in Slots' : registry'[i].magic_len \in Nat
  <2>. TAKE i \in Slots'
  <2>1. registry'[i] \in VtableType
    BY <1>1
  <2>. QED  BY <2>1 DEF VtableType
<1>. HIDE DEF n0
<1>3. /\ old = IF lits # {} THEN FirstSlot(long)
               ELSE IF preds # {} THEN FirstSlot(preds) ELSE 0
      /\ new = IF lits2 # {} THEN FirstSlot(long2)
               ELSE IF preds2 # {} THEN FirstSlot(preds2) ELSE 0
  BY DEF SniffSlot
<1>4. old \in Slots
  BY SniffSlotIn
<1>5. /\ lits \in SUBSET Nat /\ long \in SUBSET Nat /\ preds \in SUBSET Nat
      /\ lits2 \in SUBSET (1 .. n0) /\ long2 \in SUBSET Nat /\ preds2 \in SUBSET Nat
      /\ lits \subseteq lits2 /\ preds \subseteq preds2
      /\ \A t \in preds2 \ preds : \A s \in preds : s <= t
      /\ \A i \in lits2 : i \in lits \/ i = n0
  BY <1>1
<1>6. lits2 # {} => long2 # {}
  <2>. SUFFICES ASSUME lits2 # {} PROVE long2 # {}
    OBVIOUS
  <2>8. lits2 # {}
    OBVIOUS
  <2>. DEFINE len == [i \in lits2 |-> registry'[i].magic_len]
  <2>1. len \in [lits2 -> Nat] /\ \A i \in lits2 : len[i] = registry'[i].magic_len
    BY <1>2
  <2>2. \A i : i \in long2 <=> i \in lits2 /\ \A j \in lits2 :
                                 registry'[j].magic_len <= registry'[i].magic_len
    OBVIOUS
  <2>. HIDE DEF lits2, long2, len
  <2>4. n0 \in Nat /\ lits2 \in SUBSET (1 .. n0) /\ len \in [lits2 -> Nat]
    BY <1>1, <1>5, <2>1
  <2>3. PICK i \in lits2 : \A j \in lits2 : len[j] <= len[i]
    BY ONLY <2>8, <2>4, LongestExists
  <2>. QED  BY <2>1, <2>2, <2>3
<1>7. CASE lits2 = {}
  <2>1. lits = {} /\ preds # {} /\ old = FirstSlot(preds)
    BY <1>3, <1>5, <1>7
  <2>2. new = FirstSlot(preds2)
    BY <1>3, <1>5, <1>7, <2>1
  <2>. HIDE DEF lits, lits2, preds, preds2, long, long2
  <2>3. new = old
    BY <1>5, <2>1, <2>2, FirstSlotStays
  <2>. QED  BY <2>3
<1>8. CASE lits2 # {}
  <2>1. new \in long2 /\ \A j \in long2 : new <= j
    <3>. HIDE DEF lits, lits2, preds, preds2, long, long2
    <3>. QED  BY <1>3, <1>5, <1>6, <1>8, FirstSlotLeast
  <2>2. x \in registry'[new].magic
    BY <2>1
  <2>3. ASSUME x \in registry[old].magic, registry[old].magic_len > 0
        PROVE  registry'[new].magic_len > registry[old].magic_len
    <3>1. old \in lits
      BY <1>4, <2>3
    <3>2. old \in long /\ \A j \in long : old <= j
      <4>1. long # {}
        <5>. DEFINE len == [i \in lits |-> registry'[i].magic_len]
        <5>2. len \in [lits -> Nat] /\ \A i \in lits : len[i] = registry[i].magic_len
          BY <1>1, <1>2
        <5>3. lits \in SUBSET (1 .. n0)
          BY <1>5
        <5>4. \A i : i \in long <=> i \in lits /\ \A j \in lits :
                                 registry[j].magic_len <= registry[i].magic_len
          OBVIOUS
        <5>. HIDE DEF lits, long, len
        <5>1. n0 \in Nat /\ len \in [lits -> Nat] /\ lits # {}
          BY <1>1, <3>1, <5>2
        <5>5. PICK i \in lits : \A j \in lits : len[j] <= len[i]
          BY ONLY <5>1, <5>3, LongestExists
        <5>. QED  BY <5>2, <5>4, <5>5
      <4>2. old = FirstSlot(long)
        BY <1>3, <3>1
      <4>. HIDE DEF lits, long, old
      <4>. QED  BY <1>5, <4>1, <4>2, FirstSlotLeast
    <3>3. old \in lits2 /\ registry'[old] = registry[old]
      BY <1>1, <1>4, <1>5, <3>1
    <3>4. registry[old].magic_len <= registry'[new].magic_len
      BY <2>1, <3>3
    <3>5. registry[old].magic_len \in Nat /\ registry'[new].magic_len \in Nat
      BY <1>2, <2>1, <3>3
    <3>. SUFFICES ASSUME registry'[new].magic_len = registry[old].magic_len PROVE FALSE
      <4>. DEFINE b == registry'[new].magic_len
                  a == registry[old].magic_len
      <4>1. a \in Nat /\ b \in Nat /\ a <= b
        BY <3>4, <3>5
      <4>. HIDE DEF a, b
      <4>2. b # a => b > a
        BY <4>1
      <4>. QED  BY <4>2 DEF a, b
    <3>6. old \in long2
      BY <2>1, <3>3
    <3>7. new <= old /\ new \in Nat /\ old \in Nat
      BY <1>1, <1>4, <1>5, <2>1, <3>6
    <3>8. new # n0
      BY <1>1, <1>4, <3>7
    <3>9. new \in lits /\ registry'[new] = registry[new]
      BY <1>1, <1>5, <2>1, <3>8
    <3>10. new \in long
      BY <3>2, <3>9
    <3>11. old <= new
      BY <3>2, <3>10
    <3>. QED  BY <3>7, <3>11
  <2>. QED  BY <2>2, <2>3
<1>. QED  BY <1>7, <1>8

\* What a registration may change for somebody who already relies on a name,
\* a token or the detection of an input.
THEOREM RegistrationNeverSteals == Spec => RegistrationIsConservative
<1>. DEFINE Conservative ==
       /\ \A n \in Names : Lookup(n) # ZU_CODEC_NONE => Lookup(n)' = Lookup(n)
       /\ \A t \in Tokens : FromContentEncoding(t) # ZU_CODEC_NONE =>
             FromContentEncoding(t)' = FromContentEncoding(t)
       /\ \A x \in Inputs :
             LET old == SniffSlot(x)
                 new == SniffSlot(x)'
             IN  (old # 0 /\ new # old) =>
                    /\ x \in registry'[new].magic
                    /\ x \in registry[old].magic /\ registry[old].magic_len > 0
                          => registry'[new].magic_len > registry[old].magic_len
<1>1. IInv /\ [Next]_vars => [Conservative]_vars
  <2>. SUFFICES ASSUME IInv, [Next]_vars PROVE Conservative
    OBVIOUS
  <2>0. registry \in Seq(VtableType)
    BY DEF IInv, TypeOK
  <2>1. CASE UNCHANGED registry
    <3>1. /\ \A n : Lookup(n)' = Lookup(n)
          /\ \A t : FromContentEncoding(t)' = FromContentEncoding(t)
          /\ \A x : SniffSlot(x)' = SniffSlot(x)
      BY <2>1 DEF Lookup, FromContentEncoding, SameToken, SniffSlot, Slots
    <3>. QED  BY <3>1
  <2>2. ASSUME NEW v \in VtableType, registry' = Append(registry, v)
        PROVE  Conservative
    BY <2>0, <2>2, AppendKeepsLookups, AppendKeepsDetection
  <2>3. ASSUME NEW v \in VtableType, Register(v)
        PROVE  Conservative
    BY <2>1, <2>2, <2>3 DEF Register
  <2>4. CASE LoadBuiltin
    <3>1. load + 1 \in 1 .. Len(Builtin)
      BY <2>4, RegistryAssumption DEF IInv, TypeOK, LoadBuiltin, Loaded
    <3>. QED  BY <2>3, <2>4, <3>1, OfferedTypes DEF LoadBuiltin
  <2>5. ASSUME NEW v \in Satellites, RegisterSatellite(v)
        PROVE  Conservative
    BY <2>3, <2>5, OfferedTypes DEF RegisterSatellite
  <2>. HIDE DEF Conservative
  <2>. QED  BY <2>1, <2>4, <2>5 DEF Next, vars, CheckCodecName
<1>2. Spec => [][Conservative]_vars
  BY <1>1, Inductive, PTL DEF Spec
<1>. QED  BY <1>2 DEF RegistrationIsConservative

----------------------------------------------------------------------------
(***************************************************************************)
(* The user-level calls.                                                   *)
(***************************************************************************)
\* A call is a step of the registry or none, so everything proved of the
\* registry holds while calls run.
THEOREM CallsImplementRegistry == RSpec => Spec
<1>1. RInit => Init
  BY DEF RInit
<1>2. [RNext]_rvars => [Next]_vars
  <2>. SUFFICES ASSUME [RNext]_rvars PROVE [Next]_vars
    OBVIOUS
  <2>1. ASSUME NEW name \in Names, CheckCodecName(name)
        PROVE  Next
    BY <2>1 DEF Next
  <2>. QED  BY <2>1 DEF RNext, rvars, KompCompress, KompDecompress,
                        KompDecompressAuto, CallReturns
<1>. QED  BY <1>1, <1>2, PTL DEF RSpec, Spec

----------------------------------------------------------------------------
\* A limit that passed the check is the number that was asked for.
LEMMA LimitKept ==
    ASSUME NEW a, a.kind \in {"null", "na", "inf", "num"}, a.halves \in Int,
           NEW upper, ZuCheckLimit(a, upper) # Raised
    PROVE  \/ a.kind \in {"null", "inf"} /\ ZuCheckLimit(a, upper).level = 0
           \/ a.kind = "num" /\ a.halves = 2 * ZuCheckLimit(a, upper).level
<1>1. CASE a.kind \in {"null", "inf"}
  BY <1>1 DEF ZuCheckLimit, PassLevel
<1>2. CASE a.kind = "na"
  BY <1>2 DEF ZuCheckLimit
<1>3. CASE a.kind = "num"
  <2>1. ZuCheckLimit(a, upper) = PassLevel(Value(a)) /\ Whole(a)
    BY <1>3 DEF ZuCheckLimit
  <2>2. a.halves = 2 * Value(a)
    BY <2>1 DEF Whole, Value
  <2>. QED  BY <1>3, <2>1, <2>2 DEF PassLevel
<1>. QED  BY <1>1, <1>2, <1>3

\* ... and narrows to the C ABI's integer.
LEMMA LimitFits ==
    ASSUME NEW a, a.kind \in {"null", "na", "inf", "num"}, a.halves \in Int,
           NEW upper \in Nat, ZuCheckLimit(a, upper) # Raised
    PROVE  NarrowsTo(ZuCheckLimit(a, upper).level, upper)
<1>1. CASE a.kind \in {"null", "inf"}
  BY <1>1 DEF ZuCheckLimit, PassLevel, NarrowsTo
<1>2. CASE a.kind = "na"
  BY <1>2 DEF ZuCheckLimit
<1>3. CASE a.kind = "num"
  BY <1>3 DEF ZuCheckLimit, PassLevel, NarrowsTo, Value
<1>. QED  BY <1>1, <1>2, <1>3

\* The limits a decompression opens its decoder with.
LEMMA DecompressLimits ==
    ASSUME NEW name, NEW x, NEW m \in LimitArgs,
           NEW d, d = Decompress(name, x, m), d.status = ZU_OK
    PROVE  \A p \in {<<d.asked.out, d.out>>, <<d.asked.ratio, d.ratio>>} :
              \/ p[1].kind \in {"null", "inf"} /\ p[2] = 0
              \/ p[1].kind = "num" /\ p[1].halves = 2 * p[2]
<1>. DEFINE o == ZuCheckLimit(m.out, RealMax)
            r == ZuCheckLimit(m.ratio, IntMax)
<1>1. o # Raised /\ r # Raised
  <2>. SUFFICES ASSUME Raised \in {o, r} PROVE FALSE
    OBVIOUS
  <2>. HIDE DEF o, r
  <2>1. d.status = NotAsked
    BY DEF Decompress, o, r
  <2>. QED  BY <2>1 DEF NotAsked, ZU_OK
<1>2. /\ m.out.kind \in {"null", "na", "inf", "num"} /\ m.out.halves \in Int
      /\ m.ratio.kind \in {"null", "na", "inf", "num"} /\ m.ratio.halves \in Int
  BY CallAssumption
<1>3. d.asked = m /\ d.out = o.level /\ d.ratio = r.level
  BY DEF Decompress
<1>. HIDE DEF o, r
<1>4. \/ m.out.kind \in {"null", "inf"} /\ o.level = 0
      \/ m.out.kind = "num" /\ m.out.halves = 2 * o.level
  BY <1>1, <1>2, LimitKept DEF o
<1>5. \/ m.ratio.kind \in {"null", "inf"} /\ r.level = 0
      \/ m.ratio.kind = "num" /\ m.ratio.halves = 2 * r.level
  BY <1>1, <1>2, LimitKept DEF r
<1>. QED  BY <1>3, <1>4, <1>5

\* No decompression guard is lost or altered between R and the core.
THEOREM LimitsAreKept == RSpec => []LimitsSurvive
<1>1. RInit => LimitsSurvive
  BY DEF RInit, NoCall, LimitsSurvive
<1>2. LimitsSurvive /\ [RNext]_rvars => LimitsSurvive'
  <2>. SUFFICES ASSUME LimitsSurvive, [RNext]_rvars PROVE LimitsSurvive'
    OBVIOUS
  <2>1. CASE UNCHANGED outcome
    BY <2>1 DEF LimitsSurvive
  <2>2. CASE outcome' = NoCall
    BY <2>2 DEF NoCall, LimitsSurvive
  <2>3. ASSUME NEW name, NEW x, NEW m \in LimitArgs, outcome' = Decompress(name, x, m)
        PROVE  LimitsSurvive'
    BY <2>3, DecompressLimits DEF LimitsSurvive
  <2>4. ASSUME NEW name \in Names, NEW a \in LevelArgs, KompCompress(name, a)
        PROVE  LimitsSurvive'
    <3>1. CASE outcome' = NoCall
      BY <2>2, <3>1
    <3>2. CASE outcome'.call = "compress"
      BY <3>2 DEF LimitsSurvive
    <3>. QED  BY <2>4, <3>1, <3>2 DEF KompCompress
  <2>5. ASSUME NEW name \in Names, NEW m \in LimitArgs, KompDecompress(name, m)
        PROVE  LimitsSurvive'
    BY <2>2, <2>3, <2>5 DEF KompDecompress
  <2>6. ASSUME NEW x \in Inputs, NEW m \in LimitArgs, KompDecompressAuto(x, m)
        PROVE  LimitsSurvive'
    <3>1. CASE outcome'.call = "undetectable"
      BY <3>1 DEF LimitsSurvive
    <3>. QED  BY <2>3, <2>6, <3>1 DEF KompDecompressAuto
  <2>. QED  BY <2>1, <2>2, <2>4, <2>5, <2>6 DEF RNext, rvars, CallReturns
<1>. QED  BY <1>1, <1>2, PTL DEF RSpec

----------------------------------------------------------------------------
\* The name zukomp_detect() reports leads back to the codec that was
\* detected: it is registered, so its name is nobody else's.
LEMMA DetectedNameResolves ==
    ASSUME IInv, LookupsReachTheirOwner, NEW x, Sniff(x) # ZU_CODEC_NONE
    PROVE  Lookup(VtableOf(Sniff(x)).name) = Sniff(x) /\ Registered(Sniff(x))
<1>1. SniffSlot(x) # 0 /\ Sniff(x) = registry[SniffSlot(x)].codec
  BY DEF Sniff
<1>2. PICK i \in Slots : Sniff(x) = registry[i].codec
  BY <1>1, SniffSlotIn DEF IInv, TypeOK
<1>. DEFINE S == {k \in Slots : registry[k].codec = Sniff(x)}
<1>3. i \in S /\ i \in Nat /\ \A j \in S : j = i
  BY <1>2 DEF IInv, Unique, Slots
<1>. HIDE DEF S
<1>4. FirstSlot(S) = i
  BY <1>3, FirstOfOne
<1>5. VtableOf(Sniff(x)) = registry[i]
  BY <1>4 DEF VtableOf, S
<1>6. Lookup(registry[i].name) = registry[i].codec
  BY DEF LookupsReachTheirOwner
<1>. QED  BY <1>2, <1>5, <1>6 DEF Registered

\* Whatever satellites are loaded, bytes that are detected are decoded by the
\* codec that detected them, or refused because it cannot decode.
THEOREM DetectionIsKept == RSpec => []DetectionIsFollowed
<1>1. RInit => DetectionIsFollowed
  BY DEF RInit, NoCall, DetectionIsFollowed
<1>2. IInv /\ LookupsReachTheirOwner /\ DetectionIsFollowed /\ [RNext]_rvars
        => DetectionIsFollowed'
  <2>. SUFFICES ASSUME IInv, LookupsReachTheirOwner, DetectionIsFollowed, [RNext]_rvars
                PROVE  DetectionIsFollowed'
    OBVIOUS
  <2>1. CASE UNCHANGED rvars
    BY <2>1 DEF DetectionIsFollowed, rvars, vars, Sniff, SniffSlot, VtableOf, Slots
  <2>2. CASE outcome' = NoCall
    BY <2>2 DEF NoCall, DetectionIsFollowed
  <2>3. ASSUME NEW name \in Names, NEW a \in LevelArgs, KompCompress(name, a)
        PROVE  DetectionIsFollowed'
    <3>1. CASE outcome'.call = "compress"
      BY <3>1 DEF DetectionIsFollowed
    <3>. QED  BY <2>2, <2>3, <3>1 DEF KompCompress
  <2>4. ASSUME NEW name \in Names, NEW m \in LimitArgs, KompDecompress(name, m)
        PROVE  DetectionIsFollowed'
    <3>1. CASE outcome'.input = "none"
      BY <3>1 DEF DetectionIsFollowed
    <3>. QED  BY <2>2, <2>4, <3>1 DEF KompDecompress, Decompress
  <2>5. ASSUME NEW x \in Inputs, NEW m \in LimitArgs, KompDecompressAuto(x, m)
        PROVE  DetectionIsFollowed'
    <3>1. CASE Sniff(x) = ZU_CODEC_NONE
      BY <2>5, <3>1 DEF KompDecompressAuto, DetectionIsFollowed
    <3>2. CASE Sniff(x) # ZU_CODEC_NONE
      <4>1. /\ Lookup(VtableOf(Sniff(x)).name) = Sniff(x)
            /\ Registered(Sniff(x))
        BY <3>2, DetectedNameResolves
      <4>2. /\ outcome' = Decompress(VtableOf(Sniff(x)).name, x, m)
            /\ UNCHANGED vars
        BY <2>5, <3>2 DEF KompDecompressAuto
      <4>3. outcome'.codec = Sniff(x) /\ outcome'.input = x
        BY <4>1, <4>2 DEF Decompress
      <4>4. Sniff(x)' = Sniff(x) /\ VtableOf(Sniff(x))' = VtableOf(Sniff(x))
        <5>1. registry' = registry /\ Slots' = Slots
          BY <4>2 DEF vars, Slots
        <5>2. SniffSlot(x)' = SniffSlot(x)
          BY <5>1 DEF SniffSlot, FirstSlot
        <5>3. Sniff(x)' = Sniff(x)
          BY <5>1, <5>2 DEF Sniff
        <5>. QED  BY <5>1, <5>3 DEF VtableOf, FirstSlot
      <4>5. outcome'.status # NotAsked =>
              (outcome'.status = ZU_OK <=> VtableOf(Sniff(x)).can_decode)
        <5>. DEFINE o == ZuCheckLimit(m.out, RealMax)
                    r == ZuCheckLimit(m.ratio, IntMax)
        <5>. SUFFICES ASSUME outcome'.status # NotAsked
                      PROVE  outcome'.status = ZU_OK <=> VtableOf(Sniff(x)).can_decode
          OBVIOUS
        <5>1. /\ Raised \notin {o, r}
              /\ outcome'.status = DecompressStatus(Sniff(x), o.level, r.level)
          BY <4>1, <4>2 DEF Decompress
        <5>2. NarrowsTo(o.level, RealMax) /\ NarrowsTo(r.level, IntMax)
          BY <5>1, CallAssumption, LimitFits
        <5>3. outcome'.status = ResolveStatus(Sniff(x), FALSE)
          BY <5>1, <5>2 DEF DecompressStatus
        <5>. QED  BY <4>1, <5>3 DEF ResolveStatus, ZU_OK, ZU_ERR_UNSUPPORTED
      <4>6. Sniff(outcome.input)' = Sniff(x)
        BY <4>2, <4>3 DEF vars, Sniff, SniffSlot, Slots
      <4>. QED  BY <4>3, <4>4, <4>5, <4>6 DEF DetectionIsFollowed
    <3>. QED  BY <3>1, <3>2
  <2>. QED  BY <2>1, <2>2, <2>3, <2>4, <2>5 DEF RNext, CallReturns
<1>3. RSpec => []IInv /\ []LookupsReachTheirOwner
  BY CallsImplementRegistry, Inductive, LookupsAreSound, PTL
<1>. QED  BY <1>1, <1>2, <1>3, PTL DEF RSpec

----------------------------------------------------------------------------
\* The one row a name that is available has is that of the codec the core
\* resolves the name to.
LEMMA AvailableRow ==
    ASSUME IInv, NEW name, RowVerdict(Table, name) = "available"
    PROVE  /\ Registered(Lookup(name))
           /\ VtableOf(Lookup(name)) \in VtableType
           /\ (CHOOSE r \in Table : r.id = name) = RowOf(VtableOf(Lookup(name)))
<1>. DEFINE c == Lookup(name)
<1>1. Registered(c)
  BY VerdictsAgree DEF CoreVerdict
<1>2. PICK i \in Slots : registry[i].codec = c
  BY <1>1 DEF Registered
<1>3. VtableOf(c) = registry[i] /\ i \in Nat /\ registry[i] \in VtableType
  <2>. DEFINE S == {k \in Slots : registry[k].codec = c}
  <2>1. i \in S /\ i \in Nat /\ \A j \in S : j = i
    BY <1>2 DEF IInv, Unique, Slots
  <2>2. VtableOf(c) = registry[FirstSlot(S)]
    BY DEF VtableOf
  <2>. HIDE DEF S, c
  <2>3. FirstSlot(S) = i
    BY <2>1, FirstOfOne
  <2>. QED  BY <2>1, <2>2, <2>3 DEF IInv, TypeOK, Slots
<1>4. registry[i].name = name
  <2>1. CASE \E d \in Declared : d.name = name
    <3>. DEFINE d0 == CHOOSE d \in Declared : d.name = name
    <3>1. d0 \in Declared /\ d0.name = name
      BY <2>1
    <3>2. c = d0.codec
      BY <2>1 DEF Lookup
    <3>. QED  BY <1>2, <3>1, <3>2 DEF IInv, DeclarationsHonoured, HonoursDeclarations
  <2>2. CASE ~\E d \in Declared : d.name = name
    <3>. DEFINE S == {k \in Slots : registry[k].name = name}
    <3>1. S # {} /\ c = registry[FirstSlot(S)].codec
      BY <1>1, <2>2 DEF Lookup, Registered
    <3>2. S \in SUBSET Nat
      BY DEF Slots
    <3>3. \A k \in S : k \in Slots /\ registry[k].name = name
      OBVIOUS
    <3>. HIDE DEF S, c
    <3>4. FirstSlot(S) \in S
      BY <3>1, <3>2, FirstSlotIn
    <3>5. FirstSlot(S) = i
      BY <1>2, <3>1, <3>3, <3>4 DEF IInv, Unique
    <3>. QED  BY <3>3, <3>4, <3>5
  <2>. QED  BY <2>1, <2>2
<1>5. RowOf(registry[i]) \in Table /\ RowOf(registry[i]).id = name
  <2>1. CASE IsDeclared(c)
    <3>1. PICK d \in Declared : d.codec = c
      BY <2>1 DEF IsDeclared
    <3>. QED  BY <1>1, <1>3, <1>4, <3>1 DEF Table, RowOf
  <2>2. CASE ~IsDeclared(c)
    BY <1>2, <1>4, <2>2 DEF Table, RowOf
  <2>. QED  BY <2>1, <2>2
<1>6. \A r \in Table : r.id = name => r = RowOf(registry[i])
  <2>. DEFINE hits == {r \in Table : r.id = name}
  <2>1. ~\E r, q \in hits : r # q
    BY <1>5 DEF RowVerdict
  <2>. QED  BY <1>5, <2>1
<1>7. (CHOOSE r \in Table : r.id = name) = RowOf(registry[i])
  BY <1>5, <1>6
<1>. QED  BY <1>1, <1>3, <1>7

\* What the core reads from what R hands it.
LEMMA FromSexp ==
    /\ PassNull # Raised /\ LevelFromSexp(PassNull).ok
    /\ LevelFromSexp(PassNull).level = ZU_LEVEL_DEFAULT
    /\ \A n : /\ PassLevel(n) # Raised /\ LevelFromSexp(PassLevel(n)).level = n
              /\ LevelFromSexp(PassLevel(n)).ok <=> n # NA
<1>1. PassNull.kind = "null" /\ Raised.kind = "raised"
  BY DEF PassNull, Raised
<1>2. \A n : PassLevel(n).kind = "level" /\ PassLevel(n).level = n
  BY DEF PassLevel
<1>3. \A q : LevelFromSexp(q).ok = (q.kind = "null" \/ q.level # NA)
  BY DEF LevelFromSexp
<1>4. \A q : LevelFromSexp(q).level = IF q.kind = "null" THEN ZU_LEVEL_DEFAULT ELSE q.level
  BY DEF LevelFromSexp
<1>5. LevelFromSexp(PassNull).ok
  BY <1>1, <1>3
<1>6. \A n : LevelFromSexp(PassLevel(n)).ok <=> n # NA
  BY <1>2, <1>3
<1>. QED  BY <1>1, <1>2, <1>4, <1>5, <1>6

\* What the two layers make of a level, for a registered codec.
LEMMA LevelVerdict ==
    ASSUME NEW v \in VtableType, NEW a \in LevelArgs, NEW p, NEW l, NEW status,
           p = ZuCheckLevel(RowOf(v), a), l = LevelFromSexp(p),
           status = IF p = Raised THEN NotAsked
                    ELSE IF ~l.ok THEN ZU_ERR_INVALID_ARGUMENT
                    ELSE IF ~v.can_encode THEN ZU_ERR_UNSUPPORTED
                    ELSE IF ~CheckLevel(v, l.level) THEN ZU_ERR_INVALID_ARGUMENT
                    ELSE ZU_OK
    PROVE  /\ status = ZU_OK /\ l.level = ZU_LEVEL_DEFAULT =>
                 \/ a.kind = "null"
                 \/ a.kind = "name" /\ (a.name = "default" \/ NoLevels(v) \/ v.level_min = NA)
           /\ status = ZU_OK /\ a.kind = "num" => 2 * l.level = a.halves
           /\ v.can_encode /\ LevelsAreReadable(v) =>
                 /\ a.kind = "num" =>
                       (status = ZU_OK <=> /\ Whole(a) /\ Value(a) # ZU_LEVEL_DEFAULT
                                           /\ CheckLevel(v, Value(a)))
                 /\ a.kind = "name" => (status = ZU_OK <=> a.name \in {"fast", "default", "best"})
                 /\ status = ZU_OK \/ status = NotAsked
<1>. DEFINE lv == RowOf(v).levels
<1>1. /\ a.kind \in {"null", "name", "na", "inf", "num"} /\ a.halves \in Int
      /\ IntMax \in Nat /\ NA = -IntMax - 1 /\ ZU_LEVEL_DEFAULT = -IntMax - 1
  BY CallAssumption DEF NA
<1>2. /\ v.level_min \in Int /\ v.level_max \in Int
      /\ NA <= v.level_min /\ v.level_max <= IntMax
  BY <1>1 DEF VtableType, Int32
<1>3. lv = LevelColumns(v)
  BY DEF RowOf
<1>4. lv.min = NA <=> NoLevels(v) \/ v.level_min = NA
  BY <1>3 DEF LevelColumns, NoColumns
<1>5. ~NoLevels(v) => /\ lv.min = v.level_min /\ lv.max = v.level_max
                      /\ lv.fast = LevelFast(v) /\ lv.best = LevelBest(v)
  BY <1>3 DEF LevelColumns
<1>6. CASE a.kind = "null"
  <2>1. p = PassNull
    BY <1>6 DEF ZuCheckLevel
  <2>2. p # Raised /\ l.ok /\ l.level = ZU_LEVEL_DEFAULT
    BY <2>1, FromSexp
  <2>3. CheckLevel(v, l.level)
    BY <2>2 DEF CheckLevel
  <2>. QED  BY <1>6, <2>2, <2>3
<1>7. CASE a.kind = "name"
  <2>1. p = LevelFromName(RowOf(v), a.name)
    BY <1>7 DEF ZuCheckLevel
  <2>2. CASE a.name \notin {"fast", "default", "best"}
    BY <1>7, <2>1, <2>2 DEF LevelFromName, NotAsked, ZU_OK
  <2>3. CASE /\ a.name \in {"fast", "default", "best"}
             /\ lv.min = NA \/ a.name = "default"
    <3>1. p = PassNull
      BY <2>1, <2>3 DEF LevelFromName
    <3>2. p # Raised /\ l.ok /\ l.level = ZU_LEVEL_DEFAULT
      BY <3>1, FromSexp
    <3>3. CheckLevel(v, l.level)
      BY <3>2 DEF CheckLevel
    <3>. QED  BY <1>4, <1>7, <2>3, <3>2, <3>3
  <2>4. CASE /\ a.name \in {"fast", "default", "best"}
             /\ lv.min # NA /\ a.name # "default"
    <3>. DEFINE n == IF a.name = "fast" THEN lv.fast ELSE lv.best
    <3>1. p = PassLevel(n)
      BY <2>1, <2>4 DEF LevelFromName
    <3>2. ~NoLevels(v) /\ n \in {LevelFast(v), LevelBest(v)}
      BY <1>4, <1>5, <2>4
    <3>. HIDE DEF n, lv
    <3>3. p # Raised /\ l.level = n /\ (l.ok <=> n # NA)
      BY <3>1, FromSexp
    <3>4. LevelsAreReadable(v) => n # NA /\ CheckLevel(v, n)
      BY <3>2 DEF LevelsAreReadable
    <3>5. NA = ZU_LEVEL_DEFAULT
      BY DEF NA
    <3>. QED  BY <1>7, <2>4, <3>3, <3>4, <3>5 DEF ZU_OK, ZU_ERR_INVALID_ARGUMENT
  <2>. QED  BY <2>2, <2>3, <2>4
<1>8. CASE a.kind \in {"na", "inf"}
  BY <1>8 DEF ZuCheckLevel, Whole, NotAsked, ZU_OK
<1>9. CASE a.kind = "num"
  <2>. DEFINE n == Value(a)
              Out == \/ ~Whole(a) \/ n > IntMax \/ n < -IntMax
                     \/ lv.min = NA /\ n # 0
                     \/ lv.min # NA /\ (n < lv.min \/ n > lv.max)
  <2>1. p = IF Out THEN Raised ELSE PassLevel(n)
    BY <1>9 DEF ZuCheckLevel
  <2>2. n \in Int /\ (Whole(a) => a.halves = 2 * n)
    BY <1>1 DEF Value, Whole
  <2>3. CASE Out
    <3>1. status = NotAsked /\ NotAsked # ZU_OK
      BY <2>1, <2>3 DEF NotAsked, ZU_OK
    <3>2. LevelsAreReadable(v) => ~(Whole(a) /\ n # ZU_LEVEL_DEFAULT /\ CheckLevel(v, n))
      <4>. SUFFICES ASSUME v.level_min # NA, Whole(a), n # ZU_LEVEL_DEFAULT, CheckLevel(v, n)
                    PROVE  FALSE
        BY DEF LevelsAreReadable
      <4>1. CASE NoLevels(v)
        BY <1>1, <1>4, <2>2, <2>3, <4>1 DEF CheckLevel
      <4>2. CASE ~NoLevels(v)
        <5>1. n >= v.level_min /\ n <= v.level_max
          BY <4>2 DEF CheckLevel
        <5>2. n <= IntMax /\ n >= -IntMax
          BY <1>1, <1>2, <2>2, <5>1
        <5>3. lv.min # NA /\ lv.min = v.level_min /\ lv.max = v.level_max
          BY <1>4, <1>5, <4>2
        <5>. HIDE DEF lv, n
        <5>. QED  BY <1>1, <1>2, <2>2, <2>3, <5>1, <5>2, <5>3
      <4>. QED  BY <4>1, <4>2
    <3>. QED  BY <1>9, <3>1, <3>2
  <2>4. CASE ~Out
    <3>1. p = PassLevel(n)
      BY <2>1, <2>4
    <3>2. n # NA /\ n # ZU_LEVEL_DEFAULT
      BY <1>1, <2>2, <2>4
    <3>3. p # Raised /\ l.level = n /\ l.ok
      <4>. HIDE DEF n
      <4>. QED  BY <3>1, <3>2, FromSexp
    <3>4. v.level_min # NA => CheckLevel(v, n)
      <4>. SUFFICES ASSUME v.level_min # NA PROVE CheckLevel(v, n)
        OBVIOUS
      <4>. HIDE DEF lv, n
      <4>1. CASE NoLevels(v)
        BY <1>4, <2>4, <4>1 DEF CheckLevel
      <4>2. CASE ~NoLevels(v)
        <5>1. lv.min # NA /\ lv.min = v.level_min /\ lv.max = v.level_max
          BY <1>4, <1>5, <4>2
        <5>. QED  BY <1>2, <2>2, <2>4, <4>2, <5>1 DEF CheckLevel
      <4>. QED  BY <4>1, <4>2
    <3>5. LevelsAreReadable(v) => CheckLevel(v, n)
      BY <3>4 DEF LevelsAreReadable
    <3>. HIDE DEF lv
    <3>. QED  BY <1>9, <2>2, <2>4, <3>2, <3>3, <3>5
  <2>. QED  BY <2>3, <2>4
<1>. QED  BY <1>1, <1>6, <1>7, <1>8, <1>9

\* Whatever level a user passes, R and the core agree about it, and no level
\* is lost on the way to the encoder.
THEOREM LevelsAlwaysAgree == RSpec => []LevelsAgree
<1>1. RInit => LevelsAgree
  BY DEF RInit, NoCall, LevelsAgree
<1>2. IInv /\ LevelsAgree /\ [RNext]_rvars => LevelsAgree'
  <2>. SUFFICES ASSUME IInv, LevelsAgree, [RNext]_rvars PROVE LevelsAgree'
    OBVIOUS
  <2>1. CASE UNCHANGED rvars
    BY <2>1 DEF LevelsAgree, rvars, vars, VtableOf, Slots
  <2>2. CASE outcome'.call # "compress"
    BY <2>2 DEF LevelsAgree
  <2>3. ASSUME NEW name \in Names, NEW a \in LevelArgs, KompCompress(name, a)
        PROVE  LevelsAgree'
    <3>1. CASE outcome' = NoCall
      BY <2>2, <3>1 DEF NoCall
    <3>2. CASE outcome' # NoCall
      <4>. DEFINE v == VtableOf(Lookup(name))
                  row == CHOOSE r \in cache'.rows : r.id = name
                  p == ZuCheckLevel(row, a)
                  l == LevelFromSexp(p)
      <4>1. CheckCodecName(name) /\ answer'.r = "available"
        BY <2>3, <3>2 DEF KompCompress
      <4>2. cache'.rows = Table
        <5>1. Refreshed.rows = Table
          BY DEF Refreshed, IInv, CacheIsHonest, TypeOK
        <5>. QED  BY <4>1, <5>1 DEF CheckCodecName
      <4>3. RowVerdict(Table, name) = "available"
        BY <4>1, <4>2 DEF CheckCodecName
      <4>4. Registered(Lookup(name)) /\ v \in VtableType /\ row = RowOf(v)
        BY <4>2, <4>3, AvailableRow
      <4>5. v' = v
        BY <4>1 DEF CheckCodecName, VtableOf, Lookup, Slots
      <4>6. outcome' = [call |-> "compress", codec |-> Lookup(name), asked |-> a,
                        status |-> IF p = Raised THEN NotAsked
                                   ELSE CompressStatus(Lookup(name), l),
                        level |-> l.level]
        BY <2>3, <4>1 DEF KompCompress
      <4>. HIDE DEF row, p, l
      <4>7. outcome'.status = IF p = Raised THEN NotAsked
                              ELSE IF ~l.ok THEN ZU_ERR_INVALID_ARGUMENT
                              ELSE IF ~v.can_encode THEN ZU_ERR_UNSUPPORTED
                              ELSE IF ~CheckLevel(v, l.level) THEN ZU_ERR_INVALID_ARGUMENT
                              ELSE ZU_OK
        BY <4>4, <4>6 DEF CompressStatus, ResolveStatus, ZU_OK, ZU_ERR_UNSUPPORTED
      <4>8. VtableOf(outcome.codec)' = v
        <5>1. outcome'.codec = Lookup(name) /\ registry' = registry
          BY <4>1, <4>6 DEF CheckCodecName
        <5>. QED  BY <5>1 DEF VtableOf, Slots
      <4>9. outcome'.asked = a /\ outcome'.level = l.level
        BY <4>6
      <4>10. p = ZuCheckLevel(RowOf(v), a) /\ l = LevelFromSexp(p)
        BY <4>4 DEF p, l
      <4>. DEFINE st == outcome'.status
      <4>. HIDE DEF v, st
      <4>11. /\ st = ZU_OK /\ l.level = ZU_LEVEL_DEFAULT =>
                 \/ a.kind = "null"
                 \/ a.kind = "name" /\ (a.name = "default" \/ NoLevels(v) \/ v.level_min = NA)
             /\ st = ZU_OK /\ a.kind = "num" => 2 * l.level = a.halves
             /\ v.can_encode /\ LevelsAreReadable(v) =>
                 /\ a.kind = "num" =>
                       (st = ZU_OK <=> /\ Whole(a) /\ Value(a) # ZU_LEVEL_DEFAULT
                                       /\ CheckLevel(v, Value(a)))
                 /\ a.kind = "name" => (st = ZU_OK <=> a.name \in {"fast", "default", "best"})
                 /\ st = ZU_OK \/ st = NotAsked
        BY <4>4, <4>7, <4>10, LevelVerdict DEF st
      <4>. QED  BY <4>8, <4>9, <4>11 DEF LevelsAgree, st
    <3>. QED  BY <3>1, <3>2
  <2>4. CASE outcome' = NoCall
    BY <2>2, <2>4 DEF NoCall
  <2>5. ASSUME NEW name \in Names, NEW m \in LimitArgs, KompDecompress(name, m)
        PROVE  LevelsAgree'
    BY <2>2, <2>4, <2>5 DEF KompDecompress, Decompress
  <2>6. ASSUME NEW x \in Inputs, NEW m \in LimitArgs, KompDecompressAuto(x, m)
        PROVE  LevelsAgree'
    BY <2>2, <2>6 DEF KompDecompressAuto, Decompress
  <2>. QED  BY <2>1, <2>3, <2>4, <2>5, <2>6 DEF RNext, CallReturns
<1>3. RSpec => []IInv
  BY CallsImplementRegistry, Inductive, PTL
<1>. QED  BY <1>1, <1>2, <1>3, PTL DEF RSpec
=============================================================================
