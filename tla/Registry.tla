------------------------------ MODULE Registry ------------------------------
(***************************************************************************)
(* The codec registry (zu_registry.c) and the R codec table cached over it *)
(* (R/codecs.R, zukomp_codec_table in zukomp_r.c).  The registry is        *)
(* append-only: the built-in codecs are registered while the DLL loads,    *)
(* satellite packages register theirs at any later time, between any two   *)
(* R-level calls.                                                          *)
(*                                                                         *)
(* A vtable is abstracted to what identifies a codec, what detects it and  *)
(* what it advertises: `sound` says that none of the pointers registration *)
(* insists on is missing and struct_size is large enough, `named` that it  *)
(* also covers level_fast and level_best; magic and sniff are the inputs   *)
(* that match the literal (magic_len bytes long, 0 for none) and that the  *)
(* predicate accepts.                                                      *)
(***************************************************************************)
EXTENDS EncoderRules, Sequences

CONSTANTS
    Names, Tokens,  \* codec names; content-coding tokens
    NoToken,        \* a NULL content_encoding
    Lower,          \* zu_int_ieq compares tokens through this
    Declared,       \* zu_int_declared
    Builtin,        \* the vtables of zu_int_register_builtin_codecs, in order
    Satellites,     \* the vtables other packages may offer
    Inputs,         \* byte strings to detect
    VendorBase,     \* ZU_CODEC_VENDOR_BASE
    Cap             \* ZU_INT_REGISTRY_CAP

ZU_CODEC_NONE == 0

\* The levels are int32_t, of which ZU_LEVEL_DEFAULT is the least.
Int32 == ZU_LEVEL_DEFAULT .. -(ZU_LEVEL_DEFAULT + 1)

VtableType ==
    [sound : BOOLEAN, codec : Nat, name : Names, ce : Tokens \cup {NoToken},
     magic_len : Nat, magic : SUBSET Inputs, sniff : SUBSET Inputs,
     can_encode : BOOLEAN, can_decode : BOOLEAN, named : BOOLEAN,
     level_min : Int32, level_max : Int32, level_default : Int32,
     level_fast : Int32, level_best : Int32]

ASSUME RegistryAssumption ==
    /\ NoToken \notin Tokens
    /\ Lower \in [Tokens -> Tokens]
    /\ Declared \subseteq [codec : Nat \ {ZU_CODEC_NONE}, name : Names,
                           ce : Tokens \cup {NoToken}]
    /\ \A d, e \in Declared :
          d.codec = e.codec \/ d.name = e.name => d = e
    /\ \A d, e \in Declared :
          (d.ce # NoToken /\ e.ce # NoToken /\ Lower[d.ce] = Lower[e.ce]) => d = e
    /\ Builtin \in Seq(VtableType)
    /\ Satellites \subseteq VtableType
    /\ VendorBase \in Nat
    /\ Cap \in Nat

VARIABLES
    load,       \* how many built-ins are registered
    failed,     \* R_init_zukomp raised: the package did not load
    registry,   \* zu_int_registry, up to zu_int_registry_n
    gen,        \* zu_int_registry_gen
    cache,      \* the closure of zu_codec_table: generation and cached frame
    answer      \* the last R-level check of a codec name

vars == <<load, failed, registry, gen, cache, answer>>

NoCache == [gen |-> 0, filled |-> FALSE, rows |-> {}]

Init ==
    /\ load = 0
    /\ failed = FALSE
    /\ registry = <<>>
    /\ gen = 0
    /\ cache = NoCache
    /\ answer = [r |-> "none", c |-> "none"]

----------------------------------------------------------------------------
Slots == 1 .. Len(registry)

Registered(codec) ==
    codec # ZU_CODEC_NONE /\ \E i \in Slots : registry[i].codec = codec

IsDeclared(codec) == \E d \in Declared : d.codec = codec

\* zu_int_ieq, with NULL equal to nothing.
SameToken(a, b) ==
    a # NoToken /\ b # NoToken /\ Lower[a] = Lower[b]

\* Mutant: a declared name is open to any identity.
HonoursOwnDeclaration(v) ==
    /\ \A d \in Declared : d.codec = v.codec => v.name = d.name
    /\ ~IsDeclared(v.codec) => v.codec >= VendorBase

\* Mutant: a declared identity may call itself anything.
HonoursOthersDeclarations(v) ==
    /\ ~IsDeclared(v.codec) => v.codec >= VendorBase
    /\ \A d \in Declared :
          d.codec # v.codec => d.name # v.name /\ ~SameToken(d.ce, v.ce)

\* A declared identity carries its declared name; any other is in the vendor
\* range; nobody takes a name or a token declared for another identity.
HonoursDeclarations(v) ==
    /\ \A d \in Declared : d.codec = v.codec => v.name = d.name
    /\ ~IsDeclared(v.codec) => v.codec >= VendorBase
    /\ \A d \in Declared :
          d.codec # v.codec => d.name # v.name /\ ~SameToken(d.ce, v.ce)

\* Mutant: only names are compared with what is registered.
NoDuplicateName(v) == \A i \in Slots : registry[i].name # v.name

NoDuplicate(v) ==
    \A i \in Slots : registry[i].name # v.name /\ ~SameToken(registry[i].ce, v.ce)

\* Mutant: the table is never full.
RegisterStatusUncapped(v) ==
    IF \/ ~v.sound \/ v.codec = ZU_CODEC_NONE
       \/ Registered(v.codec)
       \/ ~HonoursDeclarations(v)
       \/ ~NoDuplicate(v)
      THEN ZU_ERR_INVALID_ARGUMENT
    ELSE ZU_OK

RegisterStatus(v) ==
    IF \/ ~v.sound \/ v.codec = ZU_CODEC_NONE
       \/ Registered(v.codec)
       \/ ~HonoursDeclarations(v)
       \/ ~NoDuplicate(v)
      THEN ZU_ERR_INVALID_ARGUMENT
    ELSE IF Len(registry) >= Cap THEN ZU_ERR_MEMORY
    ELSE ZU_OK

\* Mutant: the generation does not move.
RegisterQuietly(v) ==
    /\ registry' = IF RegisterStatus(v) = ZU_OK THEN Append(registry, v) ELSE registry
    /\ UNCHANGED gen

\* zu_register_codec.
Register(v) ==
    IF RegisterStatus(v) = ZU_OK
      THEN registry' = Append(registry, v) /\ gen' = gen + 1
      ELSE UNCHANGED <<registry, gen>>

----------------------------------------------------------------------------
Loaded == load = Len(Builtin)

\* zu_int_register_builtin_codecs, one codec a step; a failure makes
\* R_init_zukomp raise and the package does not load.
LoadBuiltin ==
    /\ ~failed /\ ~Loaded
    /\ LET v == Builtin[load + 1]
       IN  /\ Register(v)
           /\ load' = IF RegisterStatus(v) = ZU_OK THEN load + 1 ELSE load
           /\ failed' = (RegisterStatus(v) # ZU_OK)
    /\ UNCHANGED <<cache, answer>>

RegisterSatellite(v) ==
    /\ Loaded
    /\ Register(v)
    /\ UNCHANGED <<load, failed, cache, answer>>

----------------------------------------------------------------------------
(***************************************************************************)
(* Lookups.  Each scans the declared table, then the registry, and the     *)
(* first match wins.                                                       *)
(***************************************************************************)
FirstSlot(S) == CHOOSE i \in S : \A j \in S : i <= j

\* zu_codec_lookup.
Lookup(name) ==
    IF \E d \in Declared : d.name = name
      THEN (CHOOSE d \in Declared : d.name = name).codec
    ELSE LET hits == {i \in Slots : registry[i].name = name}
         IN  IF hits = {} THEN ZU_CODEC_NONE ELSE registry[FirstSlot(hits)].codec

\* zu_codec_from_content_encoding.
FromContentEncoding(token) ==
    IF \E d \in Declared : SameToken(d.ce, token)
      THEN (CHOOSE d \in Declared : SameToken(d.ce, token)).codec
    ELSE LET hits == {i \in Slots : SameToken(registry[i].ce, token)}
         IN  IF hits = {} THEN ZU_CODEC_NONE ELSE registry[FirstSlot(hits)].codec

\* Mutant: of equally long literals the latest wins.
SniffSlotLatest(x) ==
    LET lits  == {i \in Slots : registry[i].magic_len > 0 /\ x \in registry[i].magic}
        long  == {i \in lits : \A j \in lits : registry[j].magic_len <= registry[i].magic_len}
        preds == {i \in Slots : x \in registry[i].sniff}
    IN  IF lits # {} THEN CHOOSE i \in long : \A j \in long : j <= i
        ELSE IF preds # {} THEN FirstSlot(preds)
        ELSE 0

\* zu_sniff: the longest literal that matches, the earliest registered of
\* equals; only without any, the first predicate that accepts.
SniffSlot(x) ==
    LET lits  == {i \in Slots : registry[i].magic_len > 0 /\ x \in registry[i].magic}
        long  == {i \in lits : \A j \in lits : registry[j].magic_len <= registry[i].magic_len}
        preds == {i \in Slots : x \in registry[i].sniff}
    IN  IF lits # {} THEN FirstSlot(long)
        ELSE IF preds # {} THEN FirstSlot(preds)
        ELSE 0

Sniff(x) == IF SniffSlot(x) = 0 THEN ZU_CODEC_NONE ELSE registry[SniffSlot(x)].codec

----------------------------------------------------------------------------
(***************************************************************************)
(* zukomp_codec_table: a row for every declared codec, then one for every  *)
(* registered codec that is not declared.                                  *)
(***************************************************************************)
VtableOf(codec) == registry[FirstSlot({i \in Slots : registry[i].codec = codec})]

\* NA_INTEGER is the same bit pattern as ZU_LEVEL_DEFAULT.
NA == ZU_LEVEL_DEFAULT

\* zu_int_vtable_level_fast and _best: a vtable that predates the names, or
\* leaves both 0, has its default for either.
LevelFast(v) ==
    IF ~v.named \/ (v.level_fast = 0 /\ v.level_best = 0) THEN v.level_default
    ELSE v.level_fast

LevelBest(v) ==
    IF ~v.named \/ (v.level_fast = 0 /\ v.level_best = 0) THEN v.level_default
    ELSE v.level_best

NoColumns == [min |-> NA, max |-> NA, fast |-> NA, best |-> NA]

\* The level columns; NA for a codec without a level axis.
LevelColumns(v) ==
    IF NoLevels(v) THEN NoColumns
    ELSE [min |-> v.level_min, max |-> v.level_max,
          fast |-> LevelFast(v), best |-> LevelBest(v)]

RowOf(v) ==
    [codec |-> v.codec, id |-> v.name, available |-> TRUE, levels |-> LevelColumns(v)]

Table ==
    {IF Registered(d.codec) THEN RowOf(VtableOf(d.codec))
     ELSE [codec |-> d.codec, id |-> d.name, available |-> FALSE, levels |-> NoColumns] :
        d \in Declared}
    \cup
    {RowOf(registry[i]) : i \in {k \in Slots : ~IsDeclared(registry[k].codec)}}

\* zu_codec_table: rebuilt only when the generation has moved.
Refreshed ==
    IF ~cache.filled \/ cache.gen # gen
      THEN [gen |-> gen, filled |-> TRUE, rows |-> Table]
      ELSE cache

\* zu_check_codec_name, against the (possibly cached) table.
RowVerdict(rows, name) ==
    LET hits == {r \in rows : r.id = name}
    IN  IF hits = {} THEN "unknown"
        ELSE IF \E r, q \in hits : r # q THEN "ambiguous"
        ELSE IF \A r \in hits : r.available THEN "available"
        ELSE "reserved"

\* komp_codec_available, which asks the registry.
CoreVerdict(name) ==
    IF Lookup(name) = ZU_CODEC_NONE THEN "unknown"
    ELSE IF Registered(Lookup(name)) THEN "available"
    ELSE "reserved"

\* A user names a codec.
CheckCodecName(name) ==
    /\ Loaded
    /\ cache' = Refreshed
    /\ answer' = [r |-> RowVerdict(cache'.rows, name), c |-> CoreVerdict(name)]
    /\ UNCHANGED <<load, failed, registry, gen>>

Next ==
    \/ LoadBuiltin
    \/ \E v \in Satellites : RegisterSatellite(v)
    \/ \E name \in Names : CheckCodecName(name)

Spec == Init /\ [][Next]_vars

----------------------------------------------------------------------------
RowType == [codec : Nat, id : Names, available : BOOLEAN,
            levels : [min : Int, max : Int, fast : Int, best : Int]]

TypeOK ==
    /\ load \in 0 .. Len(Builtin)
    /\ failed \in BOOLEAN
    /\ registry \in Seq(VtableType)
    /\ Len(registry) <= Cap
    /\ gen \in Nat
    /\ cache \in [gen : Nat, filled : BOOLEAN, rows : SUBSET RowType]

\* No two registrations share an identity, a name or a content-coding token
\* (in any capitalisation), whatever the order in which satellites load.
Unique ==
    \A i, j \in Slots : i # j =>
        /\ registry[i].codec # registry[j].codec
        /\ registry[i].name # registry[j].name
        /\ ~SameToken(registry[i].ce, registry[j].ce)

\* Both public lookups lead back to the codec that registered the name or
\* the token, and its identity to its vtable: nothing registered earlier,
\* later or only declared hides it.
LookupsReachTheirOwner ==
    \A i \in Slots :
        /\ VtableOf(registry[i].codec) = registry[i]
        /\ Lookup(registry[i].name) = registry[i].codec
        /\ registry[i].ce # NoToken =>
              FromContentEncoding(registry[i].ce) = registry[i].codec

\* A cached table that zu_codec_table would hand out again is the table of
\* the registry as it is now.
CacheIsHonest == cache.filled /\ cache.gen = gen => cache.rows = Table

\* The R layer, which goes through the cached table by name, and the core,
\* which goes through the registry by identity, never disagree about a name.
LayersAgree == answer.r = answer.c

\* A registration never takes a name or token from the codec it resolved to,
\* and it takes over the detection of an input only with a longer literal
\* than the one that matched before, or from a predicate.
RegistrationIsConservative ==
    [][/\ \A n \in Names : Lookup(n) # ZU_CODEC_NONE => Lookup(n)' = Lookup(n)
       /\ \A t \in Tokens : FromContentEncoding(t) # ZU_CODEC_NONE =>
             FromContentEncoding(t)' = FromContentEncoding(t)
       /\ \A x \in Inputs :
             LET old == SniffSlot(x)
                 new == SniffSlot(x)'
             IN  (old # 0 /\ new # old) =>
                    /\ x \in registry'[new].magic
                    /\ x \in registry[old].magic /\ registry[old].magic_len > 0
                          => registry'[new].magic_len > registry[old].magic_len
      ]_vars
=============================================================================
