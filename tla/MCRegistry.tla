----------------------------- MODULE MCRegistry -----------------------------
(* Three declared codecs, two of them built in, and satellites that are    *)
(* well behaved, squat on a name or token, use a reserved number, compete  *)
(* for the same input, or advertise odd levels.                            *)
EXTENDS RCalls

Lowest == -8     \* the integer below -IntMax, INT32_MIN

MCNames  == {"gzip", "zlib", "brotli", "x", "y"}
MCTokens == {"gz", "GZ", "br", "tok", "TOK"}

MCLower == [t \in MCTokens |-> CASE t = "GZ" -> "gz" [] t = "TOK" -> "tok" [] OTHER -> t]

MCDeclared == {[codec |-> 1, name |-> "zlib",   ce |-> NoToken],
               [codec |-> 2, name |-> "gzip",   ce |-> "gz"],
               [codec |-> 3, name |-> "brotli", ce |-> "br"]}

\* DEFLATE's shape of levels: the floor of the range is not "fast".
V(codec, name, ce, len, magic, sniff) ==
    [sound |-> TRUE, codec |-> codec, name |-> name, ce |-> ce,
     magic_len |-> len, magic |-> magic, sniff |-> sniff,
     can_encode |-> TRUE, can_decode |-> TRUE, named |-> TRUE,
     level_min |-> 0, level_max |-> 3, level_default |-> 2,
     level_fast |-> 1, level_best |-> 3]

WithLevels(v, min, max, def, fast, best) ==
    [v EXCEPT !.level_min = min, !.level_max = max, !.level_default = def,
              !.level_fast = fast, !.level_best = best]

MCBuiltin == <<V(1, "zlib", NoToken, 0, {}, {"i1"}), V(2, "gzip", "gz", 2, {"i2"}, {})>>

MCSatellites ==
    {V(3, "brotli", "br",  0, {}, {}),          \* implements a declared codec
     V(3, "brotli", "TOK", 0, {}, {}),          \* the same, with another token
     V(3, "x", NoToken, 0, {}, {}),             \* a declared number, another name
     V(3, "brotli", "GZ", 0, {}, {}),           \* ... another codec's token
     V(10, "gzip", NoToken, 0, {}, {}),         \* squats on a built-in's name
     V(10, "brotli", NoToken, 0, {}, {"i3"}),   \* ... on a name only declared
     V(10, "x", "GZ", 0, {}, {}),               \* squats on a built-in's token
     V(11, "x", "br", 0, {}, {}),               \* ... on a token only declared
     V(10, "x", "tok", 3, {"i1", "i2"}, {}),    \* a longer literal
     V(11, "y", "TOK", 2, {"i2"}, {}),          \* the same token, an equal literal
     V(11, "y", NoToken, 2, {"i1", "i2"}, {"i1", "i3"}),
     V(11, "x", NoToken, 0, {}, {"i3"}),        \* somebody else's name
     V(10, "y", NoToken, 0, {}, {"i3"}),        \* somebody else's number
     V(5, "y", NoToken, 0, {}, {}),             \* the reserved gap
     [V(12, "y", NoToken, 0, {}, {}) EXCEPT !.sound = FALSE],
     V(0, "y", NoToken, 0, {}, {}),
     WithLevels(V(13, "x", NoToken, 0, {}, {}), 0, 0, 0, 0, 0),      \* no levels
     WithLevels(V(13, "x", NoToken, 0, {}, {}), -7, 3, 1, -5, 3),    \* negative ones
     WithLevels(V(13, "x", NoToken, 0, {}, {}), NA, 3, 1, -5, 3),    \* R reads NA
     WithLevels(V(13, "x", NoToken, 0, {}, {}), 0, 3, 1, NA, 3),     \* "fast" reads NA
     WithLevels(V(13, "x", NoToken, 0, {}, {}), 0, 3, 1, 1, 7),      \* "best" is out of range
     [V(13, "x", NoToken, 0, {}, {}) EXCEPT !.named = FALSE],        \* an older vtable
     [V(13, "x", NoToken, 0, {}, {}) EXCEPT !.can_encode = FALSE],
     [V(13, "x", NoToken, 2, {"i3"}, {}) EXCEPT !.can_decode = FALSE]}

MCInputs == {"i1", "i2", "i3"}

Num(halves) == [kind |-> "num", halves |-> halves, name |-> ""]
Arg(kind)   == [kind |-> kind, halves |-> 0, name |-> ""]
Str(name)   == [kind |-> "name", halves |-> 0, name |-> name]

\* Around 0, a fraction, and the ends of the integer range and one past them.
MCLevelArgs ==
    {Num(n) : n \in {-16, -14, -10, 0, 1, 2, 6, 8, 14, 16}}
    \cup {Str(n) : n \in {"fast", "default", "best", "faster"}}
    \cup {Arg("null"), Arg("na"), Arg("inf")}

MCOutputs == {Num(n) : n \in {-2, 0, 1, 3, 16, 18, 20}} \cup {Arg("null"), Arg("na"), Arg("inf")}
MCRatios  == {Num(n) : n \in {1, 4, 14, 16}} \cup {Arg("null")}

MCLimitArgs == [out : MCOutputs, ratio : {Arg("null")}] \cup [out : {Num(18)}, ratio : MCRatios]
=============================================================================
