----------------------------- MODULE SpecParse ------------------------------
(***************************************************************************)
(* resolve_url of the two builds, on one spec and one target.              *)
(***************************************************************************)
EXTENDS SpecText

CONSTANTS
    Texts,   \* the specs a host may pass
    Targets  \* and the targets, the empty text included

ASSUME ParseAssumption == Texts \subseteq Seq(Chars)

VARIABLES
    spec, target,  \* what the host passes
    rust, zig      \* what each build wrote: a URL, <<>> for 0, None before

parseVars == <<spec, target, rust, zig>>

-----------------------------------------------------------------------------
ParseInit ==
    /\ spec \in Texts
    /\ target \in Targets
    /\ rust = None
    /\ zig = None

Rust ==
    /\ rust = None
    /\ rust' = Resolved(RustParse(spec), target)
    /\ UNCHANGED <<spec, target, zig>>

Zig ==
    /\ zig = None
    /\ zig' = Resolved(ZigParse(spec), target)
    /\ UNCHANGED <<spec, target, rust>>

ParseNext == Rust \/ Zig

ParseSpec == ParseInit /\ [][ParseNext]_parseVars

-----------------------------------------------------------------------------
\* The grammar of spec.rs, read as what a text may be made of: a name, an
\* optional version, identifiers each after "::"; "::" may also end a root.
Joined[path \in Seq(Seq(Chars))] ==
    IF path = <<>> THEN <<>> ELSE Path \o Head(path) \o Joined[Tail(path)]

Written(s) ==
    {s.crate \o v \o p : v \in {At \o s.version} \cup (IF s.version = Latest THEN {<<>>} ELSE {}),
                         p \in {Joined[s.path]} \cup (IF s.path = <<>> THEN {Path} ELSE {})}

\* A version that its surroundings cannot eat into.
Clean(version) == version[Len(version)] \notin Spaces \cup {":"}

\* parse reads a spec off exactly a text that writes it, but for the space
\* around it; and every other text that writes it is read as the same spec,
\* unless its version ends in a space or a colon.
ParseInvertsWriting ==
    LET parsed == RustParse(spec)
    IN  parsed # None =>
            /\ Trim(spec, Spaces) \in Written(parsed)
            /\ Clean(parsed.version) =>
                  \A text \in Written(parsed) : RustParse(text) = parsed

\* The two builds agree on every spec that has no space but ASCII space
\* around it, though they look at name, version and path in another order.
AgreeOnAscii ==
    /\ rust # None /\ zig # None
    /\ Trim(spec, AsciiSpace) = Trim(spec, Spaces)
    => rust = zig
=============================================================================
