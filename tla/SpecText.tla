------------------------------ MODULE SpecText ------------------------------
(***************************************************************************)
(* How a spec is read and a URL written, twice: ItemSpec::parse and        *)
(* build_docs_rs_url in Rust (md-docrs-core/src/spec.rs,                   *)
(* md-docrs-rust-wasm/src/lib.rs) and ItemSpec.parse, buildUrl and         *)
(* resolveUrl in Zig (zig/lib/spec.zig, url.zig, resolve.zig).  A text is  *)
(* a sequence of characters.                                               *)
(***************************************************************************)
EXTENDS Integers, Sequences, FiniteSetsExt

CONSTANTS
    Letters, Digits, AsciiSpace, OtherSpace, Others,
    MaxNameLength,  \* MAX_NAME_LENGTH: 64 in the code
    OutCap,         \* out_cap, in bytes
    None

Punctuation == {"@", ":", "-", "_", "/"}

\* "latest" is one character, as no property looks inside it.
Chars ==
    Letters \cup Digits \cup AsciiSpace \cup OtherSpace \cup Others \cup Punctuation
        \cup {"latest"}

Spaces == AsciiSpace \cup OtherSpace

\* What a character is, it is alone.
ASSUME TextAssumption ==
    /\ (Letters \cup Digits) \cap (Spaces \cup Punctuation) = {}
    /\ Spaces \cap Punctuation = {}
    /\ None \notin Seq(Seq(Chars))

\* A character that is not ASCII takes two bytes or more.
Width(c) == IF c \in OtherSpace THEN 2 ELSE 1

Bytes(text) == Len(text) + Cardinality({i \in DOMAIN text : Width(text[i]) = 2})

-----------------------------------------------------------------------------
(* What both standard libraries offer                                      *)

Trim(text, space) ==
    LET kept == {i \in DOMAIN text : text[i] \notin space}
    IN  IF kept = {} THEN <<>> ELSE SubSeq(text, Min(kept), Max(kept))

Found(text, sep) ==
    {i \in 1..(Len(text) - Len(sep) + 1) : SubSeq(text, i, i + Len(sep) - 1) = sep}

Has(text, sep) == Found(text, sep) # {}
Before(text, sep) == SubSeq(text, 1, Min(Found(text, sep)) - 1)
After(text, sep) == SubSeq(text, Min(Found(text, sep)) + Len(sep), Len(text))

Path == <<":", ":">>
At == <<"@">>

Split[text \in Seq(Chars)] ==
    IF Has(text, Path) THEN <<Before(text, Path)>> \o Split[After(text, Path)] ELSE <<text>>

Word(text, more) == \A i \in DOMAIN text : text[i] \in Letters \cup Digits \cup more

\* is_valid_crate_name, isValidCrateName
ValidName(text) ==
    /\ text # <<>> /\ Len(text) <= MaxNameLength
    /\ Head(text) \in Letters
    /\ Word(Tail(text), {"-", "_"})

\* is_valid_ident, isValidIdent
ValidIdent(text) == text # <<>> /\ Word(text, {"_"})

Parsed(c, v, path) == [crate |-> c, version |-> v, path |-> path]

Latest == <<"latest">>

-----------------------------------------------------------------------------
(* Rust: the version, the name and then the path                           *)

\* Segments of no length passed over.
MutantRustParse(raw) ==
    LET text == Trim(raw, Spaces)
        parts == SelectSeq(Split[text], LAMBDA part : part # <<>>)
        head == IF parts = <<>> THEN <<>> ELSE Head(parts)
        name == IF Has(head, At) THEN Before(head, At) ELSE head
        version == IF Has(head, At) THEN After(head, At) ELSE Latest
    IN  IF \/ parts = <<>> \/ version = <<>> \/ ~ValidName(name)
           \/ \E i \in DOMAIN Tail(parts) : ~ValidIdent(Tail(parts)[i])
        THEN None
        ELSE Parsed(name, version, Tail(parts))

RustParse(raw) ==
    LET text == Trim(raw, Spaces)
        head == IF Has(text, Path) THEN Before(text, Path) ELSE text
        rest == IF Has(text, Path) THEN After(text, Path) ELSE <<>>
        path == IF rest = <<>> THEN <<>> ELSE Split[rest]
        name == IF Has(head, At) THEN Before(head, At) ELSE head
        version == IF Has(head, At) THEN After(head, At) ELSE Latest
    IN  IF \/ text = <<>> \/ name = <<>> \/ version = <<>>
           \/ ~ValidName(name)
           \/ \E i \in DOMAIN path : ~ValidIdent(path[i])
        THEN None
        ELSE Parsed(name, version, path)

-----------------------------------------------------------------------------
(* Zig: the path first, segment by segment                                 *)

\* The segments up to the first that is no identifier, or None.
ZigPath[rest \in Seq(Chars)] ==
    LET seg == IF Has(rest, Path) THEN Before(rest, Path) ELSE rest
        more == IF Has(rest, Path) THEN ZigPath[After(rest, Path)] ELSE <<>>
    IN  IF ~ValidIdent(seg) \/ more = None THEN None ELSE <<seg>> \o more

\* The last occurrence of "@" parts name and version.
MutantZigVersion(head) ==
    IF ~Has(head, At) THEN [crate |-> head, version |-> Latest]
    ELSE LET i == Max(Found(head, At))
         IN  [crate |-> SubSeq(head, 1, i - 1), version |-> SubSeq(head, i + 1, Len(head))]

ZigVersion(head) ==
    IF ~Has(head, At) THEN [crate |-> head, version |-> Latest]
    ELSE LET i == Min(Found(head, At))
         IN  [crate |-> SubSeq(head, 1, i - 1), version |-> SubSeq(head, i + 1, Len(head))]

ZigParse(raw) ==
    LET trimmed == Trim(raw, AsciiSpace)
        i == IF Has(trimmed, Path) THEN Min(Found(trimmed, Path)) ELSE Len(trimmed) + 1
        rest == SubSeq(trimmed, i + 2, Len(trimmed))
        path == IF rest = <<>> THEN <<>> ELSE ZigPath[rest]
        h == ZigVersion(SubSeq(trimmed, 1, i - 1))
    IN  IF path = None \/ h.version = <<>> \/ ~ValidName(h.crate)
        THEN None ELSE Parsed(h.crate, h.version, path)

-----------------------------------------------------------------------------
BuildUrl(s, segment) ==
    <<"https://docs.rs/crate/">> \o s.crate \o <<"/">> \o s.version
        \o segment \o <<"/json/57.zst">>

\* build_docs_rs_url, buildUrl: the path is not part of it; a target of no
\* length is no target.
Url(s, t) == BuildUrl(s, IF t = <<>> THEN <<>> ELSE <<"/">> \o t)

\* The buffer takes the URL whole or not at all.
Write(url) == IF Bytes(url) > OutCap THEN <<>> ELSE url

Resolved(parsed, t) == IF parsed = None THEN <<>> ELSE Write(Url(parsed, t))
=============================================================================
