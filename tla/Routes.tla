------------------------------- MODULE Routes -------------------------------
(***************************************************************************)
(* The HTTP front ends: the axum router of md-docrs-server (server.rs), the *)
(* hand-written one of md-docrs-worker (lib.rs), from the request to the   *)
(* ItemSpec that is rendered and the status it is answered with, and the   *)
(* Worker around the Zig build (zig/src/index.ts), which answers a URL.    *)
(* A request's path is the sequence of its segments, a segment a text in   *)
(* which a rustdoc kind ("struct.") and ".html" are one character each.    *)
(***************************************************************************)
EXTENDS SpecText

CONSTANTS
    Requests,    \* the requests a client may make
    Documented,  \* crate docs.rs has -> the item paths it documents
    NoQuery      \* a query parameter that is not there

\* A path has no space and nothing else that a URL escapes.
Segments == Seq(Chars \ (Spaces \cup {"/"}))

\* What split('/') gives between two slashes and after the last one.
Empty == <<>>

ItemSpec(c, v, t, p) == [crate |-> c, version |-> v, target |-> t, path |-> p]

\* What fits a route: "{crate_name}" and "{version}" take no empty segment, for
\* which axum has a 404 of its own.
Fits(segs) ==
    /\ segs \in Seq(Segments) \ {<<>>}
    /\ segs = <<Empty>> \/ segs[1] # Empty
    /\ Len(segs) > 2 => segs[2] # Empty

Given(value) == value = NoQuery \/ value \in Seq(Chars)

\* A crate that docs.rs has is named by crates.io's rules, which
\* is_valid_crate_name repeats.
ASSUME RoutesAssumption ==
    /\ \A q \in Requests : Fits(q.segs) /\ Given(q.spec) /\ Given(q.target)
    /\ NoQuery \notin Seq(Chars)
    /\ DOMAIN Documented \subseteq {c \in Segments : ValidName(c)}
    /\ \A c \in DOMAIN Documented : Documented[c] \subseteq Seq(Segments \ {Empty})

VARIABLES
    request,   \* [segs, spec, target]: the path and two query parameters
    server,    \* what md-docrs-server answers, or NoQuery
    worker,    \* what md-docrs-worker answers, or NoQuery
    zigWorker  \* what the Zig Worker answers, or NoQuery

routesVars == <<request, server, worker, zigWorker>>

-----------------------------------------------------------------------------
(* What the two that render do with a path                                 *)

NonEmpty[segs \in Seq(Segments)] ==
    IF segs = <<>> THEN <<>>
    ELSE IF Head(segs) = Empty THEN NonEmpty[Tail(segs)]
    ELSE <<Head(segs)>> \o NonEmpty[Tail(segs)]

\* The prefixes each of the two copies of strip_kind_prefix takes off.
ServerKinds ==
    {"struct.", "enum.", "trait.", "fn.", "type.", "constant.", "static.", "macro.",
     "union.", "primitive.", "derive.", "attr."}

WorkerKinds ==
    {"struct.", "enum.", "trait.", "fn.", "type.", "constant.", "static.", "macro.",
     "union.", "primitive.", "derive.", "attr."}

Html == ".html"

\* A bug either could have had (no specification uses a Mutant; it takes the
\* place of the definition after it): the suffix and the kind both left.
MutantStripKindPrefix(seg, kinds) == seg

\* strip_kind_prefix, and the segment itself where it finds no kind: then
\* the suffix stays as well.
StripKindPrefix(seg, kinds) ==
    LET bare == IF seg # Empty /\ seg[Len(seg)] = Html THEN SubSeq(seg, 1, Len(seg) - 1) ELSE seg
    IN  IF bare # Empty /\ bare[1] \in kinds THEN Tail(bare) ELSE seg

\* Only the last segment is stripped.
LastStripped(parts, kinds) ==
    IF parts = <<>> THEN <<>> ELSE [parts EXCEPT ![Len(parts)] = StripKindPrefix(@, kinds)]

ParseRest(rest) == LastStripped(NonEmpty[rest], ServerKinds)

ParseRestSegments(segs) == LastStripped(segs, WorkerKinds)

\* serve: the crate's own name in front of the path is left out.
ItemPath(c, segs) ==
    IF segs # <<>> /\ Head(segs) = c THEN Tail(segs) ELSE segs

\* render_spec and error_to_response: docs.rs has no such crate, or no page
\* with a target of no length in its URL; the crate has no such item; or here
\* it is.
Rendered(spec) ==
    [status |-> IF spec.crate \notin DOMAIN Documented \/ spec.target = <<>> THEN 502
                ELSE IF spec.path = <<>> \/ spec.path \in Documented[spec.crate]
                THEN 200 ELSE 404,
     spec |-> spec]

Text(status) == [status |-> status, spec |-> NoQuery]

Healthz == <<"healthz">>
Kv == <<"kv">>

-----------------------------------------------------------------------------
(* md-docrs-server: the first route that fits; no handler reads the query  *)

Drop(segs, n) == SubSeq(segs, n + 1, Len(segs))

ServerResponse(q) ==
    LET segs == q.segs
        root == Drop(segs, 2) \in {<<>>, <<Empty>>}
    IN  IF segs = <<Empty>> THEN Text(200)
        ELSE IF segs = <<Healthz>> THEN Text(200)
        ELSE IF Len(segs) = 1 \/ (Len(segs) = 2 /\ segs[2] = Empty)
        THEN Rendered(ItemSpec(segs[1], Latest, NoQuery, <<>>))
        ELSE IF root THEN Rendered(ItemSpec(segs[1], segs[2], NoQuery, <<>>))
        ELSE Rendered(ItemSpec(segs[1], segs[2], NoQuery,
                               ItemPath(segs[1], ParseRest(Drop(segs, 2)))))

-----------------------------------------------------------------------------
(* md-docrs-worker: the query first, then fixed paths, then the segments   *)

SpecResponse(q) ==
    LET spec == RustParse(q.spec)
    IN  IF spec = None THEN Text(400)
        ELSE Rendered(ItemSpec(spec.crate, spec.version, q.target, spec.path))

\* A path of exactly crate and version answered as if it had no version.
MutantPathResponse(q) ==
    LET segs == NonEmpty[q.segs]
        version == IF Len(segs) > 2 THEN segs[2] ELSE Latest
    IN  Rendered(ItemSpec(segs[1], version, q.target,
                          ItemPath(segs[1], ParseRestSegments(Drop(segs, 2)))))

PathResponse(q) ==
    LET segs == NonEmpty[q.segs]
        version == IF Len(segs) >= 2 THEN segs[2] ELSE Latest
    IN  Rendered(ItemSpec(segs[1], version, q.target,
                          ItemPath(segs[1], ParseRestSegments(Drop(segs, 2)))))

WorkerResponse(q) ==
    IF q.spec # NoQuery THEN SpecResponse(q)
    ELSE IF NonEmpty[q.segs] = <<>> THEN Text(200)
    ELSE IF q.segs \in {<<Healthz>>, <<Kv>>} THEN Text(200)
    ELSE PathResponse(q)

-----------------------------------------------------------------------------
(* The Zig Worker: the query, or else the whole path, read as a spec       *)

Slashed[segs \in Seq(Segments)] ==
    IF segs = <<>> THEN <<>> ELSE <<"/">> \o Head(segs) \o Slashed[Tail(segs)]

\* The pathname without the slash it starts with.
PathText(segs) == Head(segs) \o Slashed[Tail(segs)]

\* The usage message is a 400 as well; so is a URL that OUT_CAP has no room for.
ResolvedWith(q, target) ==
    LET spec == IF q.spec # NoQuery THEN q.spec ELSE PathText(q.segs)
        url == Resolved(ZigParse(spec), IF target = NoQuery THEN <<>> ELSE target)
    IN  IF url = <<>> THEN Text(400) ELSE [status |-> 200, url |-> url]

\* The target taken with a spec in the query only.
MutantZigResponse(q) == ResolvedWith(q, IF q.spec = NoQuery THEN NoQuery ELSE q.target)

ZigResponse(q) == ResolvedWith(q, q.target)

-----------------------------------------------------------------------------
RoutesInit ==
    /\ request \in Requests
    /\ server = NoQuery
    /\ worker = NoQuery
    /\ zigWorker = NoQuery

Serve ==
    /\ server = NoQuery
    /\ server' = ServerResponse(request)
    /\ UNCHANGED <<request, worker, zigWorker>>

Work ==
    /\ worker = NoQuery
    /\ worker' = WorkerResponse(request)
    /\ UNCHANGED <<request, server, zigWorker>>

ResolveUrl ==
    /\ zigWorker = NoQuery
    /\ zigWorker' = ZigResponse(request)
    /\ UNCHANGED <<request, server, worker>>

RoutesNext == Serve \/ Work \/ ResolveUrl

RoutesSpec == RoutesInit /\ [][RoutesNext]_routesVars

-----------------------------------------------------------------------------
\* Where both answer a path without a query, they answer it alike: the router
\* and the hand-written one agree on slashes, versions, kinds and the crate's
\* name in front; only /kv is the worker's own.
FrontEndsAgree ==
    /\ server # NoQuery /\ worker # NoQuery
    /\ request.spec = NoQuery /\ request.target = NoQuery
    /\ request.segs # <<Kv>>
    => server = worker

\* rustdoc's kinds of pages, but traitalias and keyword.
PageKinds ==
    {"struct.", "enum.", "union.", "trait.", "fn.", "type.", "constant.", "static.",
     "macro.", "derive.", "attr.", "primitive."}

\* The docs.rs page of an item: crate, version, library, modules, kind.Name.html,
\* where the library has the name of its crate.  Modules and crates have an
\* index.html instead.
Page(c, v, path, kind) ==
    <<c, v, c>> \o SubSeq(path, 1, Len(path) - 1)
        \o <<(<<kind>> \o path[Len(path)]) \o <<Html>>>>

IsPage(segs, c, path) ==
    Len(segs) > 2 /\ \E kind \in PageKinds : segs = Page(c, segs[2], path, kind)

\* The docs.rs page of a documented item that is no module is answered with that
\* item, by both, but for a target of no length, with which docs.rs has no page.
PagesAreFound ==
    request.spec = NoQuery /\ request.target # <<>> =>
        \A c \in DOMAIN Documented : \A path \in Documented[c] \ {<<>>} :
            IsPage(request.segs, c, path) =>
                \A response \in {server, worker} \ {NoQuery} :
                    /\ response.status = 200
                    /\ response.spec.crate = c /\ response.spec.version = request.segs[2]
                    /\ response.spec.path = path

\* build_url, for which a target of no length is one.
DocsUrl(s) == BuildUrl(s, IF s.target = NoQuery THEN <<>> ELSE <<"/">> \o s.target)

\* No request has the two Workers look for two crates.  A spec in the query,
\* with no space but ASCII's around it, is refused by the Zig Worker where the
\* other refuses it, and where its URL is too long.  A path is read as a spec
\* by one and as segments by the other: if the other finds the crate there is at
\* docs.rs, then the first has that crate's URL or none.  The URL is the one
\* the Rust Worker downloads, if the target has a length.
WorkersAgree ==
    worker # NoQuery /\ zigWorker # NoQuery
        /\ (IF request.spec = NoQuery THEN worker.status # 502
            ELSE Trim(request.spec, AsciiSpace) = Trim(request.spec, Spaces)) =>
        /\ request.spec # NoQuery /\ worker.status = 400 => zigWorker.status = 400
        /\ worker.spec # NoQuery /\ request.target # <<>> =>
              LET url == DocsUrl(worker.spec)
              IN  /\ zigWorker.status = 200 => zigWorker.url = url
                  /\ request.spec # NoQuery => (zigWorker.status = 400 <=> Bytes(url) > OutCap)
=============================================================================
