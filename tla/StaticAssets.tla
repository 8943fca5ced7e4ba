--------------------------- MODULE StaticAssets ---------------------------
(* Fingerprinted assets and how static files are served.                    *)
(*                                                                          *)
(* One pass of code generation stages static/assets under static/_app: the  *)
(* size variants of the images that <Image> elements name (images.Build, a  *)
(* goroutine a source), the markup that refers to them (injectImage), and a *)
(* copy of every asset with the table kit.Asset looks up (assets.Build).    *)
(* vite build, which follows when there is a client, writes to static/_app  *)
(* too.  The author may change an asset at any moment and a pass may be     *)
(* killed at any moment.                                                    *)
(*                                                                          *)
(* StaticHandler serves one file, with its precompressed siblings, to one   *)
(* browser that revalidates what it keeps.                                  *)
(*                                                                          *)
(* A file's content is a number; its fingerprint is the number again, since *)
(* two contents of one project never share a SHA-256 prefix.                *)
EXTENDS Integers, FiniteSets, Sequences, SequencesExt

CONSTANTS
    Sources,        \* the paths under static/assets, in their order
    Stem,           \* path |-> base name without extension
    Picture,        \* content |-> its format, width and height
    DefaultWidths,  \* images.DefaultWidths
    RouteWidths,    \* the ImageWidths that routes of the project declare
    FirstAssets,    \* what static/assets may hold at first
    LaterAssets,    \* what the author may put in a path's place, or Gone
    Templates,      \* the sets of <Image> elements a project may hold
    Concurrency,    \* images.BuildOptions.Concurrency
    AcceptHeaders,  \* the Accept-Encoding headers of browsers
    MaxChanges,     \* bound on the author's changes in one behaviour
    MaxStagings     \* bound on the passes in one behaviour

ASSUME SourcesAssumption == Sources \subseteq Nat /\ Concurrency \in Nat \ {0}
ASSUME WidthsAssumption ==
    /\ DefaultWidths \subseteq Nat \ {0} /\ DefaultWidths # {}
    /\ RouteWidths \subseteq SUBSET Int
ASSUME PictureAssumption ==
    /\ 0 \notin DOMAIN Picture
    /\ \A c \in DOMAIN Picture :
          Picture[c].format \in {"jpeg", "png"} => Picture[c].width \in Nat \ {0}
ASSUME AssetsAssumption ==
    /\ FirstAssets \subseteq [Sources -> DOMAIN Picture \cup {0}]
    /\ LaterAssets \subseteq DOMAIN Picture \cup {0}

VARIABLES
    asset,     \* path |-> content or Gone
    elements,  \* the <Image> elements of the templates
    changes,
    staging,   \* where the pass is
    stagings,  \* how many passes there have been
    bundling,  \* whether vite build follows
    widths,    \* the widths of the pass
    work,      \* path |-> the goroutine, or the visit of the walk
    moved,     \* history: whether an asset changed since the pass began
    staged,    \* static/_app/immutable/assets: name |-> file
    variants,  \* images.Plan.Results: path |-> names of its variants
    markup,    \* the <img> tags in the generated pages
    urls       \* assets.Plan.URLs: path |-> name

VARIABLES
    static,    \* "raw", "br" or "gzip" |-> the file and its modification time
    config,    \* kit.StaticConfig
    accept,    \* the browser's Accept-Encoding
    clock,
    serving,   \* the request in the handler
    kept       \* the browser's copy

stageVars == <<asset, elements, changes, staging, stagings, bundling, widths, work, moved,
               staged, variants, markup, urls>>
staticVars == <<static, config, accept, clock, serving, kept>>

Gone == 0
Partial == [of |-> 0, width |-> 0]
NoWork == [at |-> "none", hash |-> Gone, content |-> Gone, left |-> {}]
-----------------------------------------------------------------------------
(* images.Build and assets.Build                                            *)

\* stem.hash.width.ext, and stem.hash.ext for a copy (width 0).
VariantName(s, hash, w) == <<Stem[s], hash, w>>

\* Only <Image ... src="..."> in the text: not another local name for the
\* component, and not src={"..."}.
scanProjectImages == {e.src : e \in {i \in elements : i.tag = "Image" /\ i.value = "quoted"}}

normalizeWidths(ws) == {w \in ws : w > 0}

EffectiveWidths(ws) == IF normalizeWidths(ws) = {} THEN DefaultWidths ELSE normalizeWidths(ws)

scaledHeight(c, w) == (2 * w * Picture[c].height + Picture[c].width) \div (2 * Picture[c].width)

\* scaleBilinear gives the source back when the height is rounded to nothing.
Scaled(c, w) ==
    [of |-> c,
     width |-> IF w < Picture[c].width /\ scaledHeight(c, w) = 0 THEN Picture[c].width ELSE w]

\* The intrinsic size, and the widths that do not enlarge.
WidthsOf(c) == {Picture[c].width} \cup {w \in widths : w < Picture[c].width}

\* The intrinsic size comes first, the others follow in their order.
Turn(s, w) ==
    LET intrinsic == Picture[work[s].content].width IN
    /\ w \in work[s].left
    /\ w = intrinsic \/ (intrinsic \notin work[s].left /\ \A u \in work[s].left : w <= u)

Busy == {s \in Sources : work[s].at \in {"hashed", "emit", "open"}}
Waiting == {s \in Sources : work[s].at = "todo"}
FirstWaiting(s) == s \in Waiting /\ \A t \in Waiting : s <= t

InPass == staging \in {"images", "lower", "copies", "vite"}

At(s, at) == work' = [work EXCEPT ![s].at = at]
Write(name, file) == staged' = [n \in DOMAIN staged \cup {name} |-> IF n = name THEN file ELSE staged[n]]

\* What a file that was opened as c reads as: an editor may write in place.
ReadsAs(s, c) == {c} \cup ({asset[s]} \ {Gone})

\* Those of any route that declares some, in the random order of a Go map.
projectImageWidths == IF RouteWidths \ {{}} = {} THEN {{}} ELSE RouteWidths \ {{}}

buildImageVariants(follows, ws) ==
    /\ ~InPass /\ stagings < MaxStagings
    /\ stagings' = stagings + 1
    /\ bundling' = follows
    /\ moved' = FALSE
    /\ widths' = EffectiveWidths(ws)
    /\ work' = [s \in Sources |-> IF s \in scanProjectImages THEN [NoWork EXCEPT !.at = "todo"] ELSE NoWork]
    /\ variants' = <<>> /\ markup' = {} /\ urls' = <<>>
    /\ staging' = "images"
    /\ UNCHANGED <<asset, elements, changes, staged>>

\* The loop of Build starts the goroutines in order, Concurrency at a time.
hashReader(s) ==
    /\ staging = "images"
    /\ FirstWaiting(s) /\ Cardinality(Busy) < Concurrency
    /\ work' = [work EXCEPT ![s] = [@ EXCEPT !.at = IF asset[s] = Gone THEN "failed" ELSE "hashed",
                                             !.hash = asset[s]]]
    /\ UNCHANGED <<asset, elements, changes, staging, stagings, bundling, widths, moved,
                   staged, variants, markup, urls>>

Decode(s) ==
    /\ staging = "images" /\ work[s].at = "hashed"
    /\ \E c \in ReadsAs(s, work[s].hash) :
          work' = [work EXCEPT ![s] =
                     IF Picture[c].format \in {"jpeg", "png"}
                     THEN [@ EXCEPT !.at = "emit", !.content = c, !.left = WidthsOf(c)]
                     ELSE [@ EXCEPT !.at = "failed"]]
    /\ UNCHANGED <<asset, elements, changes, staging, stagings, bundling, widths, moved,
                   staged, variants, markup, urls>>

\* The variant of width w is out.
Emitted(s, w) ==
    work' = [work EXCEPT ![s].left = @ \ {w}, ![s].at = IF work[s].left = {w} THEN "ok" ELSE "emit"]

\* A fault: a variant that is there is not made again.
OpenVariantUnlessThere(s) ==
    /\ staging = "images" /\ work[s].at = "emit"
    /\ \E w \in work[s].left :
          LET name == VariantName(s, work[s].hash, w) IN
          /\ Turn(s, w)
          /\ IF name \in DOMAIN staged
             THEN Emitted(s, w) /\ UNCHANGED staged
             ELSE Write(name, Partial) /\ At(s, "open")
    /\ UNCHANGED <<asset, elements, changes, staging, stagings, bundling, widths, moved,
                   variants, markup, urls>>

\* os.OpenFile with O_TRUNC.
OpenVariant(s) ==
    /\ staging = "images" /\ work[s].at = "emit"
    /\ \E w \in work[s].left : Turn(s, w) /\ Write(VariantName(s, work[s].hash, w), Partial)
    /\ At(s, "open")
    /\ UNCHANGED <<asset, elements, changes, staging, stagings, bundling, widths, moved,
                   variants, markup, urls>>

encodeImage(s) ==
    /\ staging = "images" /\ work[s].at = "open"
    /\ \E w \in work[s].left :
          /\ Turn(s, w)
          /\ Write(VariantName(s, work[s].hash, w), Scaled(work[s].content, w))
          /\ Emitted(s, w)
    /\ UNCHANGED <<asset, elements, changes, staging, stagings, bundling, widths, moved,
                   variants, markup, urls>>

\* A read, create, encode or close that fails leaves the file as it is.
WorkFails(s) ==
    /\ staging \in {"images", "copies"} /\ s \in Busy
    /\ At(s, "failed")
    /\ UNCHANGED <<asset, elements, changes, staging, stagings, bundling, widths, moved,
                   staged, variants, markup, urls>>

\* The pass ends without a plan; the files it wrote stay.
Broken ==
    /\ staging' = "broken"
    /\ bundling' = FALSE
    /\ widths' = DefaultWidths
    /\ work' = [s \in Sources |-> NoWork]
    /\ variants' = <<>> /\ markup' = {} /\ urls' = <<>>
    /\ UNCHANGED <<asset, elements, changes, stagings, moved, staged>>

Failed == \E s \in Sources : work[s].at = "failed"

\* wg.Wait: the other goroutines run to their end although one has failed.
ImagesDone ==
    /\ staging = "images" /\ Busy = {} /\ Waiting = {} /\ ~Failed
    /\ staging' = "lower"
    /\ variants' = [s \in {t \in Sources : work[t].at = "ok"} |->
                      {VariantName(s, work[s].hash, w) : w \in WidthsOf(work[s].content)}]
    /\ work' = [s \in Sources |-> NoWork]
    /\ UNCHANGED <<asset, elements, changes, stagings, bundling, widths, moved,
                   staged, markup, urls>>

ImagesFail ==
    /\ staging = "images" /\ Busy = {} /\ Waiting = {} /\ Failed
    /\ Broken

-----------------------------------------------------------------------------
(* injectImage, for every page that is lowered                              *)

\* Props with a value that is not a literal are refused, as is a src without
\* variants.  Without any variants the import itself is refused.
Lowerable(e) == e.value # "dynamic" /\ e.src \in DOMAIN variants

\* The fallback src is the widest variant.
renderImageHTML(e) ==
    [of |-> e.src, srcset |-> variants[e.src],
     src |-> CHOOSE v \in variants[e.src] : \A u \in variants[e.src] : u[3] <= v[3]]

injectImage ==
    /\ staging = "lower"
    /\ \A e \in elements : Lowerable(e)
    /\ staging' = "copies"
    /\ markup' = {renderImageHTML(e) : e \in elements}
    /\ variants' = <<>>
    /\ work' = [s \in Sources |-> IF asset[s] = Gone THEN NoWork ELSE [NoWork EXCEPT !.at = "todo"]]
    /\ UNCHANGED <<asset, elements, changes, stagings, bundling, widths, moved,
                   staged, urls>>

ImageErrors == staging = "lower" /\ (\E e \in elements : ~Lowerable(e)) /\ Broken

-----------------------------------------------------------------------------
(* assets.Build: one file after the other                                   *)

hashFile(s) ==
    /\ staging = "copies" /\ Busy = {} /\ ~Failed
    /\ FirstWaiting(s)
    /\ work' = [work EXCEPT ![s] = [@ EXCEPT !.at = IF asset[s] = Gone THEN "failed" ELSE "hashed",
                                             !.hash = asset[s]]]
    /\ UNCHANGED <<asset, elements, changes, staging, stagings, bundling, widths, moved,
                   staged, variants, markup, urls>>

\* copyFile opens the source a second time.
OpenCopy(s) ==
    /\ staging = "copies" /\ work[s].at = "hashed"
    /\ IF asset[s] = Gone
       THEN At(s, "failed") /\ UNCHANGED staged
       ELSE /\ Write(VariantName(s, work[s].hash, 0), Partial)
            /\ work' = [work EXCEPT ![s] = [@ EXCEPT !.at = "open", !.content = asset[s]]]
    /\ UNCHANGED <<asset, elements, changes, staging, stagings, bundling, widths, moved,
                   variants, markup, urls>>

copyFile(s) ==
    /\ staging = "copies" /\ work[s].at = "open"
    /\ \E c \in ReadsAs(s, work[s].content) :
          Write(VariantName(s, work[s].hash, 0), [of |-> c, width |-> 0])
    /\ At(s, "ok")
    /\ UNCHANGED <<asset, elements, changes, staging, stagings, bundling, widths, moved,
                   variants, markup, urls>>

\* The table, in assets.gen.go.
emitAssetsManifest ==
    /\ staging = "copies" /\ Busy = {} /\ Waiting = {} /\ ~Failed
    /\ staging' = IF bundling THEN "vite" ELSE "done"
    /\ urls' = [s \in {t \in Sources : work[t].at = "ok"} |-> VariantName(s, work[s].hash, 0)]
    /\ work' = [s \in Sources |-> NoWork]
    /\ widths' = DefaultWidths
    /\ UNCHANGED <<asset, elements, changes, stagings, bundling, moved,
                   staged, variants, markup>>

\* An error ends the walk.
CopiesFail == staging = "copies" /\ Failed /\ Broken

\* vite build empties its outDir, static/_app, before it writes the bundle.
runViteBuild ==
    /\ staging = "vite"
    /\ staging' = "done"
    /\ staged' = <<>>
    /\ UNCHANGED <<asset, elements, changes, stagings, bundling, widths, work, moved,
                   variants, markup, urls>>

\* Killed, or a later step of the command fails.
KillStaging == InPass /\ Broken

ChangeAsset(s, to) ==
    /\ changes < MaxChanges /\ to # asset[s]
    /\ asset' = [asset EXCEPT ![s] = to]
    /\ changes' = changes + 1
    /\ moved' = TRUE
    /\ UNCHANGED <<elements, staging, stagings, bundling, widths, work,
                   staged, variants, markup, urls>>

StageInit ==
    /\ asset \in FirstAssets
    /\ elements \in Templates
    /\ changes = 0
    /\ staging = "idle" /\ stagings = 0 /\ bundling = FALSE
    /\ widths = DefaultWidths
    /\ work = [s \in Sources |-> NoWork]
    /\ moved = FALSE
    /\ staged = <<>> /\ variants = <<>> /\ markup = {} /\ urls = <<>>

StageNext ==
    \/ \E follows \in BOOLEAN, ws \in projectImageWidths : buildImageVariants(follows, ws)
    \/ \E s \in Sources :
          \/ hashReader(s)
          \/ Decode(s)
          \/ OpenVariant(s)
          \/ encodeImage(s)
          \/ hashFile(s)
          \/ OpenCopy(s)
          \/ copyFile(s)
          \/ WorkFails(s)
          \/ \E to \in LaterAssets : ChangeAsset(s, to)
    \/ ImagesDone
    \/ ImagesFail
    \/ injectImage
    \/ ImageErrors
    \/ emitAssetsManifest
    \/ CopiesFail
    \/ runViteBuild
    \/ KillStaging

StageSpec == StageInit /\ [][StageNext]_stageVars

-----------------------------------------------------------------------------
(* StaticHandler, for one URL                                               *)

Encodings == {"br", "gzip"}
NoStatic == [content |-> 0, mtime |-> 0]
NoCopy == [etag |-> <<>>, second |-> 0, content |-> 0]
There(r) == static[r] # NoStatic

\* The first entry that names the token, or "*", decides.
acceptsEncoding(token) ==
    LET named == SelectSeq(accept, LAMBDA part : part.name \in {token, "*"})
    IN  named # <<>> /\ Head(named).q > 0

Offered(r) ==
    r \in (IF config.brotli THEN {"br"} ELSE {}) \cup (IF config.gzip THEN {"gzip"} ELSE {})
          /\ acceptsEncoding(r) /\ There(r)

\* A fault: the sibling is served with the information of the raw file.
negotiateRawInfo ==
    [rep |-> IF Offered("br") THEN "br" ELSE IF Offered("gzip") THEN "gzip" ELSE "raw",
     mtime |-> static["raw"].mtime]

negotiate ==
    LET r == IF Offered("br") THEN "br" ELSE IF Offered("gzip") THEN "gzip" ELSE "raw"
    IN  [rep |-> r, mtime |-> static[r].mtime]

buildETag(n) == <<n.mtime, n.rep>>

\* HTTP dates have whole seconds; a second is two ticks of the clock.
Second(n) == n.mtime \div 2

Free == [at |-> "no", rep |-> "raw", mtime |-> 0]

\* A browser asks again unless the URL is under the immutable prefix.
StatFile ==
    /\ serving = Free
    /\ kept = NoCopy \/ ~config.immutable
    /\ IF There("raw")
       THEN serving' = [at |-> "stat", rep |-> negotiate.rep, mtime |-> negotiate.mtime] /\ UNCHANGED kept
       ELSE kept' = NoCopy /\ UNCHANGED serving
    /\ UNCHANGED <<static, config, accept, clock>>

\* http.ServeContent: If-None-Match when there is a tag, the date otherwise.
NotModified ==
    /\ kept # NoCopy
    /\ IF config.etag THEN kept.etag = buildETag(serving) ELSE Second(serving) <= kept.second

\* The file is opened after it was described.
ServeContent ==
    /\ serving.at = "stat"
    /\ kept' = IF ~There(serving.rep) THEN NoCopy
               ELSE IF NotModified THEN kept
               ELSE [etag |-> IF config.etag THEN buildETag(serving) ELSE <<>>,
                     second |-> Second(serving), content |-> static[serving.rep].content]
    /\ serving' = Free
    /\ UNCHANGED <<static, config, accept, clock>>

\* A deploy writes, or removes, the file or a sibling.
Deploy(r) ==
    /\ clock < MaxChanges + 2
    /\ clock' = clock + 1
    /\ static' \in {[static EXCEPT ![r] = f] : f \in {NoStatic, [content |-> clock + 1, mtime |-> clock + 1]}}
    /\ UNCHANGED <<config, accept, serving, kept>>

StaticInit ==
    /\ static = [r \in {"raw"} \cup Encodings |-> NoStatic]
    /\ config \in [etag : BOOLEAN, brotli : BOOLEAN, gzip : BOOLEAN, immutable : BOOLEAN]
    /\ accept \in AcceptHeaders
    /\ clock = 0
    /\ serving = Free
    /\ kept = NoCopy

StaticNext ==
    \/ StatFile
    \/ ServeContent
    \/ \E r \in {"raw"} \cup Encodings : Deploy(r)

StaticSpec == StaticInit /\ [][StaticNext]_staticVars

-----------------------------------------------------------------------------
(* Properties                                                               *)

Whole(name) == name \in DOMAIN staged /\ staged[name] # Partial

\* The content its name promises, at the width its name promises unless that
\* would leave no height.
AsNamed(name) ==
    LET c == name[2]
    IN  name \in DOMAIN staged
        /\ staged[name] = IF name[3] = 0 THEN [of |-> c, width |-> 0] ELSE Scaled(c, name[3])

\* URLsResolve: after a pass without vite build, every URL that the pages and
\* the table of kit.Asset hand out is a whole file, whatever passes were broken
\* off before it and however its goroutines shared the names of equal sources;
\* if no asset changed under the pass, it is the file its fingerprint and its
\* width promise, and the one of the source (images.Build, assets.Build,
\* renderImageHTML).
URLsResolve ==
    staging = "done" /\ ~bundling =>
        /\ \A s \in DOMAIN urls : Whole(urls[s]) /\ (~moved => urls[s][2] = asset[s] /\ AsNamed(urls[s]))
        /\ \A m \in markup : \A v \in m.srcset \cup {m.src} :
              Whole(v) /\ (~moved => v[2] = asset[m.of] /\ AsNamed(v))

\* What URLsResolve rests on: what a pass has put out is a sound file, unless
\* a goroutine that shares its name has it open or the pass has failed.  The
\* pages then name files that the copies, whose names have no width, leave
\* alone.
Sound(name) == Whole(name) /\ (~moved => AsNamed(name))

Contents == DOMAIN Picture \cup {Gone}
Decodable(c) == c \in DOMAIN Picture /\ Picture[c].format \in {"jpeg", "png"}

Works == [at : {"none", "todo", "hashed", "emit", "open", "ok", "failed"},
          hash : Contents, content : Contents, left : SUBSET Nat]

StageTypeOK ==
    /\ asset \in [Sources -> Contents]
    /\ widths \in SUBSET (Nat \ {0})
    /\ work \in [Sources -> Works]
    /\ moved \in BOOLEAN /\ bundling \in BOOLEAN

\* The asset, as the goroutine or the walk has read it.
ReadTrue(s) ==
    /\ work[s].at \in {"hashed", "emit", "open", "ok"} =>
          work[s].hash # Gone /\ (~moved => work[s].hash = asset[s])
    /\ work[s].at \in {"emit", "open", "ok"} =>
          work[s].content # Gone /\ (~moved => work[s].content = work[s].hash)

InHand(name) ==
    \E t \in Sources : \E w \in work[t].left :
        work[t].at = "open" /\ Turn(t, w) /\ name = VariantName(t, work[t].hash, w)

VariantsOK(s) ==
    /\ ReadTrue(s)
    /\ work[s].at = "ok" => work[s].left = {}
    /\ work[s].at \in {"emit", "open", "ok"} =>
          /\ Decodable(work[s].content) /\ work[s].left \subseteq WidthsOf(work[s].content)
          /\ \A w \in WidthsOf(work[s].content) \ work[s].left :
                LET name == VariantName(s, work[s].hash, w)
                IN  Sound(name) \/ InHand(name) \/ Failed

VariantsInv == staging = "images" => \A s \in Sources : VariantsOK(s)

PlanInv ==
    staging = "lower" => \A s \in DOMAIN variants : \E c \in DOMAIN Picture, h \in Contents :
        /\ Decodable(c)
        /\ variants[s] = {VariantName(s, h, w) : w \in WidthsOf(c)}
        /\ ~moved => h = asset[s]
        /\ \A v \in variants[s] : Sound(v)

MarkupInv ==
    staging = "copies" => \A m \in markup : \A v \in m.srcset \cup {m.src} :
        v[3] # 0 /\ Sound(v) /\ (~moved => v[2] = asset[m.of])

CopyInHand(name) ==
    \E t \in Sources : work[t].at = "open" /\ name = VariantName(t, work[t].hash, 0)

CopyOK(s) ==
    /\ ReadTrue(s)
    /\ work[s].at = "ok" =>
          LET name == VariantName(s, work[s].hash, 0)
          IN  Sound(name) \/ CopyInHand(name) \/ Failed

CopiesInv == staging = "copies" => \A s \in Sources : CopyOK(s)

StageInv ==
    /\ StageTypeOK /\ (staging = "vite" => bundling)
    /\ VariantsInv /\ PlanInv /\ MarkupInv /\ CopiesInv
    /\ URLsResolve

\* CopiesCurrent: with entity tags, a browser that would be answered "not
\* modified" keeps what the file it would be sent now holds, although the file
\* is described in one step and opened in another and although a sibling may be
\* older or newer than the file (negotiate, buildETag, ServeHTTP).
CopiesCurrent ==
    config.etag /\ kept # NoCopy /\ There("raw") =>
        (kept.etag = buildETag(negotiate) => kept.content = static[negotiate.rep].content)

\* What CopiesCurrent rests on: a modification time stands for one content, the
\* times of requests and copies have passed, and a copy whose tag is still that
\* of the file holds the file.
StaticInv ==
    /\ clock \in Nat
    /\ \A r \in {"raw"} \cup Encodings :
          \/ static[r] = NoStatic
          \/ \E n \in 1..clock : static[r] = [content |-> n, mtime |-> n]
    /\ serving # Free => \E r \in {"raw"} \cup Encodings, n \in 1..clock :
                            serving = [at |-> "stat", rep |-> r, mtime |-> n]
    /\ config.etag /\ kept # NoCopy => \E r \in {"raw"} \cup Encodings, n \in 1..clock :
          kept.etag = <<n, r>> /\ (static[r].mtime = n => kept.content = n)
=============================================================================
