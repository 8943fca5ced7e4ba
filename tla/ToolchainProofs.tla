--------------------------- MODULE ToolchainProofs ---------------------------
(***************************************************************************)
(* Proofs about what stands beside the server: that `sveltego dev' holds   *)
(* every server it starts (DevServer), that the precompressed copies a    *)
(* server sends are of the file they stand for and that the URLs of staged *)
(* assets resolve (StaticAssets), that prerendered pages are served and    *)
(* deployed as they were rendered (Prerender), that the sidecar's          *)
(* supervisor loses no process and keeps to its budget (FallbackSidecar),  *)
(* and that what a build generates fits together (Codegen).                *)
(***************************************************************************)
EXTENDS DevServer, StaticAssets, Prerender, FallbackSidecar, Codegen, TLAPS

LEMMA RunTypeInit == DevInit => RunTypeOK
  BY DEF DevInit, RunTypeOK, Verdicts, NoChild

LEMMA RunTypeStep == RunTypeOK /\ [DevNext]_devVars => RunTypeOK'
<1> SUFFICES ASSUME RunTypeOK, [DevNext]_devVars PROVE RunTypeOK'
  OBVIOUS
<1> USE DEF RunTypeOK, watchVars, runVars
<1>1. ASSUME NEW inNewDir \in BOOLEAN, Edit(inNewDir) PROVE RunTypeOK'
  BY <1>1 DEF Edit
<1>2. CASE MakeDir \/ Cancel \/ Arrive \/ Forward
  BY <1>2 DEF MakeDir, Cancel, Arrive, Forward
<1>3. CASE ChildListens \/ ChildDies
  BY <1>3 DEF ChildListens, ChildDies
<1>4. CASE WatcherStep
  BY <1>4 DEF WatcherStep, OnDir, OnFile, OnTimer, Emit, WatcherReturns
<1>5. CASE InitialCodegen \/ Setup
  BY <1>5 DEF InitialCodegen, Setup, ViteStart
<1>6. CASE InitialBuild \/ InitialDial \/ StartProxy
  BY <1>6 DEF InitialBuild, InitialDial, StartProxy, Spawned
<1>7. CASE TakeBatch \/ LeaveLoop \/ Codegen
  BY <1>7 DEF TakeBatch, LeaveLoop, Codegen
<1>8. CASE StopChild \/ Rebuild \/ Dial
  BY <1>8 DEF StopChild, Rebuild, Dial, Spawned, NoChild
<1>9. CASE Unwind
  BY <1>9 DEF Unwind, ViteStop, NoChild
<1>10. CASE UNCHANGED devVars
  BY <1>10 DEF devVars
<1> QED
  BY <1>1, <1>2, <1>3, <1>4, <1>5, <1>6, <1>7, <1>8, <1>9, <1>10 DEF DevNext, RunStep, Outside

(* Before the first build and after a stop there is no process, and only   *)
(* Spawned makes one, with the handle that Unwind and StopChild go by.     *)
LEMMA ChildrenStep == RunTypeOK /\ ChildrenHeld /\ [DevNext]_devVars => ChildrenHeld'
<1> SUFFICES ASSUME RunTypeOK, ChildrenHeld, [DevNext]_devVars PROVE ChildrenHeld'
  OBVIOUS
<1> USE DEF RunTypeOK, ChildrenHeld, watchVars, runVars
<1>1. ASSUME NEW inNewDir \in BOOLEAN, Edit(inNewDir) PROVE ChildrenHeld'
  BY <1>1 DEF Edit
<1>2. CASE MakeDir \/ Cancel \/ Arrive \/ Forward \/ ChildListens \/ ChildDies
  BY <1>2 DEF MakeDir, Cancel, Arrive, Forward, ChildListens, ChildDies
<1>3. CASE WatcherStep
  BY <1>3 DEF WatcherStep, OnDir, OnFile, OnTimer, Emit, WatcherReturns
<1>4. CASE InitialCodegen \/ Setup \/ InitialBuild \/ InitialDial \/ StartProxy
  BY <1>4 DEF InitialCodegen, Setup, ViteStart, InitialBuild, InitialDial, StartProxy, Spawned
<1>5. CASE TakeBatch \/ LeaveLoop \/ Codegen \/ Dial
  BY <1>5 DEF TakeBatch, LeaveLoop, Codegen, Dial
<1>6. CASE StopChild \/ Rebuild
  BY <1>6 DEF StopChild, Rebuild, Spawned, NoChild
<1>7. CASE Unwind
  BY <1>7 DEF Unwind, ViteStop, NoChild
<1>8. CASE UNCHANGED devVars
  BY <1>8 DEF devVars
<1> QED
  BY <1>1, <1>2, <1>3, <1>4, <1>5, <1>6, <1>7, <1>8 DEF DevNext, RunStep, Outside

(* `sveltego dev' never runs two of the user's servers, and leaves neither *)
(* a server nor its proxy behind, however many edits, failed builds,       *)
(* deaths and cancellations there are and whatever the capacities of its   *)
(* queues (Reload, goSupervisor.stop, the deferred Stops of Run).  It says *)
(* nothing of Vite.                                                        *)
THEOREM DevHoldsChildren == DevSpec => []ChildrenHeld
<1>1. DevInit => RunTypeOK /\ ChildrenHeld
  BY RunTypeInit DEF DevInit, ChildrenHeld, NoChild
<1>2. RunTypeOK /\ ChildrenHeld /\ [DevNext]_devVars => RunTypeOK' /\ ChildrenHeld'
  BY RunTypeStep, ChildrenStep
<1> QED
  BY <1>1, <1>2, PTL DEF DevSpec

-----------------------------------------------------------------------------
(* StaticHandler and the browser's copy. *)

Representations == {"raw"} \cup Encodings

(* negotiate picks a file that is there, and describes that one. *)
LEMMA Negotiated ==
  ASSUME StaticInv, There("raw")
  PROVE  /\ negotiate.rep \in Representations
         /\ There(negotiate.rep)
         /\ negotiate.mtime = static[negotiate.rep].mtime
<1>1. \A r : Offered(r) => There(r)
  BY DEF Offered
<1> QED
  BY <1>1 DEF negotiate, Representations, Encodings

LEMMA ThereDescribed ==
  ASSUME StaticInv, NEW r \in Representations, There(r)
  PROVE  \E n \in 1..clock : static[r] = [content |-> n, mtime |-> n]
  BY DEF StaticInv, Representations, There

LEMMA StatStep == StaticInv /\ StatFile => StaticInv'
<1> SUFFICES ASSUME StaticInv, StatFile PROVE StaticInv'
  OBVIOUS
<1>1. CASE There("raw")
  <2>1. \E r \in Representations, n \in 1..clock :
          serving' = [at |-> "stat", rep |-> r, mtime |-> n]
    <3> DEFINE q == negotiate.rep
    <3>1. q \in Representations /\ There(q) /\ negotiate.mtime = static[q].mtime
      BY <1>1, Negotiated
    <3>2. PICK n \in 1..clock : static[q] = [content |-> n, mtime |-> n]
      BY <3>1, ThereDescribed
    <3>3. serving' = [at |-> "stat", rep |-> q, mtime |-> negotiate.mtime]
      BY <1>1 DEF StatFile
    <3>4. negotiate.mtime = n
      BY <3>1, <3>2
    <3> HIDE DEF q
    <3> QED
      BY <3>1, <3>3, <3>4
  <2>2. UNCHANGED <<static, config, clock, kept>>
    BY <1>1 DEF StatFile
  <2> QED
    BY <2>1, <2>2 DEF StaticInv, Representations
<1>2. CASE ~There("raw")
  BY <1>2 DEF StaticInv, StatFile
<1> QED
  BY <1>1, <1>2

LEMMA ServeStep == StaticInv /\ ServeContent => StaticInv'
<1> SUFFICES ASSUME StaticInv, ServeContent PROVE StaticInv'
  OBVIOUS
<1>1. PICK r \in Representations, n \in 1..clock : serving = [at |-> "stat", rep |-> r, mtime |-> n]
  BY DEF StaticInv, ServeContent, Free, Representations
<1>2. serving' = Free /\ UNCHANGED <<static, config, accept, clock>>
  BY DEF ServeContent
<1>3. config.etag /\ kept' # NoCopy => \E q \in Representations, m \in 1..clock :
        kept'.etag = <<m, q>> /\ (static[q].mtime = m => kept'.content = m)
  <2>1. CASE kept' = kept
    BY <2>1 DEF StaticInv, Representations
  <2>2. CASE kept' # kept /\ kept' # NoCopy
    <3>1. There(r) /\ kept' = [etag |-> IF config.etag THEN <<n, r>> ELSE <<>>,
                              second |-> Second(serving), content |-> static[r].content]
      BY <1>1, <2>2 DEF ServeContent, buildETag
    <3>2. static[r].mtime = n => static[r].content = n
      <4>1. \E m \in 1..clock : static[r] = [content |-> m, mtime |-> m]
        BY <3>1, ThereDescribed
      <4> QED
        BY <4>1
    <3> QED
      <4>1. config.etag => kept'.etag = <<n, r>>
        BY <3>1
      <4>2. static[r].mtime = n => kept'.content = n
        BY <3>1, <3>2
      <4> QED
        BY <4>1, <4>2
  <2> QED
    BY <2>1, <2>2
<1> QED
  BY <1>2, <1>3 DEF StaticInv, Representations

LEMMA DeployStep == ASSUME StaticInv, NEW r \in Representations, Deploy(r) PROVE StaticInv'
<1>1. clock \in Nat /\ clock' = clock + 1 /\ UNCHANGED <<config, accept, serving, kept>>
  BY DEF Deploy, StaticInv
<1>2. PICK f \in {NoStatic, [content |-> clock + 1, mtime |-> clock + 1]} :
        static' = [static EXCEPT ![r] = f]
  BY DEF Deploy
<1>3. \A q \in Representations : static'[q] = static[q] \/ static'[q] = f
  BY <1>2
<1>4. f = NoStatic \/ (clock + 1 \in 1..clock' /\ f = [content |-> clock + 1, mtime |-> clock + 1])
  BY <1>1
<1>5. \A q \in Representations :
        static'[q] = NoStatic \/ \E n \in 1..clock' : static'[q] = [content |-> n, mtime |-> n]
  BY <1>1, <1>3, <1>4 DEF StaticInv, Representations
<1>6. \A q \in Representations, n \in 1..clock : static'[q].mtime = n => static'[q] = static[q]
  BY <1>1, <1>3, <1>4 DEF NoStatic
<1>7. serving' # Free => \E q \in Representations, n \in 1..clock' :
        serving' = [at |-> "stat", rep |-> q, mtime |-> n]
  BY <1>1 DEF StaticInv, Representations
<1>8. config'.etag /\ kept' # NoCopy => \E q \in Representations, n \in 1..clock' :
        kept'.etag = <<n, q>> /\ (static'[q].mtime = n => kept'.content = n)
  BY <1>1, <1>6 DEF StaticInv, Representations
<1> QED
  BY <1>1, <1>5, <1>7, <1>8 DEF StaticInv, Representations

(* With entity tags a "not modified" never confirms a copy of another      *)
(* content, for any set of Accept-Encoding headers and however deploys     *)
(* fall between the description of a file and its opening (negotiate,      *)
(* buildETag, ServeHTTP).                                                  *)
THEOREM CopiesStayCurrent == StaticSpec => []CopiesCurrent
<1>1. StaticInit => StaticInv
  BY DEF StaticInit, StaticInv
<1>2. StaticInv /\ [StaticNext]_staticVars => StaticInv'
  <2> SUFFICES ASSUME StaticInv, [StaticNext]_staticVars PROVE StaticInv'
    OBVIOUS
  <2>1. CASE UNCHANGED staticVars
    BY <2>1 DEF StaticInv, staticVars, There
  <2> QED
    BY <2>1, StatStep, ServeStep, DeployStep DEF StaticNext, Representations
<1>3. StaticInv => CopiesCurrent
  <2> SUFFICES ASSUME StaticInv, config.etag, kept # NoCopy, There("raw"),
                      kept.etag = buildETag(negotiate)
               PROVE  kept.content = static[negotiate.rep].content
    BY DEF CopiesCurrent
  <2>1. PICK n \in 1..clock : static[negotiate.rep] = [content |-> n, mtime |-> n]
    BY Negotiated, ThereDescribed
  <2>2. kept.etag = <<n, negotiate.rep>>
    BY <2>1, Negotiated DEF buildETag
  <2>3. static[negotiate.rep].mtime = n => kept.content = n
    BY <2>2 DEF StaticInv
  <2> QED
    BY <2>1, <2>3
<1> QED
  BY <1>1, <1>2, <1>3, PTL DEF StaticSpec

-----------------------------------------------------------------------------
(* Staging the assets.  Decode needs VariantsInv for the types: a file     *)
(* that was opened reads as content.                                       *)

LEMMA NoWorkType == NoWork \in Works /\ [NoWork EXCEPT !.at = "todo"] \in Works
  BY DEF NoWork, Works, Contents

LEMMA StageTypeInit == StageInit => StageTypeOK
<1> SUFFICES ASSUME StageInit PROVE StageTypeOK
  OBVIOUS
<1>1. asset \in [Sources -> Contents]
  BY AssetsAssumption DEF StageInit, Contents, Gone
<1>2. work \in [Sources -> Works]
  BY NoWorkType DEF StageInit
<1> QED
  BY <1>1, <1>2, WidthsAssumption DEF StageInit, StageTypeOK

LEMMA WidthsPositive ==
  ASSUME NEW ws \in projectImageWidths PROVE EffectiveWidths(ws) \in SUBSET (Nat \ {0})
<1>1. ws \in RouteWidths \/ ws = {}
  BY DEF projectImageWidths
<1>2. ws \subseteq Int
  BY <1>1, WidthsAssumption
<1>3. \A w \in normalizeWidths(ws) : w \in Nat \ {0}
  BY <1>2 DEF normalizeWidths
<1> QED
  BY <1>3, WidthsAssumption DEF EffectiveWidths

LEMMA BrokenType == StageTypeOK /\ Broken => StageTypeOK'
<1> SUFFICES ASSUME StageTypeOK, Broken PROVE StageTypeOK'
  OBVIOUS
<1>1. work' \in [Sources -> Works]
  BY NoWorkType DEF Broken
<1> QED
  BY <1>1, WidthsAssumption DEF StageTypeOK, Broken

(* A step of a goroutine, or of the walk, gives its work another record.   *)
LEMMA WorkType ==
  ASSUME StageTypeOK, NEW s \in Sources, UNCHANGED <<asset, widths, moved, bundling>>,
         NEW r \in Works, work' = [work EXCEPT ![s] = r]
  PROVE  StageTypeOK'
  BY DEF StageTypeOK

LEMMA StageTypeStep == StageTypeOK /\ VariantsInv /\ [StageNext]_stageVars => StageTypeOK'
<1> SUFFICES ASSUME StageTypeOK, VariantsInv, [StageNext]_stageVars PROVE StageTypeOK'
  OBVIOUS
<1>1. ASSUME NEW follows \in BOOLEAN, NEW ws \in projectImageWidths, buildImageVariants(follows, ws)
      PROVE  StageTypeOK'
  <2>1. work' \in [Sources -> Works]
    BY <1>1, NoWorkType DEF buildImageVariants
  <2> QED
    BY <1>1, <2>1, WidthsPositive DEF buildImageVariants, StageTypeOK
<1>2. ASSUME NEW s \in Sources, hashReader(s) \/ hashFile(s) PROVE StageTypeOK'
  <2>1. [work[s] EXCEPT !.at = IF asset[s] = Gone THEN "failed" ELSE "hashed", !.hash = asset[s]] \in Works
    BY DEF StageTypeOK, Works
  <2> QED
    BY <1>2, <2>1, WorkType DEF hashReader, hashFile
<1>3. ASSUME NEW s \in Sources, Decode(s) PROVE StageTypeOK'
  <2>1. PICK c \in ReadsAs(s, work[s].hash) :
          work' = [work EXCEPT ![s] =
                     IF Picture[c].format \in {"jpeg", "png"}
                     THEN [@ EXCEPT !.at = "emit", !.content = c, !.left = WidthsOf(c)]
                     ELSE [@ EXCEPT !.at = "failed"]]
    BY <1>3 DEF Decode
  <2>2. c \in DOMAIN Picture
    <3>1. work[s].hash \in Contents /\ asset[s] \in Contents
      BY DEF StageTypeOK, Works
    <3>2. work[s].hash # Gone
      BY <1>3 DEF Decode, VariantsInv, VariantsOK, ReadTrue
    <3> QED
      BY <2>1, <3>1, <3>2 DEF ReadsAs, Contents
  <2>3. Picture[c].format \in {"jpeg", "png"} => WidthsOf(c) \in SUBSET Nat
    BY <2>2, PictureAssumption DEF WidthsOf, StageTypeOK
  <2>4. [work[s] EXCEPT !.at = "failed"] \in Works
    BY DEF StageTypeOK, Works
  <2>5. Picture[c].format \in {"jpeg", "png"} =>
          [work[s] EXCEPT !.at = "emit", !.content = c, !.left = WidthsOf(c)] \in Works
    BY <2>2, <2>3 DEF StageTypeOK, Works, Contents
  <2>6. PICK r \in Works : work' = [work EXCEPT ![s] = r]
    BY <2>1, <2>4, <2>5
  <2> QED
    BY <1>3, <2>6, WorkType DEF Decode
<1>4. ASSUME NEW s \in Sources, OpenVariant(s) \/ WorkFails(s) \/ copyFile(s) PROVE StageTypeOK'
  <2>1. \A at \in {"open", "failed", "ok"} : [work[s] EXCEPT !.at = at] \in Works
    BY DEF StageTypeOK, Works
  <2> QED
    BY <1>4, <2>1 DEF OpenVariant, WorkFails, copyFile, At, StageTypeOK
<1>5. ASSUME NEW s \in Sources, encodeImage(s) PROVE StageTypeOK'
  <2>1. \A w \in work[s].left, at \in {"ok", "emit"} :
          [work[s] EXCEPT !.left = @ \ {w}, !.at = at] \in Works
    BY DEF StageTypeOK, Works
  <2>2. PICK w \in work[s].left, at \in {"ok", "emit"} :
          work' = [work EXCEPT ![s] = [work[s] EXCEPT !.left = @ \ {w}, !.at = at]]
    BY <1>5 DEF encodeImage, Emitted
  <2> QED
    BY <1>5, <2>1, <2>2 DEF encodeImage, StageTypeOK
<1>6. ASSUME NEW s \in Sources, OpenCopy(s) PROVE StageTypeOK'
  <2>1. [work[s] EXCEPT !.at = "failed"] \in Works
    BY DEF StageTypeOK, Works
  <2>2. [work[s] EXCEPT !.at = "open", !.content = asset[s]] \in Works
    BY DEF StageTypeOK, Works
  <2> QED
    BY <1>6, <2>1, <2>2 DEF OpenCopy, At, StageTypeOK
<1>7. ASSUME NEW s \in Sources, NEW to \in LaterAssets, ChangeAsset(s, to) PROVE StageTypeOK'
  BY <1>7, AssetsAssumption DEF ChangeAsset, StageTypeOK, Contents, Gone
<1>8. CASE ImagesDone \/ injectImage \/ emitAssetsManifest \/ runViteBuild
  <2>1. work' = work \/ work' \in [Sources -> Works]
    BY <1>8, NoWorkType DEF ImagesDone, injectImage, emitAssetsManifest, runViteBuild
  <2> QED
    BY <1>8, <2>1, WidthsAssumption
       DEF ImagesDone, injectImage, emitAssetsManifest, runViteBuild, StageTypeOK
<1>9. CASE ImagesFail \/ ImageErrors \/ CopiesFail \/ KillStaging
  BY <1>9, BrokenType DEF ImagesFail, ImageErrors, CopiesFail, KillStaging
<1>10. CASE UNCHANGED stageVars
  BY <1>10 DEF stageVars, StageTypeOK
<1> QED
  BY <1>1, <1>2, <1>3, <1>4, <1>5, <1>6, <1>7, <1>8, <1>9, <1>10 DEF StageNext

(* What a write does to the file of its name and leaves of the others. *)
LEMMA SoundElsewhere ==
  ASSUME NEW n, NEW f, Write(n, f), UNCHANGED moved, NEW m, m # n, Sound(m)
  PROVE  Sound(m)'
  BY DEF Write, Sound, Whole, AsNamed

LEMMA SoundStays ==
  ASSUME UNCHANGED staged, ~moved' => ~moved, NEW m, Sound(m)
  PROVE  Sound(m)'
  BY DEF Sound, Whole, AsNamed

LEMMA SoundVariant ==
  ASSUME NEW s, NEW h, NEW w, w # 0, NEW c, c # Gone, ~moved => c = h,
         Write(VariantName(s, h, w), Scaled(c, w)), UNCHANGED moved
  PROVE  Sound(VariantName(s, h, w))'
<1> DEFINE n == VariantName(s, h, w)
<1>1. n \in DOMAIN staged' /\ staged'[n] = Scaled(c, w)
  BY DEF Write
<1>2. Scaled(c, w) # Partial
  BY DEF Scaled, Partial, Gone
<1>3. n[2] = h /\ n[3] = w
  BY DEF VariantName
<1> QED
  BY <1>1, <1>2, <1>3 DEF Sound, Whole, AsNamed

LEMMA SoundCopy ==
  ASSUME NEW s, NEW h, NEW c, c # Gone, ~moved => c = h,
         Write(VariantName(s, h, 0), [of |-> c, width |-> 0]), UNCHANGED moved
  PROVE  Sound(VariantName(s, h, 0))'
<1> DEFINE n == VariantName(s, h, 0)
<1>1. n \in DOMAIN staged' /\ staged'[n] = [of |-> c, width |-> 0]
  BY DEF Write
<1>2. [of |-> c, width |-> 0] # Partial
  BY DEF Partial, Gone
<1>3. n[2] = h /\ n[3] = 0
  BY DEF VariantName
<1> QED
  BY <1>1, <1>2, <1>3 DEF Sound, Whole, AsNamed

(* A goroutine has one file open at a time. *)
LEMMA OneTurn ==
  ASSUME StageTypeOK, NEW s \in Sources, NEW w, NEW u, Turn(s, w), Turn(s, u)
  PROVE  w = u
<1>1. work[s].left \subseteq Nat
  BY DEF StageTypeOK, Works
<1> QED
  BY <1>1 DEF Turn

(* The files of the other goroutines stay in their hands. *)
LEMMA OthersInHand ==
  ASSUME StageTypeOK, NEW t \in Sources, NEW r, work' = [work EXCEPT ![t] = r],
         work[t].at # "open", NEW name, InHand(name)
  PROVE  InHand(name)'
<1>1. PICK u \in Sources : \E w \in work[u].left :
        work[u].at = "open" /\ Turn(u, w) /\ name = VariantName(u, work[u].hash, w)
  BY DEF InHand
<1>2. u # t /\ work'[u] = work[u]
  BY <1>1 DEF StageTypeOK
<1> QED
  BY <1>1, <1>2 DEF InHand, Turn, VariantName

LEMMA FailedStays ==
  ASSUME StageTypeOK, NEW t \in Sources, NEW r, work' = [work EXCEPT ![t] = r],
         work[t].at # "failed" \/ r.at = "failed", Failed
  PROVE  Failed'
  BY DEF Failed, StageTypeOK

LEMMA FailedNow ==
  ASSUME StageTypeOK, NEW t \in Sources, NEW r, work' = [work EXCEPT ![t] = r], r.at = "failed"
  PROVE  Failed'
  BY DEF Failed, StageTypeOK

(* A goroutine that reads, decodes or fails leaves the others' files be.   *)
LEMMA VariantsOthers ==
  ASSUME StageTypeOK, NEW t \in Sources, NEW r, work' = [work EXCEPT ![t] = r],
         UNCHANGED <<asset, widths, moved, staged>>,
         work[t].at \in {"todo", "hashed"} \/ r.at = "failed",
         NEW s \in Sources, s # t, VariantsOK(s)
  PROVE  VariantsOK(s)'
<1>1. work'[s] = work[s]
  BY DEF StageTypeOK
<1>2. ReadTrue(s)'
  BY <1>1 DEF VariantsOK, ReadTrue
<1>3. ASSUME NEW name, Sound(name) \/ InHand(name) \/ Failed
      PROVE  Sound(name)' \/ InHand(name)' \/ Failed'
  <2>1. CASE r.at = "failed"
    BY <2>1, FailedNow
  <2>2. CASE work[t].at \in {"todo", "hashed"} /\ Sound(name)
    BY <2>2, SoundStays
  <2>3. CASE work[t].at \in {"todo", "hashed"} /\ InHand(name)
    BY <2>3, OthersInHand
  <2>4. CASE work[t].at \in {"todo", "hashed"} /\ Failed
    BY <2>4, FailedStays
  <2> QED
    BY <1>3, <2>1, <2>2, <2>3, <2>4
<1>4. WidthsOf(work[s].content)' = WidthsOf(work[s].content)
  BY <1>1 DEF WidthsOf
<1> QED
  BY <1>1, <1>2, <1>3, <1>4 DEF VariantsOK, VariantName, Decodable

(* The opened file is in the hand of the goroutine that truncated it.     *)
LEMMA VariantsOpen ==
  ASSUME StageTypeOK, VariantsInv, NEW t \in Sources, OpenVariant(t), NEW s \in Sources
  PROVE  VariantsOK(s)'
<1>1. PICK w \in work[t].left : Turn(t, w) /\ Write(VariantName(t, work[t].hash, w), Partial)
  BY DEF OpenVariant
<1>2. /\ \A u \in Sources : u # t => work'[u] = work[u]
      /\ work'[t].at = "open" /\ work'[t].hash = work[t].hash
      /\ work'[t].content = work[t].content /\ work'[t].left = work[t].left
  BY DEF OpenVariant, At, StageTypeOK, Works
<1>3. UNCHANGED <<asset, widths, moved>> /\ work[t].at = "emit" /\ VariantsOK(s)
  BY DEF OpenVariant, VariantsInv
<1>4. ASSUME NEW name, Sound(name) \/ InHand(name) \/ Failed
      PROVE  Sound(name)' \/ InHand(name)' \/ Failed'
  <2>1. CASE name = VariantName(t, work[t].hash, w)
    BY <1>1, <1>2, <2>1 DEF InHand, Turn, VariantName
  <2>2. CASE Sound(name) /\ name # VariantName(t, work[t].hash, w)
    BY <1>1, <1>3, <2>2, SoundElsewhere
  <2>3. CASE InHand(name)
    BY <1>3, <2>3, OthersInHand DEF OpenVariant, At
  <2>4. CASE Failed
    BY <1>3, <2>4, FailedStays DEF OpenVariant, At
  <2> QED
    BY <1>4, <2>1, <2>2, <2>3, <2>4
<1>5. ReadTrue(s)'
  BY <1>2, <1>3 DEF VariantsOK, ReadTrue
<1>6. work'[s].hash = work[s].hash /\ work'[s].content = work[s].content /\ work'[s].left = work[s].left
  BY <1>2
<1>7. work'[s].at = work[s].at \/ (work[s].at = "emit" /\ work'[s].at = "open")
  BY <1>2, <1>3
<1>8. WidthsOf(work[s].content)' = WidthsOf(work[s].content)
  BY <1>3, <1>6 DEF WidthsOf
<1> QED
  BY <1>3, <1>4, <1>5, <1>6, <1>7, <1>8 DEF VariantsOK, VariantName, Decodable

(* The encoder ends the wait of all that share its file's name. *)
LEMMA VariantsEncode ==
  ASSUME StageTypeOK, VariantsInv, NEW t \in Sources, encodeImage(t), NEW s \in Sources
  PROVE  VariantsOK(s)'
<1>1. PICK w \in work[t].left :
        /\ Turn(t, w)
        /\ Write(VariantName(t, work[t].hash, w), Scaled(work[t].content, w))
        /\ Emitted(t, w)
  BY DEF encodeImage
<1>2. /\ \A u \in Sources : u # t => work'[u] = work[u]
      /\ work'[t].at = (IF work[t].left = {w} THEN "ok" ELSE "emit")
      /\ work'[t].hash = work[t].hash /\ work'[t].content = work[t].content
      /\ work'[t].left = work[t].left \ {w}
  BY <1>1 DEF Emitted, StageTypeOK, Works
<1>3. UNCHANGED <<asset, widths, moved>> /\ work[t].at = "open" /\ VariantsOK(s) /\ VariantsOK(t)
  BY DEF encodeImage, VariantsInv
<1>4. Sound(VariantName(t, work[t].hash, w))'
  <2>1. w # 0
    BY <1>3, PictureAssumption DEF VariantsOK, WidthsOf, Decodable, StageTypeOK
  <2>2. work[t].content # Gone /\ (~moved => work[t].content = work[t].hash)
    BY <1>3 DEF VariantsOK, ReadTrue
  <2>3. ASSUME NEW h, h = work[t].hash, NEW c, c = work[t].content PROVE Sound(VariantName(t, h, w))'
    BY <1>1, <1>3, <2>1, <2>2, <2>3, SoundVariant
  <2> QED
    BY <1>2, <2>3 DEF VariantName
<1>5. ASSUME NEW name, Sound(name) \/ InHand(name) \/ Failed
      PROVE  Sound(name)' \/ InHand(name)' \/ Failed'
  <2>1. CASE name = VariantName(t, work[t].hash, w)
    BY <1>2, <1>4, <2>1 DEF VariantName
  <2>2. CASE Sound(name) /\ name # VariantName(t, work[t].hash, w)
    BY <1>1, <1>3, <2>2, SoundElsewhere
  <2>3. CASE InHand(name) /\ name # VariantName(t, work[t].hash, w)
    <3>1. PICK u \in Sources : \E v \in work[u].left :
            work[u].at = "open" /\ Turn(u, v) /\ name = VariantName(u, work[u].hash, v)
      BY <2>3 DEF InHand
    <3>2. u # t
      BY <1>1, <2>3, <3>1, OneTurn
    <3> QED
      BY <1>2, <3>1, <3>2 DEF InHand, Turn, VariantName
  <2>4. CASE Failed
    BY <1>2, <1>3, <2>4 DEF Failed
  <2> QED
    BY <1>5, <2>1, <2>2, <2>3, <2>4
<1>6. ReadTrue(s)'
  BY <1>2, <1>3 DEF VariantsOK, ReadTrue
<1>7. WidthsOf(work[s].content)' = WidthsOf(work[s].content)
  BY <1>2, <1>3 DEF WidthsOf
<1>8. CASE s = t
  BY <1>2, <1>3, <1>4, <1>5, <1>6, <1>7, <1>8 DEF VariantsOK, VariantName, Decodable
<1>9. CASE s # t
  BY <1>2, <1>3, <1>5, <1>6, <1>7, <1>9 DEF VariantsOK, VariantName, Decodable
<1> QED
  BY <1>8, <1>9

LEMMA VariantsStep == StageInv /\ [StageNext]_stageVars => VariantsInv'
<1> SUFFICES ASSUME StageInv, [StageNext]_stageVars, staging' = "images", NEW s \in Sources
             PROVE  VariantsOK(s)'
  BY DEF VariantsInv
<1> USE DEF StageInv
<1>1. ASSUME NEW follows \in BOOLEAN, NEW ws \in projectImageWidths, buildImageVariants(follows, ws)
      PROVE  VariantsOK(s)'
  <2>1. work'[s].at \in {"none", "todo"}
    BY <1>1 DEF buildImageVariants, NoWork
  <2> QED
    BY <2>1 DEF VariantsOK, ReadTrue
<1>2. ASSUME NEW t \in Sources, hashReader(t) PROVE VariantsOK(s)'
  <2> DEFINE r == [work[t] EXCEPT !.at = IF asset[t] = Gone THEN "failed" ELSE "hashed", !.hash = asset[t]]
  <2>1. work' = [work EXCEPT ![t] = r] /\ work[t].at = "todo" /\ staging = "images"
    BY <1>2 DEF hashReader, FirstWaiting, Waiting
  <2>2. CASE s = t
    <3>1. work'[s] = r /\ asset'[s] = asset[s]
      BY <1>2, <2>1, <2>2 DEF StageTypeOK, hashReader
    <3>2. r.at = (IF asset[t] = Gone THEN "failed" ELSE "hashed") /\ r.hash = asset[t]
      BY DEF StageTypeOK, Works
    <3> QED
      BY <2>2, <3>1, <3>2 DEF VariantsOK, ReadTrue
  <2>3. CASE s # t
    BY <1>2, <2>1, <2>3, VariantsOthers DEF hashReader, VariantsInv
  <2> QED
    BY <2>2, <2>3
<1>3. ASSUME NEW t \in Sources, Decode(t) PROVE VariantsOK(s)'
  <2>1. PICK c \in ReadsAs(t, work[t].hash) :
          work' = [work EXCEPT ![t] =
                     IF Picture[c].format \in {"jpeg", "png"}
                     THEN [@ EXCEPT !.at = "emit", !.content = c, !.left = WidthsOf(c)]
                     ELSE [@ EXCEPT !.at = "failed"]]
    BY <1>3 DEF Decode
  <2>2. work[t].at = "hashed" /\ staging = "images" /\ UNCHANGED <<asset, widths, moved, staged>>
    BY <1>3 DEF Decode
  <2>3. CASE s = t
    <3>1. work[t].hash \in Contents /\ asset[t] \in Contents
      BY DEF StageTypeOK, Works
    <3>2. work[t].hash # Gone /\ (~moved => work[t].hash = asset[t])
      BY <2>2 DEF VariantsInv, VariantsOK, ReadTrue
    <3>3. c \in DOMAIN Picture /\ c # Gone /\ (~moved => c = work[t].hash)
      BY <3>1, <3>2, PictureAssumption DEF ReadsAs, Contents, Gone
    <3>4. CASE ~(Picture[c].format \in {"jpeg", "png"})
      <4>1. work'[s].at = "failed"
        BY <2>1, <2>3, <3>4 DEF StageTypeOK, Works
      <4> QED
        BY <4>1 DEF VariantsOK, ReadTrue
    <3>5. CASE Picture[c].format \in {"jpeg", "png"}
      <4>1. /\ work'[s].at = "emit" /\ work'[s].hash = work[t].hash
            /\ work'[s].content = c /\ work'[s].left = WidthsOf(c)
        BY <2>1, <2>3, <3>5 DEF StageTypeOK, Works
      <4>2. WidthsOf(c)' = WidthsOf(c)
        BY <2>2 DEF WidthsOf
      <4> QED
        BY <2>2, <2>3, <3>2, <3>3, <3>5, <4>1, <4>2 DEF VariantsOK, ReadTrue, Decodable, WidthsOf
    <3> QED
      BY <3>4, <3>5
  <2>4. CASE s # t
    <3>1. PICK r : work' = [work EXCEPT ![t] = r]
      BY <2>1
    <3> QED
      BY <2>2, <2>4, <3>1, VariantsOthers DEF VariantsInv
  <2> QED
    BY <2>3, <2>4
<1>4. ASSUME NEW t \in Sources, OpenVariant(t) PROVE VariantsOK(s)'
  BY <1>4, VariantsOpen
<1>5. ASSUME NEW t \in Sources, encodeImage(t) PROVE VariantsOK(s)'
  BY <1>5, VariantsEncode
<1>6. ASSUME NEW t \in Sources, WorkFails(t) PROVE VariantsOK(s)'
  <2> DEFINE r == [work[t] EXCEPT !.at = "failed"]
  <2>1. work' = [work EXCEPT ![t] = r] /\ r.at = "failed" /\ staging = "images"
    BY <1>6 DEF WorkFails, At, StageTypeOK, Works
  <2>2. CASE s = t
    <3>1. work'[s].at = "failed"
      BY <2>1, <2>2 DEF StageTypeOK
    <3> QED
      BY <3>1 DEF VariantsOK, ReadTrue
  <2>3. CASE s # t
    <3> HIDE DEF r
    <3> QED
      BY <1>6, <2>1, <2>3, VariantsOthers DEF WorkFails, VariantsInv
  <2> QED
    BY <2>2, <2>3
<1>7. ASSUME NEW t \in Sources, NEW to \in LaterAssets, ChangeAsset(t, to) PROVE VariantsOK(s)'
  <2>1. VariantsOK(s) /\ UNCHANGED <<work, widths, staged>> /\ moved'
    BY <1>7 DEF ChangeAsset, VariantsInv
  <2>2. \A name : Sound(name) => Sound(name)'
    BY <2>1, SoundStays
  <2>3. \A name : InHand(name) => InHand(name)'
    BY <2>1 DEF InHand, Turn, VariantName
  <2>4. Failed => Failed'
    BY <2>1 DEF Failed
  <2>5. WidthsOf(work[s].content)' = WidthsOf(work[s].content)
    BY <2>1 DEF WidthsOf
  <2> QED
    BY <2>1, <2>2, <2>3, <2>4, <2>5 DEF VariantsOK, ReadTrue, Decodable, VariantName
<1>8. ASSUME NEW t \in Sources, hashFile(t) \/ OpenCopy(t) \/ copyFile(t) PROVE FALSE
  BY <1>8 DEF hashFile, OpenCopy, copyFile
<1>9. CASE ImagesDone \/ injectImage \/ emitAssetsManifest \/ runViteBuild
  BY <1>9 DEF ImagesDone, injectImage, emitAssetsManifest, runViteBuild
<1>10. CASE ImagesFail \/ ImageErrors \/ CopiesFail \/ KillStaging
  BY <1>10 DEF ImagesFail, ImageErrors, CopiesFail, KillStaging, Broken
<1>11. CASE UNCHANGED stageVars
  <2>1. VariantsOK(s) /\ UNCHANGED <<asset, work, widths, moved, staged>>
    BY <1>11 DEF stageVars, VariantsInv
  <2> QED
    BY <2>1 DEF VariantsOK, ReadTrue, Sound, Whole, AsNamed, InHand, Turn, Failed, WidthsOf,
                VariantName, Decodable
<1> QED
  BY <1>1, <1>2, <1>3, <1>4, <1>5, <1>6, <1>7, <1>8, <1>9, <1>10, <1>11 DEF StageNext

(* With no goroutine left and none failed, no file is in hand.             *)
LEMMA PlanStep == StageInv /\ [StageNext]_stageVars => PlanInv'
<1> SUFFICES ASSUME StageInv, [StageNext]_stageVars, staging' = "lower", NEW s \in DOMAIN variants'
             PROVE  \E c \in DOMAIN Picture, h \in Contents :
                      /\ Decodable(c)
                      /\ variants'[s] = {VariantName(s, h, w) : w \in WidthsOf(c)'}
                      /\ ~moved' => h = asset'[s]
                      /\ \A v \in variants'[s] : Sound(v)'
  BY DEF PlanInv, Decodable, VariantName, WidthsOf
<1> USE DEF StageInv
<1>1. CASE ImagesDone
  <2> DEFINE c == work[s].content
             h == work[s].hash
  <2>1. /\ s \in Sources /\ work[s].at = "ok" /\ staging = "images"
        /\ variants'[s] = {VariantName(s, h, w) : w \in WidthsOf(c)}
    BY <1>1 DEF ImagesDone
  <2>2. VariantsOK(s) /\ UNCHANGED <<asset, widths, moved, staged>>
    BY <1>1, <2>1 DEF ImagesDone, VariantsInv
  <2>3. Decodable(c) /\ c \in DOMAIN Picture /\ h \in Contents /\ (~moved => h = asset[s])
    BY <2>1, <2>2 DEF VariantsOK, ReadTrue, Decodable, StageTypeOK, Works
  <2>4. ASSUME NEW w \in WidthsOf(c) PROVE Sound(VariantName(s, h, w))
    <3>1. w \in WidthsOf(c) \ work[s].left
      BY <2>1, <2>2 DEF VariantsOK
    <3>2. ~Failed /\ \A t \in Sources : work[t].at # "open"
      BY <1>1 DEF ImagesDone, Busy
    <3> QED
      BY <2>1, <2>2, <3>1, <3>2 DEF VariantsOK, InHand
  <2>5. \A v \in variants'[s] : Sound(v)
    BY <2>1, <2>4
  <2>6. \A v \in variants'[s] : Sound(v)'
    BY <2>2, <2>5, SoundStays
  <2>7. ASSUME NEW cc, cc = c PROVE WidthsOf(cc)' = WidthsOf(cc)
    BY <2>2 DEF WidthsOf
  <2> HIDE DEF c, h
  <2> QED
    BY <2>1, <2>2, <2>3, <2>6, <2>7
<1>2. CASE staging = "lower" /\ UNCHANGED <<variants, widths, staged>> /\ (~moved' => ~moved)
           /\ (~moved' => UNCHANGED asset)
  <2>1. PICK c \in DOMAIN Picture, h \in Contents :
          /\ Decodable(c)
          /\ variants[s] = {VariantName(s, h, w) : w \in WidthsOf(c)}
          /\ ~moved => h = asset[s]
          /\ \A v \in variants[s] : Sound(v)
    BY <1>2 DEF PlanInv
  <2>2. \A v \in variants'[s] : Sound(v)'
    BY <1>2, <2>1, SoundStays
  <2>3. WidthsOf(c)' = WidthsOf(c)
    BY <1>2 DEF WidthsOf
  <2> QED
    BY <1>2, <2>1, <2>2, <2>3
<1>3. ASSUME NEW follows \in BOOLEAN, NEW ws \in projectImageWidths, buildImageVariants(follows, ws)
      PROVE  FALSE
  BY <1>3 DEF buildImageVariants
<1>4. ASSUME NEW t \in Sources,
             \/ hashReader(t) \/ Decode(t) \/ OpenVariant(t) \/ encodeImage(t)
             \/ hashFile(t) \/ OpenCopy(t) \/ copyFile(t) \/ WorkFails(t)
      PROVE  FALSE
  BY <1>4 DEF hashReader, Decode, OpenVariant, encodeImage, hashFile, OpenCopy, copyFile, WorkFails
<1>5. ASSUME NEW t \in Sources, NEW to \in LaterAssets, ChangeAsset(t, to)
      PROVE  staging = "lower" /\ UNCHANGED <<variants, widths, staged>> /\ moved'
  BY <1>5 DEF ChangeAsset
<1>6. ~(injectImage \/ emitAssetsManifest \/ runViteBuild \/ ImagesFail \/ ImageErrors \/ CopiesFail \/ KillStaging)
  BY DEF injectImage, emitAssetsManifest, runViteBuild, ImagesFail, ImageErrors, CopiesFail, KillStaging, Broken
<1>7. UNCHANGED stageVars =>
        staging = "lower" /\ UNCHANGED <<variants, widths, staged, moved, asset>>
  BY DEF stageVars
<1> QED
  BY <1>1, <1>2, <1>3, <1>4, <1>5, <1>6, <1>7 DEF StageNext

(* The fallback of an <img> is one of its variants, the intrinsic one. *)
LEMMA WidestIsOne ==
  ASSUME StageTypeOK, PlanInv, staging = "lower", NEW e, e.src \in DOMAIN variants
  PROVE  /\ renderImageHTML(e).of = e.src /\ renderImageHTML(e).srcset = variants[e.src]
         /\ renderImageHTML(e).src \in variants[e.src]
<1> DEFINE vs == variants[e.src]
<1>1. PICK c \in DOMAIN Picture, h \in Contents :
        Decodable(c) /\ vs = {VariantName(e.src, h, w) : w \in WidthsOf(c)}
  BY DEF PlanInv
<1>2. Picture[c].width \in Nat /\ \A w \in WidthsOf(c) : w \in Nat /\ w <= Picture[c].width
  <2>1. Picture[c].width \in Nat \ {0}
    BY <1>1, PictureAssumption DEF Decodable
  <2>2. widths \subseteq Nat
    BY DEF StageTypeOK
  <2>3. ASSUME NEW w \in WidthsOf(c) PROVE w \in Nat /\ w <= Picture[c].width
    <3> HIDE DEF vs
    <3>1. w = Picture[c].width \/ (w \in Nat /\ w < Picture[c].width)
      BY <2>2 DEF WidthsOf
    <3> QED
      BY <2>1, <3>1
  <2> QED
    BY <2>1, <2>3
<1>3. \A u \in vs : u[3] <= VariantName(e.src, h, Picture[c].width)[3]
  BY <1>1, <1>2 DEF VariantName
<1>4. VariantName(e.src, h, Picture[c].width) \in vs
  BY <1>1 DEF WidthsOf
<1>5. (CHOOSE v \in vs : \A u \in vs : u[3] <= v[3]) \in vs
  <2> HIDE DEF vs
  <2> QED
    BY <1>3, <1>4
<1> QED
  BY <1>5 DEF renderImageHTML

(* No variant has the name of a copy. *)
LEMMA WidthsOfNames ==
  ASSUME StageTypeOK, PlanInv, staging = "lower", NEW s \in DOMAIN variants, NEW v \in variants[s]
  PROVE  v[3] # 0 /\ Sound(v) /\ (~moved => v[2] = asset[s])
<1>1. PICK c \in DOMAIN Picture, h \in Contents :
        /\ Decodable(c)
        /\ variants[s] = {VariantName(s, h, w) : w \in WidthsOf(c)}
        /\ ~moved => h = asset[s]
        /\ Sound(v)
  BY DEF PlanInv
<1>2. PICK w \in WidthsOf(c) : v = VariantName(s, h, w)
  BY <1>1
<1>3. w # 0
  BY <1>1, <1>2, PictureAssumption DEF WidthsOf, Decodable, StageTypeOK
<1> QED
  BY <1>1, <1>2, <1>3 DEF VariantName

LEMMA MarkupStep == StageInv /\ [StageNext]_stageVars => MarkupInv'
<1> SUFFICES ASSUME StageInv, [StageNext]_stageVars, staging' = "copies",
                    NEW m \in markup', NEW v \in m.srcset \cup {m.src}
             PROVE  v[3] # 0 /\ Sound(v)' /\ (~moved' => v[2] = asset'[m.of])
  BY DEF MarkupInv
<1> USE DEF StageInv
<1>1. CASE injectImage
  <2>1. PICK e \in elements : m = renderImageHTML(e) /\ e.src \in DOMAIN variants
    BY <1>1 DEF injectImage, Lowerable
  <2>2. staging = "lower" /\ UNCHANGED <<asset, moved, staged>>
    BY <1>1 DEF injectImage
  <2>3. v \in variants[e.src] /\ m.of = e.src
    BY <2>1, <2>2, WidestIsOne
  <2>4. v[3] # 0 /\ Sound(v) /\ (~moved => v[2] = asset[e.src])
    BY <2>1, <2>2, <2>3, WidthsOfNames
  <2> QED
    BY <2>2, <2>3, <2>4, SoundStays
<1>2. CASE staging = "copies" /\ UNCHANGED <<markup, staged>> /\ (~moved' => ~moved)
           /\ (~moved' => UNCHANGED asset)
  BY <1>2, SoundStays DEF MarkupInv
<1>3. ASSUME staging = "copies", UNCHANGED <<asset, markup, moved>>,
             NEW t \in Sources, NEW f, Write(VariantName(t, work[t].hash, 0), f)
      PROVE  v[3] # 0 /\ Sound(v)' /\ (~moved' => v[2] = asset'[m.of])
  <2>1. v[3] # 0 /\ Sound(v) /\ (~moved => v[2] = asset[m.of])
    BY <1>3 DEF MarkupInv
  <2>2. v # VariantName(t, work[t].hash, 0)
    BY <2>1 DEF VariantName
  <2> QED
    BY <1>3, <2>1, <2>2, SoundElsewhere
<1>4. ASSUME NEW t \in Sources, OpenCopy(t)
      PROVE  v[3] # 0 /\ Sound(v)' /\ (~moved' => v[2] = asset'[m.of])
  <2>1. staging = "copies" /\ UNCHANGED <<asset, markup, moved>>
    BY <1>4 DEF OpenCopy
  <2>2. UNCHANGED staged \/ Write(VariantName(t, work[t].hash, 0), Partial)
    BY <1>4 DEF OpenCopy
  <2> QED
    BY <1>2, <1>3, <2>1, <2>2
<1>5. ASSUME NEW t \in Sources, copyFile(t)
      PROVE  v[3] # 0 /\ Sound(v)' /\ (~moved' => v[2] = asset'[m.of])
  BY <1>3, <1>5 DEF copyFile
<1>6. ASSUME NEW t \in Sources, hashFile(t) \/ WorkFails(t)
      PROVE  staging = "copies" /\ UNCHANGED <<asset, markup, staged, moved>>
  BY <1>6 DEF hashFile, WorkFails
<1>7. ASSUME NEW t \in Sources, hashReader(t) \/ Decode(t) \/ OpenVariant(t) \/ encodeImage(t) PROVE FALSE
  BY <1>7 DEF hashReader, Decode, OpenVariant, encodeImage
<1>8. ASSUME NEW t \in Sources, NEW to \in LaterAssets, ChangeAsset(t, to)
      PROVE  staging = "copies" /\ UNCHANGED <<markup, staged>> /\ moved'
  BY <1>8 DEF ChangeAsset
<1>9. ASSUME NEW follows \in BOOLEAN, NEW ws \in projectImageWidths, buildImageVariants(follows, ws)
      PROVE  FALSE
  BY <1>9 DEF buildImageVariants
<1>10. ~(ImagesDone \/ emitAssetsManifest \/ runViteBuild \/ ImagesFail \/ ImageErrors \/ CopiesFail \/ KillStaging)
  BY DEF ImagesDone, emitAssetsManifest, runViteBuild, ImagesFail, ImageErrors, CopiesFail, KillStaging, Broken
<1>11. UNCHANGED stageVars => staging = "copies" /\ UNCHANGED <<markup, staged, moved, asset>>
  BY DEF stageVars
<1> QED
  BY <1>1, <1>2, <1>4, <1>5, <1>6, <1>7, <1>8, <1>9, <1>10, <1>11 DEF StageNext

(* A file that is read, opened or given up leaves the others' copies be,   *)
(* but for one that shares its name, which it then has open.               *)
LEMMA CopiesOthers ==
  ASSUME StageTypeOK, NEW t \in Sources, NEW r, work' = [work EXCEPT ![t] = r],
         UNCHANGED <<asset, moved>>,
         work[t].at \in {"todo", "hashed"} \/ r.at = "failed",
         \/ UNCHANGED staged
         \/ /\ r.at = "open" /\ r.hash = work[t].hash
            /\ Write(VariantName(t, work[t].hash, 0), Partial),
         NEW s \in Sources, s # t, CopyOK(s)
  PROVE  CopyOK(s)'
<1>1. work'[s] = work[s] /\ work'[t] = r /\ \A u \in Sources : u # t => work'[u] = work[u]
  BY DEF StageTypeOK
<1>2. ReadTrue(s)'
  BY <1>1 DEF CopyOK, ReadTrue
<1>3. ASSUME NEW name, Sound(name) \/ CopyInHand(name) \/ Failed
      PROVE  Sound(name)' \/ CopyInHand(name)' \/ Failed'
  <2>1. CASE r.at = "failed"
    BY <2>1, FailedNow
  <2>2. CASE r.at # "failed" /\ Failed
    BY <2>2, FailedStays
  <2>3. CASE r.at # "failed" /\ CopyInHand(name)
    BY <1>1, <2>3 DEF CopyInHand, VariantName
  <2>4. CASE r.at # "failed" /\ Sound(name) /\ UNCHANGED staged
    BY <2>4, SoundStays
  <2>5. CASE r.at # "failed" /\ Sound(name) /\ ~UNCHANGED staged /\ name # VariantName(t, work[t].hash, 0)
    BY <2>5, SoundElsewhere
  <2>6. CASE r.at # "failed" /\ Sound(name) /\ ~UNCHANGED staged /\ name = VariantName(t, work[t].hash, 0)
    BY <1>1, <2>6 DEF CopyInHand, VariantName
  <2> QED
    BY <1>3, <2>1, <2>2, <2>3, <2>4, <2>5, <2>6
<1> QED
  BY <1>1, <1>2, <1>3 DEF CopyOK, CopyInHand, VariantName

LEMMA CopiesStep == StageInv /\ [StageNext]_stageVars => CopiesInv'
<1> SUFFICES ASSUME StageInv, [StageNext]_stageVars, staging' = "copies", NEW s \in Sources
             PROVE  CopyOK(s)'
  BY DEF CopiesInv
<1> USE DEF StageInv
<1>1. CASE injectImage
  <2>1. work'[s].at \in {"none", "todo"}
    BY <1>1 DEF injectImage, NoWork
  <2> QED
    BY <2>1 DEF CopyOK, ReadTrue
<1>2. ASSUME NEW t \in Sources, hashFile(t) PROVE CopyOK(s)'
  <2> DEFINE r == [work[t] EXCEPT !.at = IF asset[t] = Gone THEN "failed" ELSE "hashed", !.hash = asset[t]]
  <2>1. work' = [work EXCEPT ![t] = r] /\ work[t].at = "todo" /\ staging = "copies"
    BY <1>2 DEF hashFile, FirstWaiting, Waiting
  <2>2. CASE s = t
    <3>1. work'[s] = r /\ asset'[s] = asset[s]
      BY <1>2, <2>1, <2>2 DEF StageTypeOK, hashFile
    <3>2. r.at = (IF asset[t] = Gone THEN "failed" ELSE "hashed") /\ r.hash = asset[t]
      BY DEF StageTypeOK, Works
    <3> QED
      BY <2>2, <3>1, <3>2 DEF CopyOK, ReadTrue
  <2>3. CASE s # t
    <3> HIDE DEF r
    <3> QED
      BY <1>2, <2>1, <2>3, CopiesOthers DEF hashFile, CopiesInv
  <2> QED
    BY <2>2, <2>3
<1>3. ASSUME NEW t \in Sources, OpenCopy(t) PROVE CopyOK(s)'
  <2>1. staging = "copies" /\ work[t].at = "hashed" /\ UNCHANGED <<asset, moved>>
    BY <1>3 DEF OpenCopy
  <2>2. CASE asset[t] = Gone
    <3> DEFINE r == [work[t] EXCEPT !.at = "failed"]
    <3>1. work' = [work EXCEPT ![t] = r] /\ r.at = "failed" /\ UNCHANGED staged
      BY <1>3, <2>2 DEF OpenCopy, At, StageTypeOK, Works
    <3>2. CASE s = t
      <4>1. work'[s].at = "failed"
        BY <3>1, <3>2 DEF StageTypeOK
      <4> QED
        BY <4>1 DEF CopyOK, ReadTrue
    <3>3. CASE s # t
      <4> HIDE DEF r
      <4> QED
        BY <2>1, <3>1, <3>3, CopiesOthers DEF CopiesInv
    <3> QED
      BY <3>2, <3>3
  <2>3. CASE asset[t] # Gone
    <3> DEFINE r == [work[t] EXCEPT !.at = "open", !.content = asset[t]]
    <3>1. work' = [work EXCEPT ![t] = r] /\ Write(VariantName(t, work[t].hash, 0), Partial)
      BY <1>3, <2>3 DEF OpenCopy
    <3>2. r.at = "open" /\ r.hash = work[t].hash /\ r.content = asset[t]
      BY DEF StageTypeOK, Works
    <3>3. CASE s = t
      <4>1. work'[s] = r
        BY <3>1, <3>3 DEF StageTypeOK
      <4>2. work[t].hash # Gone /\ (~moved => work[t].hash = asset[t])
        BY <2>1 DEF CopiesInv, CopyOK, ReadTrue
      <4> HIDE DEF r
      <4> QED
        BY <2>1, <2>3, <3>2, <3>3, <4>1, <4>2 DEF CopyOK, ReadTrue
    <3>4. CASE s # t
      <4> HIDE DEF r
      <4> QED
        BY <2>1, <3>1, <3>2, <3>4, CopiesOthers DEF CopiesInv
    <3> QED
      BY <3>3, <3>4
  <2> QED
    BY <2>2, <2>3
<1>4. ASSUME NEW t \in Sources, copyFile(t) PROVE CopyOK(s)'
  <2>1. PICK c \in ReadsAs(t, work[t].content) : Write(VariantName(t, work[t].hash, 0), [of |-> c, width |-> 0])
    BY <1>4 DEF copyFile
  <2>2. /\ \A u \in Sources : u # t => work'[u] = work[u]
        /\ work'[t].at = "ok" /\ work'[t].hash = work[t].hash /\ work'[t].content = work[t].content
    BY <1>4 DEF copyFile, At, StageTypeOK, Works
  <2>3. /\ staging = "copies" /\ work[t].at = "open" /\ UNCHANGED <<asset, moved>>
        /\ CopyOK(s) /\ CopyOK(t)
    BY <1>4 DEF copyFile, CopiesInv
  <2>4. c # Gone /\ (~moved => c = work[t].hash)
    BY <2>3 DEF CopyOK, ReadTrue, ReadsAs
  <2>5. ASSUME NEW h, h = work[t].hash PROVE Sound(VariantName(t, h, 0))'
    BY <2>1, <2>3, <2>4, <2>5, SoundCopy
  <2>6. ASSUME NEW name, Sound(name) \/ CopyInHand(name) \/ Failed
        PROVE  Sound(name)' \/ CopyInHand(name)' \/ Failed'
    <3>1. CASE name = VariantName(t, work[t].hash, 0)
      BY <2>5, <3>1 DEF VariantName
    <3>2. CASE Sound(name) /\ name # VariantName(t, work[t].hash, 0)
      BY <2>1, <2>3, <3>2, SoundElsewhere
    <3>3. CASE CopyInHand(name) /\ name # VariantName(t, work[t].hash, 0)
      BY <2>2, <3>3 DEF CopyInHand, VariantName
    <3>4. CASE Failed
      BY <2>2, <2>3, <3>4 DEF Failed
    <3> QED
      BY <2>6, <3>1, <3>2, <3>3, <3>4
  <2>7. ReadTrue(s)'
    BY <2>2, <2>3 DEF CopyOK, ReadTrue
  <2>8. CASE s = t
    BY <2>2, <2>5, <2>7, <2>8 DEF CopyOK, VariantName
  <2>9. CASE s # t
    BY <2>2, <2>3, <2>6, <2>7, <2>9 DEF CopyOK, CopyInHand, VariantName
  <2> QED
    BY <2>8, <2>9
<1>5. ASSUME NEW t \in Sources, WorkFails(t) PROVE CopyOK(s)'
  <2> DEFINE r == [work[t] EXCEPT !.at = "failed"]
  <2>1. work' = [work EXCEPT ![t] = r] /\ r.at = "failed" /\ staging = "copies"
    BY <1>5 DEF WorkFails, At, StageTypeOK, Works
  <2>2. CASE s = t
    <3>1. work'[s].at = "failed"
      BY <2>1, <2>2 DEF StageTypeOK
    <3> QED
      BY <3>1 DEF CopyOK, ReadTrue
  <2>3. CASE s # t
    <3> HIDE DEF r
    <3> QED
      BY <1>5, <2>1, <2>3, CopiesOthers DEF WorkFails, CopiesInv
  <2> QED
    BY <2>2, <2>3
<1>6. ASSUME NEW t \in Sources, NEW to \in LaterAssets, ChangeAsset(t, to) PROVE CopyOK(s)'
  <2>1. CopyOK(s) /\ UNCHANGED <<work, staged>> /\ moved'
    BY <1>6 DEF ChangeAsset, CopiesInv
  <2>2. \A name : Sound(name) => Sound(name)'
    BY <2>1, SoundStays
  <2> QED
    BY <2>1, <2>2 DEF CopyOK, CopyInHand, ReadTrue, Failed, VariantName
<1>7. ASSUME NEW t \in Sources, hashReader(t) \/ Decode(t) \/ OpenVariant(t) \/ encodeImage(t) PROVE FALSE
  BY <1>7 DEF hashReader, Decode, OpenVariant, encodeImage
<1>8. ASSUME NEW follows \in BOOLEAN, NEW ws \in projectImageWidths, buildImageVariants(follows, ws)
      PROVE  FALSE
  BY <1>8 DEF buildImageVariants
<1>9. ~(ImagesDone \/ emitAssetsManifest \/ runViteBuild \/ ImagesFail \/ ImageErrors \/ CopiesFail \/ KillStaging)
  BY DEF ImagesDone, emitAssetsManifest, runViteBuild, ImagesFail, ImageErrors, CopiesFail, KillStaging, Broken
<1>10. CASE UNCHANGED stageVars
  <2>1. CopyOK(s) /\ UNCHANGED <<asset, work, moved, staged>>
    BY <1>10 DEF stageVars, CopiesInv
  <2> QED
    BY <2>1 DEF CopyOK, CopyInHand, ReadTrue, Sound, Whole, AsNamed, Failed, VariantName
<1> QED
  BY <1>1, <1>2, <1>3, <1>4, <1>5, <1>6, <1>7, <1>8, <1>9, <1>10 DEF StageNext

(* The table is written when no copy is in hand and none has failed.       *)
LEMMA URLsStep == StageInv /\ [StageNext]_stageVars => URLsResolve'
<1> SUFFICES ASSUME StageInv, [StageNext]_stageVars, staging' = "done", ~bundling'
             PROVE  /\ \A s \in DOMAIN urls' :
                          Whole(urls[s])' /\ (~moved' => urls'[s][2] = asset'[s] /\ AsNamed(urls[s])')
                    /\ \A m \in markup' : \A v \in m.srcset \cup {m.src} :
                          Whole(v)' /\ (~moved' => v[2] = asset'[m.of] /\ AsNamed(v)')
  BY DEF URLsResolve
<1> USE DEF StageInv
<1>1. CASE emitAssetsManifest
  <2>1. staging = "copies" /\ UNCHANGED <<asset, moved, staged, markup>> /\ ~Failed
        /\ \A t \in Sources : work[t].at # "open"
    BY <1>1 DEF emitAssetsManifest, Busy
  <2>2. ASSUME NEW s \in DOMAIN urls'
        PROVE  Sound(urls'[s]) /\ (~moved => urls'[s][2] = asset[s])
    <3>1. s \in Sources /\ work[s].at = "ok" /\ urls'[s] = VariantName(s, work[s].hash, 0)
      BY <1>1 DEF emitAssetsManifest
    <3>2. CopyOK(s)
      BY <2>1, <3>1 DEF CopiesInv
    <3> QED
      BY <2>1, <3>1, <3>2 DEF CopyOK, CopyInHand, ReadTrue, VariantName
  <2>3. \A m \in markup : \A v \in m.srcset \cup {m.src} : Sound(v) /\ (~moved => v[2] = asset[m.of])
    BY <2>1 DEF MarkupInv
  <2> QED
    BY <2>1, <2>2, <2>3 DEF Sound, Whole, AsNamed
<1>2. CASE staging = "done" /\ UNCHANGED <<bundling, staged, markup, urls>> /\ (~moved' => ~moved)
           /\ (~moved' => UNCHANGED asset)
  BY <1>2 DEF URLsResolve, Whole, AsNamed
<1>3. ASSUME NEW follows \in BOOLEAN, NEW ws \in projectImageWidths, buildImageVariants(follows, ws)
      PROVE  FALSE
  BY <1>3 DEF buildImageVariants
<1>4. ASSUME NEW t \in Sources,
             \/ hashReader(t) \/ Decode(t) \/ OpenVariant(t) \/ encodeImage(t)
             \/ hashFile(t) \/ OpenCopy(t) \/ copyFile(t) \/ WorkFails(t)
      PROVE  FALSE
  BY <1>4 DEF hashReader, Decode, OpenVariant, encodeImage, hashFile, OpenCopy, copyFile, WorkFails
<1>5. ASSUME NEW t \in Sources, NEW to \in LaterAssets, ChangeAsset(t, to)
      PROVE  staging = "done" /\ UNCHANGED <<bundling, staged, markup, urls>> /\ moved'
  BY <1>5 DEF ChangeAsset
<1>6. ~(injectImage \/ ImagesDone \/ runViteBuild \/ ImagesFail \/ ImageErrors \/ CopiesFail \/ KillStaging)
  BY DEF injectImage, ImagesDone, runViteBuild, ImagesFail, ImageErrors, CopiesFail, KillStaging, Broken
<1>7. UNCHANGED stageVars =>
        staging = "done" /\ UNCHANGED <<bundling, staged, markup, urls, moved, asset>>
  BY DEF stageVars
<1> QED
  BY <1>1, <1>2, <1>3, <1>4, <1>5, <1>6, <1>7 DEF StageNext

LEMMA BundlingStep == StageInv /\ [StageNext]_stageVars => (staging' = "vite" => bundling')
<1> SUFFICES ASSUME StageInv, [StageNext]_stageVars, staging' = "vite" PROVE bundling'
  OBVIOUS
<1>1. (emitAssetsManifest /\ bundling) \/ (staging = "vite" /\ UNCHANGED bundling)
  BY DEF StageNext, buildImageVariants, hashReader, Decode, OpenVariant, encodeImage, hashFile,
         OpenCopy, copyFile, WorkFails, ChangeAsset, ImagesDone, ImagesFail, injectImage, ImageErrors,
         emitAssetsManifest, CopiesFail, runViteBuild, KillStaging, Broken, stageVars
<1> QED
  BY <1>1 DEF StageInv, emitAssetsManifest

(* Every URL a finished pass hands out is a whole file, the right one when *)
(* no asset changed under the pass, for any assets, templates, widths and  *)
(* number of goroutines, and whatever broken passes left (images.Build,    *)
(* assets.Build, renderImageHTML).                                         *)
THEOREM AssetsResolve == StageSpec => []URLsResolve
<1>1. StageInit => StageInv
  BY StageTypeInit
     DEF StageInit, StageInv, VariantsInv, PlanInv, MarkupInv, CopiesInv, URLsResolve
<1>2. StageInv /\ [StageNext]_stageVars => StageInv'
  <2> SUFFICES ASSUME StageInv, [StageNext]_stageVars PROVE StageInv'
    OBVIOUS
  <2>1. StageTypeOK'
    BY StageTypeStep DEF StageInv
  <2> QED
    BY <2>1, BundlingStep, VariantsStep, PlanStep, MarkupStep, CopiesStep, URLsStep DEF StageInv
<1>3. StageInv => URLsResolve
  BY DEF StageInv
<1> QED
  BY <1>1, <1>2, <1>3, PTL DEF StageSpec

-----------------------------------------------------------------------------
(* Prerendered pages. *)

(* The route tables do not change, and with them nothing that is said of a *)
(* release.                                                                *)
LEMMA SameTables ==
  ASSUME UNCHANGED tables
  PROVE  /\ \A n : JobsOf(n)' = JobsOf(n) /\ EntriesOf(n)' = EntriesOf(n) /\ Apart(n)' = Apart(n)
         /\ \A n, p, kind : PageOf(n, p, kind)' = PageOf(n, p, kind)
         /\ Releases' = Releases /\ Jobs' = Jobs /\ Bodies' = Bodies /\ Rows' = Rows
<1>1. \A n, p, kind : PageOf(n, p, kind)' = PageOf(n, p, kind)
  BY DEF PageOf
<1>2. \A n : JobsOf(n)' = JobsOf(n)
  BY DEF JobsOf
<1>3. \A n : EntriesOf(n)' = EntriesOf(n)
  BY <1>1, <1>2 DEF EntriesOf, EntryFor
<1>4. \A n : Apart(n)' = Apart(n)
  BY DEF Apart
<1>5. Releases' = Releases /\ Jobs' = Jobs
  BY DEF Releases, Jobs
<1>6. Bodies' = Bodies /\ Rows' = Rows
  BY <1>3, <1>5 DEF Bodies, Rows
<1> QED
  BY <1>1, <1>2, <1>3, <1>4, <1>5, <1>6

(* A job that is planned has a route, and a path of the site. *)
LEMMA JobRoute ==
  ASSUME NEW n, NEW j \in planPrerenderJobs(tables[n])
  PROVE  \E r \in tables[n] :
           /\ Wanted(r) /\ j = [route |-> r.pattern, path |-> j.path, protected |-> r.protected]
           /\ j.path \in IF r.dynamic THEN r.entries ELSE {r.pattern}
  BY DEF planPrerenderJobs

LEMMA JobShape ==
  ASSUME NEW n, NEW j \in JobsOf(n)
  PROVE  j = [route |-> j.route, path |-> j.path, protected |-> j.protected]
<1>1. PICK r \in tables[n] : j = [route |-> r.pattern, path |-> j.path, protected |-> r.protected]
  BY JobRoute DEF JobsOf
<1> QED
  BY <1>1

LEMMA JobFile ==
  ASSUME tables \in Sites, NEW n \in Releases, NEW j \in JobsOf(n)
  PROVE  j.path \in SitePaths /\ fileOf(j.path) \in Files
<1>1. PICK r \in tables[n] :
        Wanted(r) /\ j.path \in IF r.dynamic THEN r.entries ELSE {r.pattern}
  BY JobRoute DEF JobsOf
<1>2. j.path \in SitePaths \cup {None}
  BY <1>1, SitesAssumption DEF Wanted, Releases, SitePaths, None
<1> QED
  BY <1>2 DEF JobsOf, fileOf, Files

LEMMA EntryFacts ==
  ASSUME tables \in Sites, NEW n \in Releases, NEW e \in EntriesOf(n)
  PROVE  /\ JobOf(e) \in JobsOf(n) /\ e.file = fileOf(e.path) /\ e.file \in Files
         /\ e.page \in Bodies /\ e.page.release = n /\ e.page.path = e.path
<1>1. PICK j \in JobsOf(n), kind \in Kinds : e = EntryFor(n, j, kind)
  BY DEF EntriesOf
<1>2. e.path = j.path /\ e.route = j.route /\ e.protected = j.protected /\ e.file = fileOf(j.path)
      /\ e.page = PageOf(n, j.path, kind)
  BY <1>1 DEF EntryFor
<1>3. j = [route |-> j.route, path |-> j.path, protected |-> j.protected]
  BY JobShape
<1>4. JobOf(e) = j
  BY <1>2, <1>3 DEF JobOf
<1>5. e.page.release = n /\ e.page.path = j.path
  BY <1>2 DEF PageOf
<1>6. e.page \in Bodies
  BY DEF Bodies
<1> QED
  BY <1>2, <1>4, <1>5, <1>6, JobFile

(* A page whose route is protected is listed as protected, when no other   *)
(* job has its file: the route that answers has a job of its own.          *)
LEMMA ProtectedAsPlanned ==
  ASSUME NEW n, NEW j \in JobsOf(n), NEW kind, Apart(n), PageOf(n, j.path, kind).protected
  PROVE  j.protected
<1> DEFINE p == j.path
           own == {r \in tables[n] : r.page /\ ~r.dynamic /\ r.pattern = p}
           a == Answers(tables[n], p)
<1>1. PICK r \in tables[n] : Wanted(r) /\ p \in IF r.dynamic THEN r.entries ELSE {r.pattern}
  BY JobRoute DEF JobsOf
<1>2. a \in tables[n] /\ p \in IF a.dynamic THEN a.entries ELSE {a.pattern}
  <2>1. CASE own # {}
    <3>1. a = CHOOSE r1 \in own : TRUE
      BY <2>1 DEF Answers
    <3>2. a \in own
      BY <2>1, <3>1
    <3> QED
      BY <3>2
  <2>2. CASE own = {}
    <3>1. a = CHOOSE r1 \in tables[n] : r1.page /\ r1.dynamic /\ p \in r1.entries
      BY <2>2 DEF Answers
    <3>2. r.page /\ r.dynamic /\ p \in r.entries
      BY <1>1, <2>2 DEF Wanted
    <3> QED
      BY <3>1, <3>2
  <2> QED
    BY <2>1, <2>2
<1>3. Wanted(a) /\ a.protected
  BY DEF PageOf
<1> DEFINE k == [route |-> a.pattern, path |-> p, protected |-> a.protected]
<1>4. k \in planPrerenderJobs(tables[n])
  <2> DEFINE mine == {[route |-> a.pattern, path |-> q, protected |-> a.protected] :
                        q \in IF a.dynamic THEN a.entries ELSE {a.pattern}}
  <2>1. k \in mine
    BY <1>2
  <2> HIDE DEF a, k
  <2>2. mine \in {{[route |-> r1.pattern, path |-> q, protected |-> r1.protected] :
                    q \in IF r1.dynamic THEN r1.entries ELSE {r1.pattern}} : r1 \in {r1 \in tables[n] : Wanted(r1)}}
    BY <1>2, <1>3
  <2> QED
    BY <2>1, <2>2 DEF planPrerenderJobs
<1>5. j = k
  <2>1. k.path = j.path
    OBVIOUS
  <2> HIDE DEF k
  <2> QED
    BY <1>4, <2>1 DEF Apart, JobsOf
<1> QED
  BY <1>3, <1>5

LEMMA FirstRelease == tables \in Sites => 1 \in Releases
<1> SUFFICES ASSUME tables \in Sites PROVE 1 \in DOMAIN tables
  BY DEF Releases
<1>1. tables # <<>> /\ tables \in Seq({tables[n] : n \in DOMAIN tables})
  BY SitesAssumption
<1> QED
  BY <1>1

LEMMA NoRows == tables \in Sites => <<>> \in Rows /\ \A n : <<>> \in Seq(EntriesOf(n))
  BY FirstRelease DEF Rows

(* An empty manifest is one of any release. *)
LEMMA NothingListed ==
  ASSUME tables \in Sites, NEW n, NEW rows, rows = <<>>, NEW files
  PROVE  Remaining(n, rows, files) /\ Faithful(n, rows, files)
<1>1. rows \in Seq(EntriesOf(n)) /\ DOMAIN rows = {}
  BY NoRows
<1> QED
  BY <1>1 DEF Remaining, Faithful

(* A pass that is over, however it ended, promises nothing of itself.      *)
LEMMA FinishedType ==
  ASSUME PrerenderTypeOK, UNCHANGED tables,
         NEW result \in {None, "ok", "failed", "killed"}, pass' = Finished(result)
  PROVE  PassTypeOK' /\ PassInv'
<1>1. 1 \in Releases' /\ <<>> \in Rows' /\ NoFile \in Bodies'
  BY FirstRelease, NoRows, SameTables DEF PrerenderTypeOK, Bodies
<1>2. pass'.pc = "idle"
  BY DEF Finished
<1>3. PassTypeOK'
  BY <1>1 DEF Finished, PassTypeOK, Places
<1> QED
  BY <1>2, <1>3 DEF PassInv

(* What a write to a file, or to the manifest, leaves alone. *)
LEMMA PutFacts ==
  ASSUME TreesTypeOK, NEW d \in Places, NEW f \in Files, NEW c, trees' = Put(d, f, c)
  PROVE  /\ \A g \in Files : trees'[d].files[g] = IF g = f THEN c ELSE trees[d].files[g]
         /\ trees'[d].manifest = trees[d].manifest
         /\ \A x \in Places : x # d => trees'[x] = trees[x]
  BY DEF TreesTypeOK, Put

LEMMA PutType ==
  ASSUME TreesTypeOK, UNCHANGED tables, NEW d \in Places, NEW f \in Files, NEW c \in Bodies,
         trees' = Put(d, f, c)
  PROVE  TreesTypeOK'
<1>1. [trees[d] EXCEPT !.files = [@ EXCEPT ![f] = c]] \in
        [files : [Files -> Bodies], routes : BOOLEAN,
         manifest : [state : {"none", "torn", "whole"}, rows : Rows]]
  BY DEF TreesTypeOK
<1>2. trees' = [trees EXCEPT ![d] = [trees[d] EXCEPT !.files = [@ EXCEPT ![f] = c]]]
  BY DEF Put
<1> QED
  BY <1>1, <1>2, SameTables DEF TreesTypeOK

LEMMA ManifestFacts ==
  ASSUME TreesTypeOK, NEW d \in Places, NEW m, trees' = [trees EXCEPT ![d].manifest = m]
  PROVE  /\ trees'[d].files = trees[d].files /\ trees'[d].manifest = m
         /\ \A x \in Places : x # d => trees'[x] = trees[x]
  BY DEF TreesTypeOK

LEMMA ManifestType ==
  ASSUME TreesTypeOK, UNCHANGED tables, NEW d \in Places,
         NEW m \in [state : {"none", "torn", "whole"}, rows : Rows],
         trees' = [trees EXCEPT ![d].manifest = m]
  PROVE  TreesTypeOK'
<1>1. [trees[d] EXCEPT !.manifest = m] \in
        [files : [Files -> Bodies], routes : BOOLEAN,
         manifest : [state : {"none", "torn", "whole"}, rows : Rows]]
  BY DEF TreesTypeOK
<1> QED
  BY <1>1, SameTables DEF TreesTypeOK

LEMMA IdleCore ==
  ASSUME CoreInv, UNCHANGED <<tables, release, trees>>,
         NEW result \in {None, "ok", "failed", "killed"}, pass' = Finished(result)
  PROVE  CoreInv'
<1>1. TreesTypeOK' /\ tables' \in Sites /\ release' \in Releases'
  BY SameTables DEF CoreInv, PrerenderTypeOK, TreesTypeOK
<1> QED
  BY <1>1, FinishedType DEF CoreInv, PrerenderTypeOK

LEMMA StartPassCore ==
  ASSUME CoreInv, NEW place \in Places, StartPass(place), UNCHANGED <<tables, release, trees>>
  PROVE  CoreInv'
<1>1. pass' = [pc |-> "clean", place |-> place, release |-> release, jobs |-> {}, job |-> NoJob,
               page |-> NoFile, entries |-> <<>>, errors |-> 0, result |-> None]
  BY DEF StartPass, Finished
<1>2. <<>> \in Rows' /\ NoFile \in Bodies' /\ release \in Releases' /\ TreesTypeOK'
  BY NoRows, SameTables DEF CoreInv, PrerenderTypeOK, Bodies, TreesTypeOK
<1>3. PassTypeOK'
  BY <1>1, <1>2 DEF PassTypeOK
<1>4. PassInv'
  BY <1>1 DEF PassInv
<1> QED
  BY <1>2, <1>3, <1>4 DEF CoreInv, PrerenderTypeOK

LEMMA NewReleaseCore == CoreInv /\ NewRelease => CoreInv'
<1> SUFFICES ASSUME CoreInv, NewRelease PROVE CoreInv'
  OBVIOUS
<1>1. UNCHANGED <<tables, trees, pass>> /\ release < Len(tables) /\ release' = release + 1
  BY DEF NewRelease
<1>2. release' \in Releases'
  BY <1>1, SitesAssumption DEF CoreInv, PrerenderTypeOK, Releases
<1>3. TreesTypeOK' /\ PassTypeOK'
  BY <1>1, SameTables DEF CoreInv, PrerenderTypeOK, TreesTypeOK, PassTypeOK
<1>4. PassInv'
  BY <1>1, SameTables DEF CoreInv, PassInv, Faithful
<1> QED
  BY <1>1, <1>2, <1>3, <1>4 DEF CoreInv, PrerenderTypeOK

LEMMA RemoveCore == CoreInv /\ RemoveOne => CoreInv'
<1> SUFFICES ASSUME CoreInv, RemoveOne PROVE CoreInv'
  OBVIOUS
<1>1. pass.pc = "clean" /\ UNCHANGED <<tables, release, pass>> /\ pass.place \in Places
  BY DEF RemoveOne, CoreInv, PrerenderTypeOK, PassTypeOK
<1>2. TreesTypeOK'
  <2>1. ASSUME NEW f \in Files, trees' = Put(pass.place, f, NoFile) PROVE TreesTypeOK'
    BY <1>1, <2>1, PutType DEF CoreInv, PrerenderTypeOK, Bodies
  <2>2. ASSUME trees' = [trees EXCEPT ![pass.place].manifest = EmptyTree.manifest, ![pass.place].routes = FALSE]
        PROVE  TreesTypeOK'
    <3>1. [trees[pass.place] EXCEPT !.manifest = EmptyTree.manifest, !.routes = FALSE] \in
            [files : [Files -> Bodies], routes : BOOLEAN,
             manifest : [state : {"none", "torn", "whole"}, rows : Rows]]
      <4>1. EmptyTree.manifest \in [state : {"none", "torn", "whole"}, rows : Rows]
        BY NoRows DEF CoreInv, PrerenderTypeOK, EmptyTree, Manifest
      <4> QED
        BY <1>1, <4>1 DEF CoreInv, PrerenderTypeOK, TreesTypeOK
    <3>2. trees' = [trees EXCEPT ![pass.place] =
                      [trees[pass.place] EXCEPT !.manifest = EmptyTree.manifest, !.routes = FALSE]]
      BY <1>1, <2>2 DEF CoreInv, PrerenderTypeOK, TreesTypeOK
    <3> QED
      BY <1>1, <3>1, <3>2, SameTables DEF CoreInv, PrerenderTypeOK, TreesTypeOK
  <2> QED
    BY <2>1, <2>2 DEF RemoveOne
<1>3. PassTypeOK' /\ release' \in Releases'
  BY <1>1, SameTables DEF CoreInv, PrerenderTypeOK, PassTypeOK
<1>4. PassInv'
  BY <1>1 DEF CoreInv, PassInv
<1> QED
  BY <1>1, <1>2, <1>3, <1>4 DEF CoreInv, PrerenderTypeOK

LEMMA PlanCore == CoreInv /\ Plan => CoreInv'
<1> SUFFICES ASSUME CoreInv, Plan PROVE CoreInv'
  OBVIOUS
<1> DEFINE n == pass.release
           jobs == planPrerenderJobs(tables[n])
<1>1. CASE pass' = Finished("failed")
  BY <1>1, IdleCore DEF Plan
<1>2. CASE pass' = [pass EXCEPT !.pc = "jobs", !.jobs = jobs] /\ \A j \in jobs : j.path # None
  <2>1. /\ pass.pc = "clean" /\ trees[pass.place] = EmptyTree /\ UNCHANGED <<tables, release, trees>>
        /\ n \in Releases
    BY DEF Plan, RemovedAll, CoreInv, PrerenderTypeOK, PassTypeOK
  <2>2. /\ pass'.pc = "jobs" /\ pass'.jobs = jobs /\ pass'.place = pass.place /\ pass'.release = n
        /\ pass'.entries = pass.entries /\ pass.entries = <<>>
    BY <1>2, <2>1 DEF CoreInv, PrerenderTypeOK, PassTypeOK, PassInv
  <2>3. PassTypeOK'
    <3>1. jobs \subseteq Jobs
      BY <2>1 DEF Jobs
    <3> HIDE DEF jobs
    <3> QED
      BY <1>2, <2>1, <3>1, SameTables DEF CoreInv, PrerenderTypeOK, PassTypeOK
  <2>4. jobs \subseteq JobsOf(n)
    BY <1>2 DEF JobsOf
  <2>5. EmptyTree.manifest.rows = <<>>
    BY DEF EmptyTree, Manifest
  <2>6. PassInv'
    <3> HIDE DEF jobs
    <3> QED
      BY <2>1, <2>2, <2>4, <2>5, SameTables DEF PassInv, Faithful
  <2>7. TreesTypeOK' /\ release' \in Releases'
    BY <2>1, SameTables DEF CoreInv, PrerenderTypeOK, TreesTypeOK
  <2> QED
    BY <2>1, <2>3, <2>6, <2>7 DEF CoreInv, PrerenderTypeOK
<1> QED
  BY <1>1, <1>2 DEF Plan, Fail

(* The file of a job that is not done is none of the files that are. *)
LEMMA OtherFile ==
  ASSUME tables \in Sites, NEW n \in Releases, Apart(n), NEW e \in EntriesOf(n), NEW j \in JobsOf(n),
         JobOf(e) # j
  PROVE  e.file # fileOf(j.path)
<1>1. JobOf(e) \in JobsOf(n) /\ e.file = fileOf(e.path)
  BY EntryFacts
<1>2. JobOf(e).path = e.path
  BY DEF JobOf
<1> QED
  BY <1>1, <1>2 DEF Apart, JobsOf

(* So the pages that are listed survive the write of another one. *)
LEMMA FaithfulPut ==
  ASSUME tables \in Sites, TreesTypeOK, UNCHANGED tables, NEW n \in Releases, NEW d \in Places,
         NEW rows, Faithful(n, rows, trees[d].files),
         NEW j \in JobsOf(n), \A i \in DOMAIN rows : JobOf(rows[i]) # j,
         NEW c, trees' = Put(d, fileOf(j.path), c), NEW files, files = trees'[d].files
  PROVE  Faithful(n, rows, files)'
<1>1. fileOf(j.path) \in Files
  BY JobFile
<1>2. \A g \in Files : g # fileOf(j.path) => files[g] = trees[d].files[g]
  BY <1>1, PutFacts
<1>3. ASSUME Apart(n), NEW i \in DOMAIN rows PROVE files[rows[i].file] = rows[i].page
  <2>1. rows[i] \in EntriesOf(n)
    BY DEF Faithful
  <2>2. rows[i].file \in Files /\ rows[i].file # fileOf(j.path)
    BY <1>3, <2>1, EntryFacts, OtherFile
  <2> QED
    BY <1>2, <1>3, <2>2 DEF Faithful
<1> QED
  BY <1>3, SameTables DEF Faithful

LEMMA JobCore == ASSUME CoreInv, NEW j \in pass.jobs, runOnePrerenderJob(j) PROVE CoreInv'
<1> DEFINE n == pass.release
<1>1. /\ pass.pc = "jobs" /\ UNCHANGED <<tables, release>> /\ n \in Releases /\ pass.place \in Places
      /\ release' \in Releases' /\ tables \in Sites
  BY SameTables DEF runOnePrerenderJob, CoreInv, PrerenderTypeOK, PassTypeOK
<1>2. /\ pass.jobs \subseteq JobsOf(n) /\ Faithful(n, pass.entries, trees[pass.place].files)
      /\ \A i \in DOMAIN pass.entries : JobOf(pass.entries[i]) \notin pass.jobs
      /\ trees[pass.place].manifest.rows = <<>>
  BY <1>1 DEF CoreInv, PassInv
<1>3. CASE pass' = [pass EXCEPT !.jobs = @ \ {j}, !.errors = @ + 1] /\ UNCHANGED trees
  <2>1. /\ pass'.pc = "jobs" /\ pass'.place = pass.place /\ pass'.release = n
        /\ pass'.entries = pass.entries /\ pass'.jobs = pass.jobs \ {j}
    BY <1>1, <1>3 DEF CoreInv, PrerenderTypeOK, PassTypeOK
  <2>2. PassTypeOK'
    <3>1. pass.errors \in Nat /\ pass.jobs \in SUBSET Jobs
      BY DEF CoreInv, PrerenderTypeOK, PassTypeOK
    <3>2. pass.errors + 1 \in Nat /\ pass.jobs \ {j} \in SUBSET Jobs
      BY <3>1
    <3>3. ASSUME NEW errors \in Nat, NEW jobs \in SUBSET Jobs, pass' = [pass EXCEPT !.jobs = jobs, !.errors = errors]
          PROVE  PassTypeOK'
      BY <1>1, <3>3, SameTables DEF CoreInv, PrerenderTypeOK, PassTypeOK
    <3> QED
      BY <1>3, <3>2, <3>3
  <2>3. TreesTypeOK'
    BY <1>1, <1>3, SameTables DEF CoreInv, PrerenderTypeOK, TreesTypeOK
  <2>4. PassInv'
    BY <1>1, <1>2, <1>3, <2>1, SameTables DEF PassInv, Faithful
  <2> QED
    BY <1>1, <2>2, <2>3, <2>4 DEF CoreInv, PrerenderTypeOK
<1>4. ASSUME NEW kind \in Kinds, trees' = Put(pass.place, fileOf(j.path), Torn),
             pass' = [pass EXCEPT !.pc = "write", !.jobs = @ \ {j}, !.job = j,
                                  !.page = PageOf(pass.release, j.path, kind)]
      PROVE  CoreInv'
  <2>1. /\ pass'.pc = "write" /\ pass'.place = pass.place /\ pass'.release = n
        /\ pass'.entries = pass.entries /\ pass'.jobs = pass.jobs \ {j} /\ pass'.job = j
        /\ pass'.page = PageOf(n, j.path, kind)
    BY <1>1, <1>4 DEF CoreInv, PrerenderTypeOK, PassTypeOK
  <2>2. j \in JobsOf(n) /\ fileOf(j.path) \in Files
    BY <1>1, <1>2, JobFile
  <2>3. TreesTypeOK'
    BY <1>1, <1>4, <2>2, PutType DEF CoreInv, PrerenderTypeOK, Bodies
  <2>4. PassTypeOK'
    <3>1. PageOf(n, j.path, kind) \in Bodies
      <4>1. EntryFor(n, j, kind) \in EntriesOf(n)
        BY <2>2 DEF EntriesOf
      <4>2. EntryFor(n, j, kind).page = PageOf(n, j.path, kind)
        BY DEF EntryFor
      <4> QED
        BY <1>1, <4>1, <4>2 DEF Bodies
    <3>2. j \in Jobs
      BY <1>1, <2>2 DEF Jobs, JobsOf
    <3> QED
      BY <1>1, <1>4, <3>1, <3>2, SameTables DEF CoreInv, PrerenderTypeOK, PassTypeOK
  <2>5. ASSUME NEW files, files = trees'[pass.place].files, NEW rows, rows = pass.entries, NEW m, m = n
        PROVE  Faithful(m, rows, files)'
    BY <1>1, <1>2, <1>4, <2>2, <2>5, FaithfulPut DEF CoreInv, PrerenderTypeOK
  <2>6. trees'[pass.place].manifest.rows = <<>>
    BY <1>1, <1>2, <1>4, <2>2, PutFacts DEF CoreInv, PrerenderTypeOK
  <2>7. Faithful(pass.release, pass.entries, trees[pass.place].files)'
    BY <2>1, <2>5 DEF Faithful
  <2>8. (pass.page = PageOf(pass.release, pass.job.path, kind))'
    BY <1>1, <2>1 DEF PageOf
  <2>9. PassInv'
    <3>1. /\ pass'.jobs \subseteq JobsOf(pass.release)' /\ pass'.job \in JobsOf(pass.release)' \ pass'.jobs
          /\ \A i \in DOMAIN pass'.entries : JobOf(pass'.entries[i]) \notin pass'.jobs
          /\ \A i \in DOMAIN pass'.entries : JobOf(pass'.entries[i]) # pass'.job
      BY <1>1, <1>2, <2>1, <2>2 DEF JobsOf
    <3> QED
      BY <2>1, <2>6, <2>7, <2>8, <3>1 DEF PassInv, Kinds, JobOf
  <2> QED
    BY <1>1, <2>3, <2>4, <2>9 DEF CoreInv, PrerenderTypeOK
<1> QED
  BY <1>3, <1>4 DEF runOnePrerenderJob, Kinds

LEMMA WriteCore == CoreInv /\ WriteJob => CoreInv'
<1> SUFFICES ASSUME CoreInv, WriteJob PROVE CoreInv'
  OBVIOUS
<1> DEFINE n == pass.release
           j == pass.job
<1>1. /\ pass.pc = "write" /\ UNCHANGED <<tables, release>> /\ n \in Releases /\ pass.place \in Places
      /\ release' \in Releases' /\ tables \in Sites
  BY SameTables DEF WriteJob, CoreInv, PrerenderTypeOK, PassTypeOK
<1>2. /\ pass.jobs \subseteq JobsOf(n) /\ Faithful(n, pass.entries, trees[pass.place].files)
      /\ \A i \in DOMAIN pass.entries : JobOf(pass.entries[i]) \notin pass.jobs /\ JobOf(pass.entries[i]) # j
      /\ trees[pass.place].manifest.rows = <<>>
      /\ j \in JobsOf(n) /\ j \notin pass.jobs
  BY <1>1 DEF CoreInv, PassInv
<1>3. CASE pass' = [pass EXCEPT !.pc = "jobs", !.errors = @ + 1] /\ UNCHANGED trees
  <2>1. /\ pass'.pc = "jobs" /\ pass'.place = pass.place /\ pass'.release = n
        /\ pass'.entries = pass.entries /\ pass'.jobs = pass.jobs
    BY <1>1, <1>3 DEF CoreInv, PrerenderTypeOK, PassTypeOK
  <2>2. PassTypeOK'
    <3>1. pass.errors \in Nat /\ pass.jobs \in SUBSET Jobs
      BY DEF CoreInv, PrerenderTypeOK, PassTypeOK
    <3>2. pass.errors + 1 \in Nat
      BY <3>1
    <3>3. ASSUME NEW errors \in Nat, pass' = [pass EXCEPT !.pc = "jobs", !.errors = errors]
          PROVE  PassTypeOK'
      BY <1>1, <3>3, SameTables DEF CoreInv, PrerenderTypeOK, PassTypeOK
    <3> QED
      BY <1>3, <3>2, <3>3
  <2>3. TreesTypeOK'
    BY <1>1, <1>3, SameTables DEF CoreInv, PrerenderTypeOK, TreesTypeOK
  <2>4. PassInv'
    BY <1>1, <1>2, <1>3, <2>1, SameTables DEF PassInv, Faithful
  <2> QED
    BY <1>1, <2>2, <2>3, <2>4 DEF CoreInv, PrerenderTypeOK
<1>4. CASE /\ trees' = Put(pass.place, fileOf(j.path), pass.page)
           /\ pass' = [pass EXCEPT !.pc = "jobs", !.entries = Append(@, Entry)]
  <2>1. PICK kind \in Kinds : pass.page = PageOf(n, j.path, kind)
    BY <1>1 DEF CoreInv, PassInv
  <2>2. Entry = EntryFor(n, j, kind) /\ Entry \in EntriesOf(n)
    BY <1>2, <2>1 DEF Entry, EntryFor, EntriesOf
  <2>3. Entry.file = fileOf(j.path) /\ Entry.page = pass.page /\ JobOf(Entry) = j /\ fileOf(j.path) \in Files
    <3>1. Entry.file = fileOf(j.path) /\ Entry.page = pass.page
      BY DEF Entry
    <3>2. j = [route |-> j.route, path |-> j.path, protected |-> j.protected]
      BY <1>2, JobShape
    <3>3. JobOf(Entry) = j
      BY <3>2 DEF JobOf, Entry
    <3> QED
      BY <1>1, <1>2, <3>1, <3>3, JobFile
  <2> DEFINE rows == Append(pass.entries, Entry)
  <2>4. /\ pass'.pc = "jobs" /\ pass'.place = pass.place /\ pass'.release = n
        /\ pass'.entries = rows /\ pass'.jobs = pass.jobs
    BY <1>1, <1>4 DEF CoreInv, PrerenderTypeOK, PassTypeOK
  <2>5. pass.entries \in Seq(EntriesOf(n)) /\ rows \in Seq(EntriesOf(n))
    <3>1. pass.entries \in Seq(EntriesOf(n))
      BY <1>2 DEF Faithful
    <3> HIDE DEF n
    <3> QED
      BY <2>2, <3>1
  <2>6. \A i \in DOMAIN rows : (i \in DOMAIN pass.entries /\ rows[i] = pass.entries[i]) \/ rows[i] = Entry
    <3> HIDE DEF n
    <3> QED
      BY <2>2, <2>5
  <2>7. TreesTypeOK'
    BY <1>1, <1>4, <2>3, PutType DEF CoreInv, PrerenderTypeOK, PassTypeOK
  <2>8. PassTypeOK'
    <3>1. rows \in Rows
      BY <1>1, <2>5 DEF Rows
    <3> HIDE DEF rows
    <3> QED
      BY <1>1, <1>4, <3>1, SameTables DEF CoreInv, PrerenderTypeOK, PassTypeOK, rows
  <2>9. ASSUME NEW files, files = trees'[pass.place].files, NEW rs, rs = pass.entries, NEW m, m = n
        PROVE  Faithful(m, rs, files)'
    <3>1. PICK k : k = j
      OBVIOUS
    <3> QED
      BY <1>1, <1>2, <1>4, <2>9, <3>1, FaithfulPut DEF CoreInv, PrerenderTypeOK
  <2>10. trees'[pass.place].manifest.rows = <<>> /\ trees'[pass.place].files[Entry.file] = Entry.page
    BY <1>1, <1>2, <1>4, <2>3, PutFacts DEF CoreInv, PrerenderTypeOK
  <2>11. Faithful(pass.release, pass.entries, trees[pass.place].files)'
    <3>1. pass'.entries \in Seq(EntriesOf(n)')
      BY <1>1, <2>4, <2>5, SameTables
    <3>2. ASSUME Apart(n)', NEW i \in DOMAIN rows PROVE trees'[pass.place].files[rows[i].file] = rows[i].page
      <4>1. CASE rows[i] = Entry
        BY <2>10, <4>1
      <4>2. CASE i \in DOMAIN pass.entries /\ rows[i] = pass.entries[i]
        BY <2>4, <2>9, <3>2, <4>2 DEF Faithful
      <4> QED
        BY <2>6, <4>1, <4>2
    <3> HIDE DEF rows
    <3> QED
      BY <2>4, <3>1, <3>2 DEF Faithful
  <2>12. \A i \in DOMAIN rows : JobOf(rows[i]) \notin pass.jobs
    BY <1>2, <2>3, <2>6
  <2>13. PassInv'
    <3> HIDE DEF rows
    <3> QED
      BY <1>1, <1>2, <2>4, <2>10, <2>11, <2>12, SameTables DEF PassInv
  <2> QED
    BY <1>1, <2>7, <2>8, <2>13 DEF CoreInv, PrerenderTypeOK
<1> QED
  BY <1>3, <1>4 DEF WriteJob

LEMMA ManifestCore == CoreInv /\ writePrerenderManifest => CoreInv'
<1> SUFFICES ASSUME CoreInv, writePrerenderManifest PROVE CoreInv'
  OBVIOUS
<1> DEFINE n == pass.release
<1>1. /\ UNCHANGED <<tables, release>> /\ n \in Releases /\ pass.place \in Places
      /\ release' \in Releases' /\ tables \in Sites /\ TreesTypeOK
  BY SameTables DEF writePrerenderManifest, CoreInv, PrerenderTypeOK, PassTypeOK
<1>2. ASSUME NEW to \in {"manifest", "report"}, pass' = [pass EXCEPT !.pc = to],
             NEW m \in [state : {"none", "torn", "whole"}, rows : Rows],
             trees' = [trees EXCEPT ![pass.place].manifest = m],
             to = "manifest" => m.rows = <<>>, to = "report" => m.rows = pass.entries,
             pass.pc \in {"jobs", "manifest"}
      PROVE  CoreInv'
  <2>1. /\ pass'.pc = to /\ pass'.place = pass.place /\ pass'.release = n
        /\ pass'.entries = pass.entries /\ pass'.jobs = pass.jobs
    BY <1>1, <1>2 DEF CoreInv, PrerenderTypeOK, PassTypeOK
  <2>2. trees'[pass.place].files = trees[pass.place].files /\ trees'[pass.place].manifest = m
    BY <1>1, <1>2, ManifestFacts
  <2>3. TreesTypeOK'
    BY <1>1, <1>2, ManifestType
  <2>4. PassTypeOK'
    BY <1>1, <1>2, SameTables DEF CoreInv, PrerenderTypeOK, PassTypeOK
  <2>5. /\ pass.jobs \subseteq JobsOf(n) /\ Faithful(n, pass.entries, trees[pass.place].files)
        /\ \A i \in DOMAIN pass.entries : JobOf(pass.entries[i]) \notin pass.jobs
    BY <1>2 DEF CoreInv, PassInv
  <2>6. PassInv'
    BY <1>1, <1>2, <2>1, <2>2, <2>5, SameTables DEF PassInv, Faithful
  <2> QED
    BY <1>1, <2>3, <2>4, <2>6 DEF CoreInv, PrerenderTypeOK
<1>3. CASE /\ JobsDone /\ trees' = [trees EXCEPT ![pass.place].manifest = Manifest("torn", <<>>)]
           /\ pass' = [pass EXCEPT !.pc = "manifest"]
  <2>1. Manifest("torn", <<>>) \in [state : {"none", "torn", "whole"}, rows : Rows]
        /\ Manifest("torn", <<>>).rows = <<>>
    BY <1>1, NoRows DEF Manifest
  <2> QED
    BY <1>2, <1>3, <2>1 DEF JobsDone
<1>4. CASE /\ pass.pc = "manifest" /\ trees' = [trees EXCEPT ![pass.place].manifest = Manifest("whole", pass.entries)]
           /\ pass' = [pass EXCEPT !.pc = "report"]
  <2>1. Manifest("whole", pass.entries) \in [state : {"none", "torn", "whole"}, rows : Rows]
        /\ Manifest("whole", pass.entries).rows = pass.entries
    BY DEF Manifest, CoreInv, PrerenderTypeOK, PassTypeOK
  <2> QED
    BY <1>2, <1>4, <2>1
<1>5. CASE Fail /\ UNCHANGED trees
  BY <1>1, <1>5, IdleCore DEF Fail
<1> QED
  BY <1>3, <1>4, <1>5 DEF writePrerenderManifest

LEMMA RoutesFacts ==
  ASSUME TreesTypeOK, UNCHANGED tables, NEW d \in Places, NEW written \in BOOLEAN,
         trees' = [trees EXCEPT ![d].routes = written]
  PROVE  /\ TreesTypeOK'
         /\ \A x \in Places : trees'[x].files = trees[x].files /\ trees'[x].manifest = trees[x].manifest
         /\ \A x \in Places : x # d => trees'[x] = trees[x]
<1>1. [trees[d] EXCEPT !.routes = written] \in
        [files : [Files -> Bodies], routes : BOOLEAN,
         manifest : [state : {"none", "torn", "whole"}, rows : Rows]]
  BY DEF TreesTypeOK
<1>2. TreesTypeOK'
  BY <1>1, SameTables DEF TreesTypeOK
<1>3. \A x \in Places : trees'[x].files = trees[x].files /\ trees'[x].manifest = trees[x].manifest
  BY DEF TreesTypeOK
<1> QED
  BY <1>2, <1>3 DEF TreesTypeOK

LEMMA ReturnCore == CoreInv /\ Return => CoreInv'
<1> SUFFICES ASSUME CoreInv, Return PROVE CoreInv'
  OBVIOUS
<1>1. UNCHANGED <<tables, release>> /\ pass.place \in Places
  BY DEF Return, CoreInv, PrerenderTypeOK, PassTypeOK
<1>2. CASE Fail /\ UNCHANGED trees
  BY <1>1, <1>2, IdleCore DEF Fail
<1>3. CASE pass' = Finished("ok") /\ writeRoutesManifest
  <2>1. PICK written \in BOOLEAN : trees' = [trees EXCEPT ![pass.place].routes = written]
    BY <1>3 DEF writeRoutesManifest
  <2>2. TreesTypeOK'
    BY <1>1, <2>1, RoutesFacts DEF CoreInv, PrerenderTypeOK
  <2>3. PassTypeOK' /\ PassInv'
    BY <1>1, <1>3, FinishedType DEF CoreInv
  <2> QED
    BY <1>1, <2>2, <2>3, SameTables DEF CoreInv, PrerenderTypeOK
<1> QED
  BY <1>2, <1>3 DEF Return

(* Every step of a pass keeps what its pages and its manifest rest on.     *)
LEMMA PassCore == CoreInv /\ PassNext => CoreInv'
<1> SUFFICES ASSUME CoreInv, PassNext PROVE CoreInv'
  OBVIOUS
<1>1. CASE KillPass
  BY <1>1, IdleCore DEF KillPass
<1> QED
  BY <1>1, NewReleaseCore, RemoveCore, PlanCore, JobCore, WriteCore, ManifestCore, ReturnCore
     DEF PassNext

LEMMA CoreInit == PrerenderInit => CoreInv
<1> SUFFICES ASSUME PrerenderInit PROVE CoreInv
  OBVIOUS
<1>1. tables \in Sites /\ release = 1 /\ pass = Finished(None) /\ trees = [d \in Places |-> EmptyTree]
  BY DEF PrerenderInit
<1>2. 1 \in Releases /\ <<>> \in Rows /\ NoFile \in Bodies
  BY <1>1, FirstRelease, NoRows DEF Bodies
<1>3. EmptyTree \in [files : [Files -> Bodies], routes : BOOLEAN,
                     manifest : [state : {"none", "torn", "whole"}, rows : Rows]]
  BY <1>2 DEF EmptyTree, Manifest
<1>4. TreesTypeOK
  BY <1>1, <1>3 DEF TreesTypeOK
<1>5. PassTypeOK /\ pass.pc = "idle"
  BY <1>1, <1>2 DEF PassTypeOK, Finished, Places
<1> QED
  BY <1>1, <1>2, <1>4, <1>5 DEF CoreInv, PrerenderTypeOK, PassInv

(* What a manifest lists, while nobody writes to its directory.            *)
LEMMA TreesFrame ==
  ASSUME TreesInv, UNCHANGED tables, NEW d \in Places,
         trees'[d].manifest.rows = trees[d].manifest.rows, trees'[d].files = trees[d].files
  PROVE  (\E n \in Releases : Remaining(n, trees[d].manifest.rows, trees[d].files))'
<1>1. PICK n \in Releases : Remaining(n, trees[d].manifest.rows, trees[d].files)
  BY DEF TreesInv
<1>2. Remaining(n, trees[d].manifest.rows, trees[d].files)'
  BY <1>1, SameTables DEF Remaining
<1> QED
  BY <1>1, <1>2, SameTables

LEMMA NothingRemains ==
  ASSUME tables \in Sites, UNCHANGED tables, NEW d \in Places, trees'[d].manifest.rows = <<>>
  PROVE  (\E n \in Releases : Remaining(n, trees[d].manifest.rows, trees[d].files))'
<1>1. 1 \in Releases' /\ Remaining(1, trees[d].manifest.rows, trees[d].files)'
  BY FirstRelease, SameTables DEF Remaining
<1> QED
  BY <1>1

(* A pass writes to no directory but its own. *)
LEMMA OtherTree ==
  ASSUME CoreInv, PassNext, NEW d \in Places, d # pass.place
  PROVE  trees'[d] = trees[d]
  BY DEF CoreInv, PrerenderTypeOK, PassTypeOK, TreesTypeOK, PassNext, NewRelease, RemoveOne, Plan, WriteJob,
         writePrerenderManifest, Return, KillPass, runOnePrerenderJob, Put, writeRoutesManifest

(* In its own it removes pages before it removes their manifest, and has   *)
(* no manifest until its pages are written.                                *)
LEMMA TreesPass == CoreInv /\ TreesInv /\ PassNext => TreesInv'
<1> SUFFICES ASSUME CoreInv, TreesInv, PassNext, NEW d \in Places
             PROVE  (\E n \in Releases : Remaining(n, trees[d].manifest.rows, trees[d].files))'
  BY DEF TreesInv
<1> DEFINE Goal == (\E n \in Releases : Remaining(n, trees[d].manifest.rows, trees[d].files))'
<1>0. tables \in Sites /\ TreesTypeOK /\ pass.place \in Places /\ UNCHANGED tables
  BY DEF CoreInv, PrerenderTypeOK, PassTypeOK, PassNext, NewRelease, RemoveOne, Plan, WriteJob,
         writePrerenderManifest, Return, KillPass, runOnePrerenderJob
<1>1. CASE UNCHANGED trees
  BY <1>0, <1>1, TreesFrame
<1>2. CASE trees'[d] = trees[d]
  BY <1>0, <1>2, TreesFrame
<1>3. CASE RemoveOne /\ d = pass.place
  <2>1. ASSUME NEW f \in Files, trees' = Put(d, f, NoFile) PROVE Goal
    <3>1. PICK n \in Releases : Remaining(n, trees[d].manifest.rows, trees[d].files)
      BY DEF TreesInv
    <3>2. /\ trees'[d].manifest = trees[d].manifest
          /\ \A g \in Files : trees'[d].files[g] = IF g = f THEN NoFile ELSE trees[d].files[g]
      BY <1>0, <2>1, PutFacts
    <3>3. \A i \in DOMAIN trees[d].manifest.rows : trees[d].manifest.rows[i].file \in Files
      BY <1>0, <3>1, EntryFacts DEF Remaining
    <3>4. ASSUME Apart(n), NEW i \in DOMAIN trees[d].manifest.rows
          PROVE  LET row == trees[d].manifest.rows[i] IN trees'[d].files[row.file] \in {row.page, NoFile}
      BY <3>1, <3>2, <3>3, <3>4 DEF Remaining
    <3>5. Remaining(n, trees[d].manifest.rows, trees[d].files)'
      BY <1>0, <3>1, <3>2, <3>4, SameTables DEF Remaining
    <3> QED
      BY <1>0, <3>5, SameTables
  <2>2. ASSUME trees' = [trees EXCEPT ![d].manifest = EmptyTree.manifest, ![d].routes = FALSE] PROVE Goal
    <3>1. trees'[d].manifest.rows = <<>>
      BY <1>0, <2>2 DEF TreesTypeOK, EmptyTree, Manifest
    <3> QED
      BY <1>0, <3>1, NothingRemains
  <2> QED
    BY <1>3, <2>1, <2>2 DEF RemoveOne
<1>4. ASSUME NEW j \in pass.jobs, runOnePrerenderJob(j), d = pass.place PROVE Goal
  <2>1. CASE UNCHANGED trees
    BY <1>1, <2>1
  <2>2. CASE trees' = Put(d, fileOf(j.path), Torn)
    <3>1. trees[d].manifest.rows = <<>> /\ j \in JobsOf(pass.release) /\ pass.release \in Releases
      BY <1>4 DEF runOnePrerenderJob, CoreInv, PassInv, PrerenderTypeOK, PassTypeOK
    <3>2. trees'[d].manifest.rows = <<>>
      BY <1>0, <2>2, <3>1, JobFile, PutFacts
    <3> QED
      BY <1>0, <3>2, NothingRemains
  <2> QED
    BY <1>4, <2>1, <2>2 DEF runOnePrerenderJob
<1>5. CASE WriteJob /\ d = pass.place
  <2>1. CASE UNCHANGED trees
    BY <1>1, <2>1
  <2>2. CASE trees' = Put(d, fileOf(pass.job.path), pass.page)
    <3>1. trees[d].manifest.rows = <<>> /\ pass.job \in JobsOf(pass.release) /\ pass.release \in Releases
      BY <1>5 DEF WriteJob, CoreInv, PassInv, PrerenderTypeOK, PassTypeOK
    <3>2. trees'[d].manifest.rows = <<>>
      BY <1>0, <2>2, <3>1, JobFile, PutFacts
    <3> QED
      BY <1>0, <3>2, NothingRemains
  <2> QED
    BY <1>5, <2>1, <2>2 DEF WriteJob
<1>6. CASE writePrerenderManifest /\ d = pass.place
  <2>1. CASE UNCHANGED trees
    BY <1>1, <2>1
  <2>2. CASE trees' = [trees EXCEPT ![d].manifest = Manifest("torn", <<>>)]
    <3>1. trees'[d].manifest = Manifest("torn", <<>>)
      BY <1>0, <2>2, ManifestFacts
    <3>2. trees'[d].manifest.rows = <<>>
      BY <3>1 DEF Manifest
    <3> QED
      BY <1>0, <3>2, NothingRemains
  <2>3. CASE pass.pc = "manifest" /\ trees' = [trees EXCEPT ![d].manifest = Manifest("whole", pass.entries)]
    <3>1. pass.release \in Releases /\ Faithful(pass.release, pass.entries, trees[d].files)
      BY <1>6, <2>3 DEF CoreInv, PassInv, PrerenderTypeOK, PassTypeOK
    <3>2. trees'[d].manifest.rows = pass.entries /\ trees'[d].files = trees[d].files
      <4>1. trees'[d].manifest = Manifest("whole", pass.entries) /\ trees'[d].files = trees[d].files
        BY <1>0, <2>3, ManifestFacts
      <4> QED
        BY <4>1 DEF Manifest
    <3>3. ASSUME NEW n, n = pass.release PROVE Remaining(n, trees[d].manifest.rows, trees[d].files)'
      BY <1>0, <3>1, <3>2, <3>3, SameTables DEF Remaining, Faithful
    <3> QED
      BY <1>0, <3>1, <3>3, SameTables
  <2> QED
    BY <1>6, <2>1, <2>2, <2>3 DEF writePrerenderManifest
<1>7. CASE Return
  <2>1. CASE UNCHANGED trees
    BY <1>1, <2>1
  <2>2. CASE writeRoutesManifest
    <3>1. trees'[d].manifest = trees[d].manifest /\ trees'[d].files = trees[d].files
      BY <1>0, <2>2, RoutesFacts DEF writeRoutesManifest
    <3> QED
      BY <1>0, <3>1, TreesFrame
  <2> QED
    BY <1>7, <2>1, <2>2 DEF Return
<1>8. CASE d # pass.place
  BY <1>2, <1>8, OtherTree
<1>9. CASE NewRelease \/ Plan \/ KillPass
  BY <1>1, <1>9 DEF NewRelease, Plan, KillPass
<1> QED
  BY <1>3, <1>4, <1>5, <1>6, <1>7, <1>8, <1>9 DEF PassNext

(* A pass keeps its place and its release until it is over. *)
LEMMA PassKeeps ==
  ASSUME CoreInv, PassNext
  PROVE  \/ pass.pc # "idle" /\ \E result \in {"ok", "failed", "killed"} : pass' = Finished(result)
         \/ UNCHANGED <<pass, trees>>
         \/ /\ pass.pc # "idle" /\ pass'.pc # "idle"
            /\ pass'.place = pass.place /\ pass'.release = pass.release
<1> USE DEF CoreInv, PrerenderTypeOK, PassTypeOK
<1>1. CASE NewRelease \/ KillPass
  BY <1>1 DEF NewRelease, KillPass
<1>2. CASE RemoveOne
  BY <1>2 DEF RemoveOne
<1>3. CASE Plan
  BY <1>3 DEF Plan, Fail
<1>4. ASSUME NEW j \in pass.jobs, runOnePrerenderJob(j)
      PROVE  /\ pass.pc # "idle" /\ pass'.pc # "idle"
             /\ pass'.place = pass.place /\ pass'.release = pass.release
  BY <1>4 DEF runOnePrerenderJob
<1>5. CASE WriteJob
  BY <1>5 DEF WriteJob
<1>6. CASE writePrerenderManifest
  BY <1>6 DEF writePrerenderManifest, JobsDone, Fail
<1>7. CASE Return
  BY <1>7 DEF Return, Fail
<1> QED
  BY <1>1, <1>2, <1>3, <1>4, <1>5, <1>6, <1>7 DEF PassNext

(* While a server holds a table that is good, no pass touches its files. *)
LEMMA QuietPass ==
  ASSUME CoreInv, PassNext, pass.pc \in {"idle", "report"}
  PROVE  pass'.pc \in {"idle", "report"} /\ \A x \in Places : trees'[x].files = trees[x].files
<1>1. CASE NewRelease \/ KillPass
  BY <1>1 DEF NewRelease, KillPass, Finished
<1>2. CASE Return
  <2>1. pass'.pc = "idle"
    BY <1>2 DEF Return, Fail, Finished
  <2>2. UNCHANGED tables /\ pass.place \in Places /\ TreesTypeOK
    BY <1>2 DEF Return, CoreInv, PrerenderTypeOK, PassTypeOK
  <2>3. \A x \in Places : trees'[x].files = trees[x].files
    BY <1>2, <2>2, RoutesFacts DEF Return, writeRoutesManifest
  <2> QED
    BY <2>1, <2>3
<1> QED
  BY <1>1, <1>2
     DEF PassNext, RemoveOne, Plan, WriteJob, writePrerenderManifest, JobsDone, runOnePrerenderJob

LEMMA SitePass == CoreInv /\ SiteInv /\ PassNext => SiteInv'
<1> SUFFICES ASSUME CoreInv, SiteInv, PassNext PROVE SiteInv'
  OBVIOUS
<1>1. UNCHANGED <<tables, site>>
  BY DEF PassNext, NewRelease, RemoveOne, Plan, WriteJob, writePrerenderManifest, Return, KillPass,
         runOnePrerenderJob
<1>2. CASE site.up /\ ~site.stale /\ DOMAIN site.table # {}
  <2>1. pass.pc \in {"idle", "report"}
    BY <1>2 DEF SiteInv
  <2>2. pass'.pc \in {"idle", "report"} /\ trees'["out"].files = trees["out"].files
    BY <2>1, QuietPass DEF Places
  <2> QED
    BY <1>1, <1>2, <2>2, SameTables DEF SiteInv
<1>3. CASE ~(site.up /\ ~site.stale /\ DOMAIN site.table # {})
  BY <1>1, <1>3 DEF SiteInv
<1> QED
  BY <1>2, <1>3

(* The table of a server has the last row of each path. *)
LEMMA TableRows ==
  ASSUME NEW rows, NEW p \in DOMAIN LoadPrerenderManifest(rows)
  PROVE  \E i \in DOMAIN rows : LoadPrerenderManifest(rows)[p] = rows[i] /\ rows[i].path = p
<1> DEFINE last == {i \in DOMAIN rows : \A j \in DOMAIN rows : rows[j].path = rows[i].path => j <= i}
           k == CHOOSE i \in last : rows[i].path = p
<1>1. \E i \in last : rows[i].path = p
  BY DEF LoadPrerenderManifest
<1>2. k \in last /\ rows[k].path = p
  <2> HIDE DEF last
  <2> QED
    BY <1>1
<1>3. LoadPrerenderManifest(rows)[p] = rows[k]
  BY DEF LoadPrerenderManifest
<1> HIDE DEF k
<1> QED
  BY <1>2, <1>3

(* A table that is read between two passes lists what the files hold.      *)
LEMMA StartServerStep ==
  ASSUME ServeInv, StartServer
  PROVE  ServeInv'
<1> DEFINE rows == trees["out"].manifest.rows
<1>1. /\ UNCHANGED <<tables, release, trees, pass, passes, build, dist>> /\ pass.place = "out"
      /\ site' = [up |-> TRUE, table |-> LoadPrerenderManifest(rows),
                  stale |-> pass.pc = "clean" /\ pass.place = "out"]
      /\ trees["out"].manifest.state # "torn"
  BY DEF StartServer, ServeInv
<1>2. CoreInv'
  BY <1>1, SameTables
     DEF ServeInv, CoreInv, PrerenderTypeOK, TreesTypeOK, PassTypeOK, PassInv, Faithful
<1>3. TreesInv'
  BY <1>1, TreesFrame DEF ServeInv, TreesInv
<1>4. ASSUME ~site'.stale, DOMAIN site'.table # {} PROVE pass.pc \in {"idle", "report"}
  <2>1. pass.pc # "clean"
    BY <1>1, <1>4
  <2>2. PICK p : p \in DOMAIN LoadPrerenderManifest(rows)
    BY <1>1, <1>4
  <2>3. rows # <<>>
    BY <2>2, TableRows
  <2> QED
    BY <1>1, <2>1, <2>3 DEF ServeInv, CoreInv, PassInv, PrerenderTypeOK, PassTypeOK
<1>5. PICK n \in Releases : Remaining(n, rows, trees["out"].files)
  BY DEF ServeInv, TreesInv, Places
<1>6. ASSUME NEW p \in DOMAIN site'.table
      PROVE  LET e == site'.table[p]
             IN  /\ e \in EntriesOf(n) /\ e.path = p
                 /\ Apart(n) => trees["out"].files[e.file] \in {e.page, NoFile}
  <2>1. PICK i \in DOMAIN rows : site'.table[p] = rows[i] /\ rows[i].path = p
    BY <1>1, <1>6, TableRows
  <2>2. rows[i] \in EntriesOf(n) /\ (Apart(n) => trees["out"].files[rows[i].file] \in {rows[i].page, NoFile})
    BY <1>5 DEF Remaining
  <2> QED
    BY <2>1, <2>2
<1>7. SiteInv'
  <2>1. site' = [up |-> site'.up, table |-> site'.table, stale |-> site'.stale]
    BY <1>1
  <2>2. ASSUME NEW p \in DOMAIN site'.table
        PROVE  (\E m \in Releases : LET e == site.table[p]
                                    IN  /\ e \in EntriesOf(m) /\ e.path = p
                                        /\ Apart(m) => trees["out"].files[e.file] \in {e.page, NoFile})'
    <3>1. n \in Releases' /\ EntriesOf(n)' = EntriesOf(n) /\ Apart(n)' = Apart(n) /\ UNCHANGED trees
      BY <1>1, <1>5, SameTables
    <3> QED
      BY <1>6, <2>2, <3>1
  <2> QED
    BY <1>1, <1>4, <2>1, <2>2 DEF SiteInv
<1> QED
  BY <1>1, <1>2, <1>3, <1>7 DEF ServeInv, NotBuilding

LEMMA SiteStep == ServeInv /\ [ServeNext]_prerenderVars => ServeInv'
<1> SUFFICES ASSUME ServeInv, [ServeNext]_prerenderVars PROVE ServeInv'
  OBVIOUS
<1>1. CASE PassNext
  <2>1. CoreInv' /\ TreesInv' /\ SiteInv'
    BY <1>1, PassCore, TreesPass, SitePass DEF ServeInv
  <2>2. UNCHANGED build
    BY <1>1 DEF PassNext, NewRelease, RemoveOne, Plan, WriteJob, writePrerenderManifest, Return,
                KillPass, runOnePrerenderJob
  <2>3. pass'.place = "out"
    BY <1>1, PassKeeps DEF ServeInv, Finished
  <2> QED
    BY <2>1, <2>2, <2>3 DEF ServeInv, NotBuilding
<1>2. CASE Command
  <2>1. StartPass("out") /\ UNCHANGED <<tables, release, trees, build, dist>>
    BY <1>2 DEF Command
  <2>2. CoreInv'
    BY <2>1, StartPassCore DEF ServeInv, Places
  <2>3. TreesInv'
    BY <2>1, TreesFrame DEF ServeInv, TreesInv
  <2>4. SiteInv' /\ pass'.place = "out"
    BY <2>1 DEF StartPass, Finished, ServeInv, SiteInv
  <2> QED
    BY <2>1, <2>2, <2>3, <2>4 DEF ServeInv, NotBuilding
<1>3. CASE StartServer
  BY <1>3, StartServerStep
<1>4. CASE StopServer \/ UNCHANGED prerenderVars
  <2>1. UNCHANGED <<tables, release, trees, pass, build>> /\ (site' = site \/ site' = Down)
    BY <1>4 DEF StopServer, prerenderVars
  <2>2. CoreInv'
    BY <2>1, SameTables
       DEF ServeInv, CoreInv, PrerenderTypeOK, TreesTypeOK, PassTypeOK, PassInv, Faithful
  <2>3. TreesInv'
    BY <2>1, TreesFrame DEF ServeInv, TreesInv
  <2>4. CASE site' = Down
    <3>1. SiteInv'
      BY <2>4 DEF SiteInv, Down
    <3> QED
      BY <2>1, <2>2, <2>3, <3>1 DEF ServeInv, NotBuilding
  <2>5. CASE site' = site
    <3>1. SiteInv'
      BY <2>1, <2>5, SameTables DEF ServeInv, SiteInv
    <3> QED
      BY <2>1, <2>2, <2>3, <3>1 DEF ServeInv, NotBuilding
  <2> QED
    BY <2>1, <2>4, <2>5
<1> QED
  BY <1>1, <1>2, <1>3, <1>4 DEF ServeNext

(* The table says of a page that it is protected, so the gate is asked.    *)
LEMMA ServedOK == ServeInv => AsRendered
<1> SUFFICES ASSUME ServeInv PROVE ServedAsRendered
  BY DEF ServeInv, AsRendered, DeployedAsRendered, NotBuilding, None
<1> SUFFICES ASSUME site.up, ~site.stale, NEW p \in DOMAIN site.table, NEW allow \in BOOLEAN,
                    servePrerendered(p, allow).body # Live,
                    Apart(servePrerendered(p, allow).from.page.release)
             PROVE  /\ servePrerendered(p, allow).body = servePrerendered(p, allow).from.page
                    /\ servePrerendered(p, allow).body.path = p
                    /\ servePrerendered(p, allow).body.protected => allow
  BY DEF ServedAsRendered
<1> DEFINE e == site.table[p]
           body == trees["out"].files[e.file]
<1>1. PICK n \in Releases : e \in EntriesOf(n) /\ e.path = p /\ (Apart(n) => body \in {e.page, NoFile})
  BY DEF ServeInv, SiteInv
<1>2. [NoAnswer EXCEPT !.path = p, !.allow = allow].body = Live
  BY DEF NoAnswer, Answer
<1>3. Allowed(e, allow) /\ body # NoFile /\ servePrerendered(p, allow) = Answer(p, allow, e, body)
  <2> HIDE DEF NoAnswer
  <2> QED
    BY <1>2 DEF servePrerendered
<1>4. servePrerendered(p, allow).body = body /\ servePrerendered(p, allow).from = e
  BY <1>3 DEF Answer
<1>5. e.page.release = n /\ e.page.path = p
  BY <1>1, EntryFacts DEF ServeInv, CoreInv, PrerenderTypeOK
<1>6. Apart(n) /\ body = e.page
  BY <1>1, <1>3, <1>4, <1>5
<1>7. e.page.protected => e.protected
  <2>1. PICK j \in JobsOf(n), kind \in Kinds : e = EntryFor(n, j, kind)
    BY <1>1 DEF EntriesOf
  <2>2. e.page = PageOf(n, j.path, kind) /\ e.protected = j.protected
    BY <2>1 DEF EntryFor
  <2> HIDE DEF e
  <2> QED
    BY <1>6, <2>2, ProtectedAsPlanned
<1> QED
  BY <1>3, <1>4, <1>5, <1>6, <1>7 DEF Allowed

(* A server sends, for a path of its table, the whole page the pass behind *)
(* the table rendered, and a protected one only when its gate allows it,   *)
(* for any route tables, any tolerance and any number of passes, killed    *)
(* or not (Server.Prerender, LoadPrerenderManifest, servePrerendered).     *)
THEOREM ServedAsPlanned == ServeSpec => []AsRendered
<1>1. PrerenderInit => ServeInv
  <2> SUFFICES ASSUME PrerenderInit PROVE ServeInv
    OBVIOUS
  <2>1. CoreInv
    BY CoreInit
  <2>2. tables \in Sites /\ trees = [d \in Places |-> EmptyTree] /\ pass = Finished(None) /\ site = Down
        /\ build = NotBuilding(None)
    BY DEF PrerenderInit
  <2>3. EmptyTree.manifest.rows = <<>>
    BY DEF EmptyTree, Manifest
  <2>4. TreesInv
    <3> SUFFICES ASSUME NEW d \in Places PROVE Remaining(1, trees[d].manifest.rows, trees[d].files)
      BY <2>2, FirstRelease DEF TreesInv
    <3>1. trees[d].manifest.rows = <<>>
      BY <2>2, <2>3
    <3> QED
      BY <2>2, <3>1, NothingListed
  <2>5. SiteInv /\ pass.place = "out"
    BY <2>2 DEF SiteInv, Down, Finished
  <2> QED
    BY <2>1, <2>2, <2>4, <2>5 DEF ServeInv
<1> QED
  BY <1>1, SiteStep, ServedOK, PTL DEF ServeSpec

(* A pass that says it succeeded has returned. *)
LEMMA OkReturns ==
  ASSUME CoreInv, PassNext, pass.pc # "idle", pass' = Finished("ok")
  PROVE  Return
<1>1. pass'.pc = "idle" /\ pass'.result = "ok"
  BY DEF Finished
<1>2. CASE NewRelease \/ RemoveOne
  BY <1>1, <1>2 DEF NewRelease, RemoveOne
<1>3. CASE KillPass
  BY <1>1, <1>3 DEF KillPass, Finished
<1>4. CASE Plan
  <2>1. pass'.result = "failed" \/ pass'.pc = "jobs"
    BY <1>4 DEF Plan, Fail, Finished, CoreInv, PrerenderTypeOK, PassTypeOK
  <2> QED
    BY <1>1, <2>1
<1>5. CASE WriteJob
  BY <1>1, <1>5 DEF WriteJob, CoreInv, PrerenderTypeOK, PassTypeOK
<1>6. CASE writePrerenderManifest
  <2>1. pass'.result = "failed" \/ pass'.pc \in {"manifest", "report"}
    BY <1>6 DEF writePrerenderManifest, Fail, Finished, CoreInv, PrerenderTypeOK, PassTypeOK
  <2> QED
    BY <1>1, <2>1
<1>7. ASSUME NEW j \in pass.jobs, runOnePrerenderJob(j) PROVE FALSE
  BY <1>1, <1>7 DEF runOnePrerenderJob, CoreInv, PrerenderTypeOK, PassTypeOK
<1> QED
  BY <1>2, <1>3, <1>4, <1>5, <1>6, <1>7 DEF PassNext

(* Then the directory holds the pages its manifest lists. *)
LEMMA OkFaithful ==
  ASSUME CoreInv, Return, NEW n, n = pass.release, NEW d, d = pass.place
  PROVE  Faithful(n, trees[d].manifest.rows, trees[d].files)'
<1>1. /\ trees[d].manifest.rows = pass.entries /\ Faithful(n, pass.entries, trees[d].files)
      /\ UNCHANGED tables /\ d \in Places /\ TreesTypeOK
  BY DEF Return, CoreInv, PassInv, PrerenderTypeOK, PassTypeOK
<1>2. trees'[d].manifest = trees[d].manifest /\ trees'[d].files = trees[d].files
  BY <1>1, RoutesFacts DEF Return, writeRoutesManifest
<1> QED
  BY <1>1, <1>2, SameTables DEF Faithful

LEMMA BuildTyped ==
  ASSUME tables \in Sites, BuildTypeOK, UNCHANGED <<tables, build, dist>>
  PROVE  BuildTypeOK'
  BY SameTables DEF BuildTypeOK

(* A Build that waits for a pass, or copies, is not disturbed by it. *)
LEMMA DeployPass == DeployInv /\ PassNext => DeployInv'
<1> SUFFICES ASSUME DeployInv, PassNext PROVE DeployInv'
  OBVIOUS
<1>1. CoreInv /\ CoreInv'
  BY PassCore DEF DeployInv
<1>2. UNCHANGED <<tables, site, build, dist>> /\ tables \in Sites
  BY <1>1 DEF CoreInv, PrerenderTypeOK, PassNext, NewRelease, RemoveOne, Plan, WriteJob,
         writePrerenderManifest, Return, KillPass, runOnePrerenderJob
<1>3. BuildTypeOK'
  BY <1>2, BuildTyped DEF DeployInv
<1>4. pass.pc = "idle" => UNCHANGED <<pass, trees>>
  BY <1>1, PassKeeps
<1>5. BuildInv'
  <2>1. CASE UNCHANGED <<pass, trees>>
    BY <1>2, <2>1, SameTables DEF DeployInv, BuildInv, Faithful
  <2>2. CASE pass.pc # "idle"
    <3>1. build.pc \notin {"run", "copy"}
      BY <2>2 DEF DeployInv, BuildInv
    <3>2. /\ (build.outcome = "ok" => build.pc = "idle" /\ Faithful(build.release, dist.rows, dist.files))'
          /\ build'.pc = "wait" => build'.next = 1
      BY <1>2, SameTables DEF DeployInv, BuildInv, Faithful
    <3>3. CASE build.pc # "wait"
      BY <1>2, <3>1, <3>2, <3>3 DEF BuildInv
    <3>4. CASE build.pc = "wait" /\ pass'.pc # "idle"
      <4>1. pass'.place = pass.place /\ pass'.release = pass.release
        BY <1>1, <2>2, <3>4, PassKeeps DEF Finished
      <4>2. CASE pass.place = "scratch"
        BY <1>2, <2>2, <3>1, <3>2, <3>4, <4>1, <4>2 DEF DeployInv, BuildInv
      <4>3. CASE pass.place = "joined" /\ trees["scratch"] = EmptyTree
        <5>1. trees'["scratch"] = EmptyTree
          BY <1>1, <4>3, OtherTree DEF Places
        <5> QED
          BY <1>2, <2>2, <3>1, <3>2, <3>4, <4>1, <4>3, <5>1 DEF BuildInv, EmptyTree, Files, SitePaths
      <4> QED
        BY <2>2, <3>4, <4>2, <4>3 DEF DeployInv, BuildInv
    <3>5. CASE build.pc = "wait" /\ pass'.pc = "idle"
      <4>1. PICK result \in {"ok", "failed", "killed"} : pass' = Finished(result)
        BY <1>1, <2>1, <2>2, <3>5, PassKeeps
      <4>2. pass'.result = result
        BY <4>1 DEF Finished
      <4>3. ASSUME pass'.result = "ok", NEW n, n = build.release
            PROVE  Faithful(n, trees["scratch"].manifest.rows, trees["scratch"].files)'
        <5>1. Return
          BY <1>1, <2>2, <4>1, <4>2, <4>3, OkReturns
        <5>2. CASE pass.place = "scratch" /\ pass.release = build.release
          BY <1>1, <4>3, <5>1, <5>2, OkFaithful
        <5>3. CASE pass.place = "joined" /\ trees["scratch"] = EmptyTree
          <6>1. trees'["scratch"] = EmptyTree
            BY <1>1, <5>3, OtherTree DEF Places
          <6>2. EmptyTree.manifest.rows = <<>>
            BY DEF EmptyTree, Manifest
          <6> QED
            BY <1>2, <6>1, <6>2, NoRows, SameTables DEF Faithful
        <5> QED
          BY <2>2, <3>5, <5>2, <5>3 DEF DeployInv, BuildInv
      <4> QED
        BY <1>2, <3>1, <3>2, <3>5, <4>3 DEF BuildInv
    <3> QED
      BY <3>3, <3>4, <3>5
  <2> QED
    BY <1>4, <2>1, <2>2
<1> QED
  BY <1>1, <1>2, <1>3, <1>5 DEF DeployInv

LEMMA BuildFrame ==
  ASSUME CoreInv, UNCHANGED <<tables, release, pass>>, pass.pc = "idle", TreesTypeOK'
  PROVE  CoreInv'
<1>1. PassTypeOK' /\ release' \in Releases'
  BY SameTables DEF CoreInv, PrerenderTypeOK, PassTypeOK
<1>2. PassInv'
  BY DEF PassInv
<1> QED
  BY <1>1, <1>2 DEF CoreInv, PrerenderTypeOK

(* The scratch directory is emptied. *)
LEMMA EmptyScratch ==
  ASSUME tables \in Sites, TreesTypeOK, UNCHANGED tables, trees' = [trees EXCEPT !["scratch"] = EmptyTree]
  PROVE  TreesTypeOK' /\ trees'["scratch"] = EmptyTree
<1>1. EmptyTree \in [files : [Files -> Bodies], routes : BOOLEAN,
                     manifest : [state : {"none", "torn", "whole"}, rows : Rows]]
  BY NoRows DEF EmptyTree, Manifest, Bodies
<1>2. trees'["scratch"] = EmptyTree
  BY DEF TreesTypeOK, Places
<1>3. TreesTypeOK'
  BY <1>1, SameTables DEF TreesTypeOK
<1> QED
  BY <1>2, <1>3

(* A Build that is over, and did not succeed, promises nothing. *)
LEMMA FailedBuild ==
  ASSUME DeployInv, UNCHANGED <<tables, release, pass, site, dist>>, pass.pc = "idle", EndBuild("failed")
  PROVE  DeployInv'
<1>1. tables \in Sites /\ TreesTypeOK /\ BuildTypeOK
  BY DEF DeployInv, CoreInv, PrerenderTypeOK
<1>2. CoreInv'
  BY <1>1, EmptyScratch, BuildFrame DEF DeployInv, EndBuild
<1>3. build' = [pc |-> "idle", runner |-> "subprocess", strict |-> FALSE, release |-> build.release,
                rows |-> <<>>, next |-> 1, outcome |-> "failed"]
  BY DEF EndBuild, NotBuilding
<1>4. build.release \in Releases' /\ <<>> \in Rows' /\ dist' \in [files : [Files -> Bodies'], rows : Rows']
  BY <1>1, NoRows, SameTables DEF BuildTypeOK
<1>5. BuildTypeOK'
  BY <1>3, <1>4 DEF BuildTypeOK
<1>6. BuildInv'
  BY <1>3 DEF BuildInv
<1> QED
  BY <1>2, <1>5, <1>6 DEF DeployInv

LEMMA StartBuildStep ==
  ASSUME DeployInv, NEW runner \in {"subprocess", "caller"}, NEW strict \in BOOLEAN, StartBuild(runner, strict)
  PROVE  DeployInv'
<1>1. tables \in Sites /\ TreesTypeOK /\ BuildTypeOK /\ release \in Releases
  BY DEF DeployInv, CoreInv, PrerenderTypeOK
<1>2. CoreInv' /\ trees'["scratch"] = EmptyTree
  BY <1>1, EmptyScratch, BuildFrame DEF DeployInv, StartBuild
<1>3. build' = [pc |-> "run", runner |-> runner, strict |-> strict, release |-> release,
                rows |-> <<>>, next |-> 1, outcome |-> None]
  BY DEF StartBuild, NotBuilding
<1>4. /\ UNCHANGED <<tables, pass, site, dist>> /\ pass.pc = "idle"
      /\ release \in Releases' /\ <<>> \in Rows' /\ dist' \in [files : [Files -> Bodies'], rows : Rows']
  BY <1>1, NoRows, SameTables DEF StartBuild, BuildTypeOK
<1>5. BuildTypeOK'
  BY <1>3, <1>4 DEF BuildTypeOK
<1>6. BuildInv'
  <2> HIDE DEF EmptyTree
  <2> QED
    BY <1>2, <1>3, <1>4 DEF BuildInv, None
<1> QED
  BY <1>2, <1>4, <1>5, <1>6 DEF DeployInv

LEMMA KillBuildStep == DeployInv /\ KillBuild => DeployInv'
<1> SUFFICES ASSUME DeployInv, KillBuild PROVE DeployInv'
  OBVIOUS
<1>1. UNCHANGED <<tables, release, trees, pass, site, dist>> /\ tables \in Sites /\ BuildTypeOK
  BY DEF DeployInv, CoreInv, PrerenderTypeOK, KillBuild
<1>2. CoreInv'
  BY <1>1, SameTables
     DEF DeployInv, CoreInv, PrerenderTypeOK, TreesTypeOK, PassTypeOK, PassInv, Faithful
<1>3. build' = [pc |-> "idle", runner |-> "subprocess", strict |-> FALSE, release |-> 1,
                rows |-> <<>>, next |-> 1, outcome |-> "killed"]
  BY DEF KillBuild, NotBuilding
<1>4. 1 \in Releases' /\ <<>> \in Rows' /\ dist' \in [files : [Files -> Bodies'], rows : Rows']
  BY <1>1, FirstRelease, NoRows, SameTables DEF BuildTypeOK
<1>5. BuildTypeOK'
  BY <1>3, <1>4 DEF BuildTypeOK
<1>6. BuildInv'
  BY <1>3 DEF BuildInv
<1> QED
  BY <1>1, <1>2, <1>5, <1>6 DEF DeployInv

LEMMA RunBinaryStep == DeployInv /\ RunBinary => DeployInv'
<1> SUFFICES ASSUME DeployInv, RunBinary PROVE DeployInv'
  OBVIOUS
<1> DEFINE place == ScratchOf(build.runner)
<1>1. /\ UNCHANGED <<tables, release, trees, dist>> /\ tables \in Sites /\ BuildTypeOK
      /\ build.pc = "run" /\ release = build.release /\ StartPass(place)
      /\ build' = [build EXCEPT !.pc = "wait"]
  BY DEF DeployInv, CoreInv, PrerenderTypeOK, RunBinary
<1>2. place \in {"joined", "scratch"}
  BY DEF ScratchOf
<1> HIDE DEF place
<1>3. CoreInv'
  BY <1>1, <1>2, StartPassCore DEF DeployInv, Places
<1>4. /\ build'.pc = "wait" /\ build'.release = build.release /\ build'.outcome = build.outcome
      /\ build'.rows = build.rows /\ build'.next = build.next
  BY <1>1 DEF BuildTypeOK
<1>5. BuildTypeOK'
  BY <1>1, SameTables DEF BuildTypeOK
<1>6. pass'.pc = "clean" /\ pass'.place = place /\ pass'.release = release
  BY <1>1 DEF StartPass, Finished
<1>7. build.outcome # "ok" /\ build.next = 1 /\ trees'["scratch"] = EmptyTree
  BY <1>1 DEF DeployInv, BuildInv
<1>8. BuildInv'
  <2> HIDE DEF EmptyTree
  <2> QED
    BY <1>1, <1>2, <1>4, <1>6, <1>7 DEF BuildInv
<1>9. site' = Down
  BY <1>1, <1>2 DEF StartPass, DeployInv, Down
<1> QED
  BY <1>3, <1>5, <1>8, <1>9 DEF DeployInv

(* The rows are read from a directory whose pass has succeeded.            *)
LEMMA ReadScratchStep == DeployInv /\ ReadScratch => DeployInv'
<1> SUFFICES ASSUME DeployInv, ReadScratch PROVE DeployInv'
  OBVIOUS
<1> DEFINE rows == trees["scratch"].manifest.rows
<1>1. /\ UNCHANGED <<tables, release, pass, site, dist>> /\ tables \in Sites /\ BuildTypeOK /\ TreesTypeOK
      /\ build.pc = "wait" /\ pass.pc = "idle"
  BY DEF DeployInv, CoreInv, PrerenderTypeOK, ReadScratch
<1>2. CASE EndBuild("failed")
  BY <1>1, <1>2, FailedBuild
<1>3. CASE pass.result = "ok" /\ build' = [build EXCEPT !.pc = "copy", !.rows = rows] /\ UNCHANGED trees
  <2>1. CoreInv'
    BY <1>1, <1>3, SameTables, BuildFrame DEF DeployInv, TreesTypeOK
  <2>2. rows \in Rows
    BY <1>1 DEF TreesTypeOK, Places
  <2>3. /\ build'.pc = "copy" /\ build'.release = build.release /\ build'.outcome = build.outcome
        /\ build'.rows = rows /\ build'.next = build.next
    BY <1>1, <1>3 DEF BuildTypeOK
  <2>4. Faithful(build.release, rows, trees["scratch"].files) /\ build.outcome # "ok"
    BY <1>1, <1>3 DEF DeployInv, BuildInv
  <2>5. build.next = 1
    BY <1>1 DEF DeployInv, BuildInv
  <2> HIDE DEF rows
  <2>6. BuildTypeOK'
    BY <1>1, <1>3, <2>2, SameTables DEF BuildTypeOK
  <2>7. \A i \in DOMAIN rows : ~(i < 1)
    BY <2>4 DEF Faithful
  <2>8. BuildInv'
    BY <1>1, <1>3, <2>3, <2>4, <2>5, <2>7, SameTables DEF BuildInv, Faithful
  <2> QED
    BY <1>1, <2>1, <2>6, <2>8 DEF DeployInv
<1> QED
  BY <1>2, <1>3 DEF ReadScratch

(* Rows that share a file hold one page, so a copy undoes no earlier one.  *)
LEMMA CopyStep == DeployInv /\ copyPrerenderedTree => DeployInv'
<1> SUFFICES ASSUME DeployInv, copyPrerenderedTree PROVE DeployInv'
  OBVIOUS
<1> DEFINE n == build.release
           rows == build.rows
           k == build.next
           f == rows[k].file
           files == trees["scratch"].files
<1>1. /\ UNCHANGED <<tables, release, pass, site>> /\ tables \in Sites /\ BuildTypeOK /\ TreesTypeOK
      /\ build.pc = "copy" /\ pass.pc = "idle" /\ k \in DOMAIN rows /\ n \in Releases
      /\ Faithful(n, rows, files) /\ build.outcome # "ok"
  BY DEF DeployInv, CoreInv, PrerenderTypeOK, BuildInv, BuildTypeOK, copyPrerenderedTree
<1>2. CASE EndBuild("failed") /\ UNCHANGED dist
  BY <1>1, <1>2, FailedBuild
<1>3. CASE dist' = [dist EXCEPT !.files[f] = files[f]] /\ build' = [build EXCEPT !.next = @ + 1] /\ UNCHANGED trees
  <2>1. CoreInv'
    BY <1>1, <1>3, SameTables, BuildFrame DEF DeployInv, TreesTypeOK
  <2>2. \A i \in DOMAIN rows : rows[i] \in EntriesOf(n) /\ rows[i].file \in Files
    BY <1>1, EntryFacts DEF Faithful
  <2>3. f \in Files /\ files[f] \in Bodies
    BY <1>1, <2>2 DEF TreesTypeOK, Places
  <2>4. k \in Nat \ {0}
    BY <1>1 DEF BuildTypeOK
  <2>5. /\ build'.pc = "copy" /\ build'.release = n /\ build'.outcome = build.outcome
        /\ build'.rows = rows /\ build'.next = k + 1
    BY <1>1, <1>3 DEF BuildTypeOK
  <2>6. /\ \A g \in Files : dist'.files[g] = IF g = f THEN files[f] ELSE dist.files[g]
        /\ dist' \in [files : [Files -> Bodies], rows : Rows]
    <3> HIDE DEF f, files
    <3> QED
      BY <1>1, <1>3, <2>3 DEF BuildTypeOK
  <2>7. BuildTypeOK'
    <3>1. k + 1 \in Nat \ {0}
      BY <2>4
    <3>2. ASSUME NEW next \in Nat \ {0}, build' = [build EXCEPT !.next = next] PROVE BuildTypeOK'
      BY <1>1, <2>6, <3>2, SameTables DEF BuildTypeOK
    <3> QED
      BY <1>3, <3>1, <3>2
  <2>8. ASSUME Apart(n), NEW i \in DOMAIN rows, i < k + 1 PROVE dist'.files[rows[i].file] = rows[i].page
    <3>1. files[rows[i].file] = rows[i].page
      BY <1>1, <2>8 DEF Faithful
    <3>2. i \in Nat
      BY <1>1 DEF Faithful
    <3>3. CASE rows[i].file = f
      BY <2>2, <2>6, <3>1, <3>3
    <3>4. CASE rows[i].file # f
      <4>1. i < k
        BY <2>4, <2>8, <3>2, <3>4
      <4>2. dist.files[rows[i].file] = rows[i].page
        BY <1>1, <2>8, <4>1 DEF DeployInv, BuildInv
      <4> QED
        BY <2>2, <2>6, <3>4, <4>2
    <3> QED
      BY <3>3, <3>4
  <2>9. BuildInv'
    <3> HIDE DEF n, rows, k, f
    <3> QED
      BY <1>1, <1>3, <2>5, <2>8, SameTables DEF BuildInv, Faithful
  <2> QED
    BY <1>1, <2>1, <2>7, <2>9 DEF DeployInv
<1> QED
  BY <1>2, <1>3 DEF copyPrerenderedTree

(* The manifest is written after the last row was copied.                  *)
LEMMA OutputStep == DeployInv /\ writeOutputManifest => DeployInv'
<1> SUFFICES ASSUME DeployInv, writeOutputManifest PROVE DeployInv'
  OBVIOUS
<1> DEFINE n == build.release
           rows == build.rows
<1>1. /\ UNCHANGED <<tables, release, pass, site>> /\ tables \in Sites /\ BuildTypeOK /\ TreesTypeOK
      /\ build.pc = "copy" /\ pass.pc = "idle" /\ build.next \notin DOMAIN rows
      /\ rows \in Seq(EntriesOf(n)) /\ build.next \in Nat \ {0}
  BY DEF DeployInv, CoreInv, PrerenderTypeOK, BuildInv, BuildTypeOK, Faithful, writeOutputManifest
<1>2. CASE EndBuild("failed") /\ UNCHANGED dist
  BY <1>1, <1>2, FailedBuild
<1>3. CASE EndBuild("ok") /\ dist' = [dist EXCEPT !.rows = rows]
  <2>1. CoreInv'
    BY <1>1, <1>3, EmptyScratch, BuildFrame DEF DeployInv, EndBuild
  <2>2. build' = [pc |-> "idle", runner |-> "subprocess", strict |-> FALSE, release |-> n,
                  rows |-> <<>>, next |-> 1, outcome |-> "ok"]
    BY <1>3 DEF EndBuild, NotBuilding
  <2>3. rows \in Rows /\ n \in Releases /\ <<>> \in Rows
    BY <1>1, NoRows DEF BuildTypeOK
  <2>4. dist'.rows = rows /\ dist'.files = dist.files /\ dist' \in [files : [Files -> Bodies], rows : Rows]
    BY <1>1, <1>3, <2>3 DEF BuildTypeOK
  <2>5. BuildTypeOK'
    BY <1>1, <2>2, <2>3, <2>4, SameTables DEF BuildTypeOK
  <2>6. \A i \in DOMAIN rows : i < build.next
    <3>1. DOMAIN rows = 1..Len(rows) /\ Len(rows) \in Nat
      BY <1>1
    <3> QED
      BY <1>1, <3>1
  <2>7. Apart(n) => \A i \in DOMAIN rows : dist.files[rows[i].file] = rows[i].page
    BY <1>1, <2>6 DEF DeployInv, BuildInv
  <2>8. ASSUME NEW m, m = n PROVE Faithful(m, dist.rows, dist.files)'
    BY <1>1, <2>4, <2>7, <2>8, SameTables DEF Faithful
  <2>9. build'.pc = "idle" /\ build'.release = n /\ build'.outcome = "ok"
    BY <2>2
  <2>10. BuildInv'
    BY <2>8, <2>9 DEF BuildInv
  <2> QED
    BY <1>1, <2>1, <2>5, <2>10 DEF DeployInv
<1> QED
  BY <1>2, <1>3 DEF writeOutputManifest

LEMMA BuildStep == DeployInv /\ [DeployNext]_prerenderVars => DeployInv'
<1> SUFFICES ASSUME DeployInv, [DeployNext]_prerenderVars PROVE DeployInv'
  OBVIOUS
<1>1. CASE UNCHANGED prerenderVars
  <2>1. UNCHANGED <<tables, release, trees, pass, site, build, dist>>
    BY <1>1 DEF prerenderVars
  <2>2. TreesTypeOK' /\ PassTypeOK' /\ release' \in Releases' /\ tables' \in Sites
    BY <2>1, SameTables DEF DeployInv, CoreInv, PrerenderTypeOK, TreesTypeOK, PassTypeOK
  <2>3. PassInv'
    BY <2>1, SameTables DEF DeployInv, CoreInv, PassInv, Faithful
  <2>4. BuildTypeOK'
    BY <2>1, BuildTyped DEF DeployInv, CoreInv, PrerenderTypeOK
  <2>5. BuildInv'
    BY <2>1, SameTables DEF DeployInv, BuildInv, Faithful
  <2> QED
    BY <2>1, <2>2, <2>3, <2>4, <2>5 DEF DeployInv, CoreInv, PrerenderTypeOK
<1> QED
  BY <1>1, DeployPass, RunBinaryStep, ReadScratchStep, CopyStep, OutputStep, KillBuildStep, StartBuildStep
     DEF DeployNext

LEMMA DeployedOK == DeployInv => AsRendered
<1> SUFFICES ASSUME DeployInv PROVE AsRendered
  OBVIOUS
<1>1. ServedAsRendered
  BY DEF DeployInv, ServedAsRendered, Down
<1>2. DeployedAsRendered
  <2> SUFFICES ASSUME build.outcome = "ok", Apart(build.release), NEW i \in DOMAIN dist.rows
               PROVE  /\ dist.files[dist.rows[i].file] = dist.rows[i].page
                      /\ dist.rows[i].page.release = build.release
    BY DEF DeployedAsRendered
  <2>1. Faithful(build.release, dist.rows, dist.files) /\ build.release \in Releases /\ tables \in Sites
    BY DEF DeployInv, BuildInv, BuildTypeOK, CoreInv, PrerenderTypeOK
  <2>2. dist.rows[i] \in EntriesOf(build.release)
    BY <2>1 DEF Faithful
  <2> QED
    BY <2>1, <2>2, EntryFacts DEF Faithful
<1> QED
  BY <1>1, <1>2 DEF AsRendered

(* A Build that says it succeeded has deployed what its release renders,   *)
(* for any route tables and runner, and whatever killed Builds and the     *)
(* binaries they left running did before (Build, copyPrerenderedTree and   *)
(* writeOutputManifest of adapter-static).                                 *)
THEOREM DeployedAsPlanned == DeploySpec => []AsRendered
<1>1. PrerenderInit => DeployInv
  <2> SUFFICES ASSUME PrerenderInit PROVE DeployInv
    OBVIOUS
  <2>1. CoreInv
    BY CoreInit
  <2>2. /\ tables \in Sites /\ site = Down /\ dist = [files |-> EmptyTree.files, rows |-> <<>>]
        /\ build = [pc |-> "idle", runner |-> "subprocess", strict |-> FALSE, release |-> 1,
                    rows |-> <<>>, next |-> 1, outcome |-> None]
    BY DEF PrerenderInit, NotBuilding
  <2>3. EmptyTree.files \in [Files -> Bodies]
    BY DEF EmptyTree, Bodies
  <2>4. BuildTypeOK
    <3> HIDE DEF EmptyTree
    <3> QED
      BY <2>2, <2>3, FirstRelease, NoRows DEF BuildTypeOK
  <2>5. BuildInv
    BY <2>2 DEF BuildInv, None
  <2> QED
    BY <2>1, <2>2, <2>4, <2>5 DEF DeployInv
<1> QED
  BY <1>1, BuildStep, DeployedOK, PTL DEF DeploySpec

-----------------------------------------------------------------------------
(* The sidecar and its supervisor. *)

(* The budget loop works with is positive whatever the option says. *)
LEMMA MaxRetryPositive == MaxRetry \in Nat /\ MaxRetry >= 1
BY SidecarAssumption DEF MaxRetry

USE MaxRetryPositive

(* NewSupervisor and an empty registry establish the invariant. *)
LEMMA SidecarInit == Init => SidecarInv
<1>1. ASSUME Init
      PROVE  TypeOK
  <2>1. proc \in [Procs -> {"none", "booting", "serving", "exited"}]
    BY <1>1 DEF Init
  <2>2. backoff \in 1..BackoffCap
    BY <1>1, SidecarAssumption DEF Init
  <2>3. /\ spawned \in 0..(MaxRetry + 2) /\ restarts \in 0..(MaxRetry + 1)
        /\ current \in Procs \cup {0} /\ client \in Procs \cup {0}
    BY <1>1 DEF Init
  <2>4. QED
    BY <1>1, <2>1, <2>2, <2>3 DEF Init, TypeOK
<1>2. Init => BudgetPaid /\ Holds /\ NoOrphan
  BY DEF Init, BudgetPaid, Holds, NoOrphan, Alive
<1>3. QED
  BY <1>1, <1>2 DEF SidecarInv

(* A process that changes by itself: it becomes ready, fails to, or exits. *)
LEMMA ProcessStep ==
  ASSUME SidecarInv, NEW p \in Procs, ProcReady(p) \/ ProcBadReady(p) \/ ProcExit(p)
  PROVE  SidecarInv'
<1>1. TypeOK'
  BY DEF SidecarInv, TypeOK, ProcReady, ProcBadReady, ProcExit, loopVars
<1>2. BudgetPaid' /\ Holds'
  BY DEF SidecarInv, BudgetPaid, Holds, ProcReady, ProcBadReady, ProcExit, loopVars
<1>3. NoOrphan'
  <2>1. \A q \in Procs : Alive(q)' => Alive(q)
    BY DEF SidecarInv, TypeOK, Alive, ProcReady, ProcBadReady, ProcExit
  <2>2. UNCHANGED <<spawned, sup, current>>
    BY DEF ProcReady, ProcBadReady, ProcExit, loopVars
  <2>3. QED
    BY <2>1, <2>2 DEF SidecarInv, NoOrphan
<1>4. QED
  BY <1>1, <1>2, <1>3 DEF SidecarInv

(* StartFallbackSidecar around Run. *)
LEMMA BootStep ==
  ASSUME SidecarInv, BootSkips \/ BootRuns \/ Configure
  PROVE  SidecarInv'
<1>0. 1 \in Procs
  BY DEF Procs
<1>1. TypeOK'
  BY <1>0 DEF SidecarInv, TypeOK, BootSkips, BootRuns, Configure, procVars, loopVars
<1>2. BudgetPaid' /\ Holds'
  BY DEF SidecarInv, BudgetPaid, Holds, BootSkips, BootRuns, Configure, procVars, loopVars
<1>3. NoOrphan'
  BY DEF SidecarInv, Holds, NoOrphan, Alive, BootSkips, BootRuns, Configure, procVars, loopVars
<1>4. QED
  BY <1>1, <1>2, <1>3 DEF SidecarInv

(* The steps of Start, on its first call and on a restart. *)
LEMMA StartPreserves ==
  ASSUME SidecarInv, StartStep
  PROVE  SidecarInv'
<1>1. CASE Spawn
  <2>1. spawned + 1 \in Procs /\ spawned \in Nat
    BY <1>1 DEF SidecarInv, TypeOK, BudgetPaid, Spawn, Procs
  <2>2. TypeOK'
    BY <1>1, <2>1 DEF SidecarInv, TypeOK, Spawn, Procs
  <2>3. BudgetPaid' /\ Holds'
    BY <1>1, <2>1 DEF SidecarInv, TypeOK, BudgetPaid, Holds, Spawn
  <2>4. \A q \in Procs : ~Alive(q)
    BY <1>1 DEF SidecarInv, NoOrphan, Spawn
  <2>5. NoOrphan'
    BY <1>1, <2>1, <2>4 DEF SidecarInv, TypeOK, NoOrphan, Alive, Spawn
  <2>6. QED
    BY <2>2, <2>3, <2>5 DEF SidecarInv
<1>2. CASE SpawnFails \/ Drain \/ AwaitExit
  <2>0. /\ UNCHANGED <<procVars, current, restarts, backoff, client, stop, outcome>>
        /\ cancelled' = cancelled \/ (AwaitExit /\ cancelled' = cancelled \cup {spawned})
        /\ StartError
    BY <1>2 DEF SpawnFails, Drain, AwaitExit
  <2>1. AwaitExit => spawned \in Procs
    BY DEF SidecarInv, TypeOK, Holds, AwaitExit, Procs
  <2>2. TypeOK'
    BY <2>0, <2>1, ZenonT(60) DEF SidecarInv, TypeOK, StartError, procVars
  <2>3. BudgetPaid' /\ Holds'
    <3>1. boot # "none" /\ (boot # "running" => current # 0)
      BY <1>2 DEF SidecarInv, Holds, SpawnFails, Drain, AwaitExit
    <3>2. QED
      BY <1>2, <2>0, <3>1 DEF SidecarInv, BudgetPaid, Holds, StartError, procVars
  <2>4. \A q \in Procs : ~Alive(q)
    BY <1>2 DEF SidecarInv, NoOrphan, Alive, SpawnFails, Drain, AwaitExit
  <2>5. NoOrphan'
    BY <2>0, <2>4 DEF NoOrphan, Alive, procVars
  <2>6. QED
    BY <2>2, <2>3, <2>5 DEF SidecarInv
<1>3. CASE AwaitEndpoint
  <2>1. spawned \in Procs
    BY <1>3 DEF SidecarInv, TypeOK, AwaitEndpoint
  <2>2. TypeOK'
    BY <1>3, <2>1, SidecarAssumption DEF SidecarInv, TypeOK, AwaitEndpoint, procVars
  <2>3. BudgetPaid' /\ Holds'
    BY <1>3, <2>1 DEF SidecarInv, BudgetPaid, Holds, AwaitEndpoint, procVars, Procs
  <2>4. NoOrphan'
    BY <1>3 DEF SidecarInv, NoOrphan, Alive, AwaitEndpoint, procVars
  <2>5. QED
    BY <2>2, <2>3, <2>4 DEF SidecarInv
<1>4. CASE AwaitGiveUp
  <2>1. spawned \in Procs
    BY <1>4 DEF SidecarInv, TypeOK, Holds, AwaitGiveUp, Procs
  <2>2. TypeOK'
    BY <1>4, <2>1 DEF SidecarInv, TypeOK, AwaitGiveUp, procVars
  <2>3. BudgetPaid' /\ Holds'
    BY <1>4 DEF SidecarInv, BudgetPaid, Holds, AwaitGiveUp, procVars
  <2>4. NoOrphan'
    BY <1>4 DEF SidecarInv, NoOrphan, Alive, AwaitGiveUp, procVars
  <2>5. QED
    BY <2>2, <2>3, <2>4 DEF SidecarInv
<1>5. QED
  BY <1>1, <1>2, <1>3, <1>4 DEF StartStep

(* The steps of loop. *)
LEMMA LoopPreserves ==
  ASSUME SidecarInv, LoopStep
  PROVE  SidecarInv'
<1>1. CASE WaitReturns
  <2>0. restarts \in Nat /\ restarts <= MaxRetry
    BY DEF SidecarInv, TypeOK, BudgetPaid
  <2>1. TypeOK'
    BY <1>1, <2>0 DEF SidecarInv, TypeOK, WaitReturns, WaitReturnsWithin, procVars
  <2>2. BudgetPaid'
    BY <1>1, <2>0 DEF SidecarInv, TypeOK, BudgetPaid, WaitReturns, WaitReturnsWithin, procVars
  <2>3. Holds'
    BY <1>1 DEF SidecarInv, Holds, WaitReturns, WaitReturnsWithin, procVars
  <2>4. NoOrphan'
    BY <1>1 DEF SidecarInv, NoOrphan, Alive, WaitReturns, WaitReturnsWithin, procVars
  <2>5. QED
    BY <2>1, <2>2, <2>3, <2>4 DEF SidecarInv
<1>2. CASE BackoffElapses \/ BackoffCancelled
  <2>1. TypeOK'
    <3>1. backoff \in Nat /\ 1 <= backoff /\ backoff <= BackoffCap
      BY SidecarAssumption DEF SidecarInv, TypeOK
    <3>2. backoff' \in 1..BackoffCap
      BY <1>2, <3>1, SidecarAssumption DEF BackoffElapses, BackoffCancelled
    <3>3. QED
      BY <1>2, <3>2 DEF SidecarInv, TypeOK, BackoffElapses, BackoffCancelled, procVars
  <2>2. BudgetPaid' /\ Holds'
    BY <1>2 DEF SidecarInv, BudgetPaid, Holds, BackoffElapses, BackoffCancelled, procVars
  <2>3. NoOrphan'
    BY <1>2 DEF SidecarInv, NoOrphan, Alive, BackoffElapses, BackoffCancelled, procVars
  <2>4. QED
    BY <2>1, <2>2, <2>3 DEF SidecarInv
<1>3. QED
  BY <1>1, <1>2 DEF LoopStep

(* Stop, a cancelled context and a request leave the processes alone. *)
LEMMA StopPreserves ==
  ASSUME SidecarInv, StopCurrent \/ StopCancel \/ ParentCancel \/ Dispatch
  PROVE  SidecarInv'
<1>1. TypeOK'
  BY ZenonT(60) DEF SidecarInv, TypeOK, Holds, StopCurrent, StopCancel, ParentCancel, Dispatch,
         procVars, loopVars
<1>2. BudgetPaid' /\ Holds'
  BY DEF SidecarInv, BudgetPaid, Holds, StopCurrent, StopCancel, ParentCancel, Dispatch,
         procVars, loopVars
<1>3. NoOrphan'
  BY DEF SidecarInv, NoOrphan, Alive, StopCurrent, StopCancel, ParentCancel, Dispatch,
         procVars, loopVars
<1>4. QED
  BY <1>1, <1>2, <1>3 DEF SidecarInv

LEMMA SidecarStep == SidecarInv /\ [Next]_vars => SidecarInv'
<1>1. SidecarInv /\ Next => SidecarInv'
  BY ProcessStep, BootStep, StartPreserves, LoopPreserves, StopPreserves DEF Next
<1>2. SidecarInv /\ UNCHANGED vars => SidecarInv'
  BY DEF SidecarInv, TypeOK, BudgetPaid, Holds, NoOrphan, Alive, vars
<1>3. QED
  BY <1>1, <1>2

(* Whatever the budget and the backoff cap, a live sidecar process is always *)
(* one that Run or loop holds, and the supervisor never spawns more than the *)
(* first process and MaxRestarts more.                                       *)
THEOREM SupervisionSafe == Spec => [](TypeOK /\ NoOrphan /\ RestartBudget)
<1>1. SidecarInv => TypeOK /\ NoOrphan /\ RestartBudget
  BY DEF SidecarInv, TypeOK, BudgetPaid, RestartBudget
<1>2. QED
  BY <1>1, SidecarInit, SidecarStep, PTL DEF Spec


-----------------------------------------------------------------------------
(* What is generated, package by package. *)

PageBody(d) == Body(UserSrc(d), "page_render.gen.go")
LayoutBody(l) == Body(LayoutSrc(l), "layout_render.gen.go")
ErrorBody(e) == Body(ErrorSrc(e), "error_render.gen.go")
Boundaries == IF planSSRLayouts = {} THEN {} ELSE planSSRErrors

InUserSrc(f, d) ==
    \/ d \in ScannedRoutes /\ HasServer(d) /\ f = RESTMirror(d)
    \/ d \in ScannedRoutes /\ HasPageServer(d) /\ f = PageMirror(d)
    \/ d \in planSSR /\ f \in {PageBody(d), Companion(UserSrc(d))}
    \/ d \in planSSR /\ ~Shaped(d) /\ f = emitSyntheticPageData(d)

InLayoutSrc(f, l) ==
    \/ l \in layoutImports /\ LayoutServer(l) /\ f = LayoutMirror(l)
    \/ l \in planSSRLayouts /\ f \in {LayoutBody(l), Companion(LayoutSrc(l))}
    \/ l \in planSSRLayouts /\ ~LayoutServer(l) /\ f = emitSyntheticLayoutData(l)

InErrorSrc(f, e) ==
    e \in Boundaries /\ f \in {ErrorBody(e), Companion(ErrorSrc(e)), emitSyntheticErrorData(e)}

InGen(f, d) ==
    \/ d \in ScannedRoutes /\ HasServer(d) /\ f = RESTWire(d)
    \/ d \in ScannedRoutes /\ HasPageServer(d) /\ f = emitWire(d)
    \/ d \in layoutImports /\ LayoutServer(d) /\ f = LayoutWire(d)
    \/ d \in planSSR /\ f = emitSSRWire(d)
    \/ d \in planSSRLayouts /\ f = emitSSRLayoutWire(d)
    \/ d \in Boundaries /\ f = emitSSRErrorWire(d)

InManifestPackage(f) == f = GenerateManifest \/ f \in ProjectFiles

InClient(f) ==
    /\ command # "prerender"
    /\ \/ \E d \in Pages : f = ClientEntry(d) \/ (Lowered(d) /\ f = LoweredPage(d))
       \/ \E d \in Pages : LayoutChain(d) # {} /\ f = emitChainWrapper(LayoutChain(d))
       \/ Pages # {} /\ f = emitClientRouter

Listed(f) ==
    \/ \E d : InUserSrc(f, d) \/ InLayoutSrc(f, d) \/ InErrorSrc(f, d) \/ InGen(f, d)
    \/ InManifestPackage(f) \/ InClient(f)

LEMMA RouteListed ==
  ASSUME NEW f
  PROVE  f \in RouteFiles(ScannedRoutes) <=>
           \/ \E d \in ScannedRoutes :
                 \/ HasServer(d) /\ f \in {RESTMirror(d), RESTWire(d)}
                 \/ HasPageServer(d) /\ f \in {PageMirror(d), emitWire(d)}
           \/ \E l \in layoutImports : LayoutServer(l) /\ f \in {LayoutMirror(l), LayoutWire(l)}
           \/ \E d \in Pages : command # "prerender" /\ (f = ClientEntry(d) \/ (Lowered(d) /\ f = LoweredPage(d)))
<1>1. \A d : f \in EmittedFor(d) <=>
               \/ HasServer(d) /\ f \in {RESTMirror(d), RESTWire(d)}
               \/ HasPageServer(d) /\ f \in {PageMirror(d), emitWire(d)}
               \/ \E l \in LayoutChain(d) : LayoutServer(l) /\ f \in {LayoutMirror(l), LayoutWire(l)}
               \/ HasPage(d) /\ command # "prerender" /\ (f = ClientEntry(d) \/ (Lowered(d) /\ f = LoweredPage(d)))
  BY DEF EmittedFor, emitClientEntry, emitCSRFFallbackLowering, emitRESTRoute, emitMirrorAndWire,
         emitLayoutMirrorAndWire
<1>2. f \in RouteFiles(ScannedRoutes) <=> \E d \in ScannedRoutes : f \in EmittedFor(d)
  BY DEF RouteFiles
<1>3. \A l : l \in layoutImports <=> \E d \in ScannedRoutes : l \in LayoutChain(d)
  BY DEF layoutImports
<1> QED
  BY <1>1, <1>2, <1>3 DEF Pages

LEMMA Catalogue == ASSUME NEW f PROVE f \in WholeOutput <=> Listed(f)
<1>1. f \in PageFiles <=> \E d \in planSSR : \/ f \in {PageBody(d), Companion(UserSrc(d)), emitSSRWire(d)}
                                             \/ ~Shaped(d) /\ f = emitSyntheticPageData(d)
  BY DEF PageFiles, RenderedPage, Transpiled, PageBody
<1>2. f \in LayoutFiles <=> \E l \in planSSRLayouts :
                               \/ f \in {LayoutBody(l), Companion(LayoutSrc(l)), emitSSRLayoutWire(l)}
                               \/ ~LayoutServer(l) /\ f = emitSyntheticLayoutData(l)
  BY DEF LayoutFiles, RenderedLayout, Transpiled, LayoutBody
<1>3. f \in ErrorFiles <=> \E e \in Boundaries :
          f \in {ErrorBody(e), Companion(ErrorSrc(e)), emitSSRErrorWire(e), emitSyntheticErrorData(e)}
  BY DEF ErrorFiles, Boundaries, RenderedError, Transpiled, ErrorBody
<1>4. f \in ClientFiles <=>
        /\ command # "prerender"
        /\ \/ \E d \in Pages : LayoutChain(d) # {} /\ f = emitChainWrapper(LayoutChain(d))
           \/ Pages # {} /\ f = emitClientRouter
  BY DEF ClientFiles
<1>5. f \in WholeOutput <=>
        \/ f \in RouteFiles(ScannedRoutes) \/ f \in PageFiles \/ f \in LayoutFiles \/ f \in ErrorFiles
        \/ f = GenerateManifest \/ f \in ProjectFiles \/ f \in ClientFiles
  BY DEF WholeOutput
<1> QED
  BY <1>1, <1>2, <1>3, <1>4, <1>5, RouteListed
     DEF Listed, InUserSrc, InLayoutSrc, InErrorSrc, InGen, InManifestPackage, InClient

(* The package and the name of a file. *)
LEMMA UserSrcFile ==
  ASSUME NEW f, NEW d, InUserSrc(f, d)
  PROVE  f.pkg = UserSrc(d)
  BY DEF InUserSrc, RESTMirror, PageMirror, mirrorUserSource, PageBody, Body, Companion, emitSyntheticPageData, File

LEMMA LayoutSrcFile ==
  ASSUME NEW f, NEW d, InLayoutSrc(f, d)
  PROVE  f.pkg = LayoutSrc(d)
  BY DEF InLayoutSrc, LayoutMirror, mirrorUserSource, LayoutBody, Body, Companion, emitSyntheticLayoutData, File

LEMMA ErrorSrcFile ==
  ASSUME NEW f, NEW d, InErrorSrc(f, d)
  PROVE  f.pkg = ErrorSrc(d)
  BY DEF InErrorSrc, ErrorBody, Body, Companion, emitSyntheticErrorData, File

LEMMA GenFile ==
  ASSUME NEW f, NEW d, InGen(f, d)
  PROVE  f.pkg = Gen(d)
  BY DEF InGen, RESTWire, emitWire, LayoutWire, emitSSRWire, emitSSRLayoutWire, emitSSRErrorWire, File

LEMMA ManifestFile ==
  ASSUME NEW f, InManifestPackage(f)
  PROVE  f.pkg = ManifestPackage
  BY DEF InManifestPackage, GenerateManifest, ProjectFiles, ProjectFile, File

LEMMA ClientFile ==
  ASSUME NEW f, InClient(f)
  PROVE  f.pkg[1] \in {"client", "router", "csrf-fallback", "chain"}
  BY DEF InClient, ClientEntry, LoweredPage, emitChainWrapper, emitClientRouter, ClientRouterModule, File

(* Two files of one package are of one kind of package. *)
LEMMA SamePackage ==
  ASSUME NEW f, NEW g, Listed(f), Listed(g), f.pkg = g.pkg
  PROVE  \/ \E d : InUserSrc(f, d) /\ InUserSrc(g, d)
         \/ \E d : InLayoutSrc(f, d) /\ InLayoutSrc(g, d)
         \/ \E d : InErrorSrc(f, d) /\ InErrorSrc(g, d)
         \/ \E d : InGen(f, d) /\ InGen(g, d)
         \/ InManifestPackage(f) /\ InManifestPackage(g)
         \/ InClient(f) /\ InClient(g)
<1>1. ASSUME NEW h, Listed(h)
      PROVE  \/ \E d : InUserSrc(h, d) /\ h.pkg = UserSrc(d)
             \/ \E d : InLayoutSrc(h, d) /\ h.pkg = LayoutSrc(d)
             \/ \E d : InErrorSrc(h, d) /\ h.pkg = ErrorSrc(d)
             \/ \E d : InGen(h, d) /\ h.pkg = Gen(d)
             \/ InManifestPackage(h) /\ h.pkg = ManifestPackage
             \/ InClient(h) /\ h.pkg[1] \in {"client", "router", "csrf-fallback", "chain"}
  BY <1>1, UserSrcFile, LayoutSrcFile, ErrorSrcFile, GenFile, ManifestFile, ClientFile DEF Listed
<1> QED
  BY <1>1 DEF UserSrc, LayoutSrc, ErrorSrc, Gen, ManifestPackage

LEMMA OnePerName ==
  ASSUME NEW f, NEW g, f.name = g.name
  PROVE  /\ \A d : InUserSrc(f, d) /\ InUserSrc(g, d) => f = g
         /\ \A d : InLayoutSrc(f, d) /\ InLayoutSrc(g, d) => f = g
         /\ \A d : InErrorSrc(f, d) /\ InErrorSrc(g, d) => f = g
         /\ \A d : InGen(f, d) /\ InGen(g, d) => f = g
         /\ InManifestPackage(f) /\ InManifestPackage(g) => f = g
         /\ InClient(f) /\ InClient(g) /\ f.pkg = g.pkg => f = g
<1>1. ASSUME NEW d, InUserSrc(f, d), InUserSrc(g, d) PROVE f = g
  <2>1. /\ RESTMirror(d).name = "server.go"
        /\ PageMirror(d).name = "page_server.go"
        /\ PageBody(d).name = "page_render.gen.go"
        /\ Companion(UserSrc(d)).name = "ssr_companion.gen.go"
        /\ emitSyntheticPageData(d).name = "page_synthetic.gen.go"
    BY DEF RESTMirror, PageMirror, mirrorUserSource, PageBody, Body, Companion, emitSyntheticPageData, File
  <2> QED BY <1>1, <2>1 DEF InUserSrc
<1>2. ASSUME NEW l, InLayoutSrc(f, l), InLayoutSrc(g, l) PROVE f = g
  <2>1. /\ LayoutMirror(l).name = "layout_server.go"
        /\ LayoutBody(l).name = "layout_render.gen.go"
        /\ Companion(LayoutSrc(l)).name = "ssr_companion.gen.go"
        /\ emitSyntheticLayoutData(l).name = "layout_synthetic.gen.go"
    BY DEF LayoutMirror, mirrorUserSource, LayoutBody, Body, Companion, emitSyntheticLayoutData, File
  <2> QED BY <1>2, <2>1 DEF InLayoutSrc
<1>3. ASSUME NEW e, InErrorSrc(f, e), InErrorSrc(g, e) PROVE f = g
  <2>1. /\ ErrorBody(e).name = "error_render.gen.go"
        /\ Companion(ErrorSrc(e)).name = "ssr_companion.gen.go"
        /\ emitSyntheticErrorData(e).name = "error_synthetic.gen.go"
    BY DEF ErrorBody, Body, Companion, emitSyntheticErrorData, File
  <2> QED BY <1>3, <2>1 DEF InErrorSrc
<1>4. ASSUME NEW d, InGen(f, d), InGen(g, d) PROVE f = g
  <2>1. /\ RESTWire(d).name = "server.gen.go"
        /\ emitWire(d).name = "wire.gen.go"
        /\ LayoutWire(d).name = "wire_layout.gen.go"
        /\ emitSSRWire(d).name = "wire_render.gen.go"
        /\ emitSSRLayoutWire(d).name = "wire_layout_render.gen.go"
        /\ emitSSRErrorWire(d).name = "wire_error_render.gen.go"
    BY DEF RESTWire, emitWire, LayoutWire, emitSSRWire, emitSSRLayoutWire, emitSSRErrorWire, File
  <2> QED BY <1>4, <2>1 DEF InGen
<1>5. ASSUME InManifestPackage(f), InManifestPackage(g) PROVE f = g
  <2>1. GenerateManifest.name = "manifest.gen.go"
    BY DEF GenerateManifest, File
  <2>2. /\ ProjectFile("assets.gen.go", "Assets", "kit").name = "assets.gen.go"
        /\ ProjectFile("hooks.gen.go", "Hooks", "kit").name = "hooks.gen.go"
        /\ ProjectFile("embed.go", "ClientFS", "embed").name = "embed.go"
    BY DEF ProjectFile, File
  <2> QED BY <1>5, <2>1, <2>2 DEF InManifestPackage, ProjectFiles
<1>6. ASSUME InClient(f), InClient(g), f.pkg = g.pkg PROVE f = g
  <2>1. \A d : /\ ClientEntry(d).name = "entry.ts" /\ ClientEntry(d).pkg = <<"client", d>>
               /\ LoweredPage(d).name = "_page.svelte" /\ LoweredPage(d).pkg = <<"csrf-fallback", d>>
               /\ emitChainWrapper(d).name = "wrapper.svelte" /\ emitChainWrapper(d).pkg = <<"chain", d>>
    BY DEF ClientEntry, LoweredPage, emitChainWrapper, File
  <2>2. emitClientRouter.name = "router.ts"
    BY DEF emitClientRouter, File
  <2>3. \A a, b, x, y : <<a, x>> = <<b, y>> => x = y
    OBVIOUS
  <2> QED BY <1>6, <2>1, <2>2, <2>3 DEF InClient
<1> QED
  BY <1>1, <1>2, <1>3, <1>4, <1>5, <1>6

LEMMA OnePerPath ==
  ASSUME NEW f \in WholeOutput, NEW g \in WholeOutput, f.pkg = g.pkg, f.name = g.name
  PROVE  f = g
  BY Catalogue, SamePackage, OnePerName

LEMMA NoTypesInOutput ==
  ASSUME NEW f \in WholeOutput
  PROVE  f.pkg[1] # "dts"
<1>1. Listed(f)
  BY Catalogue
<1> QED
  BY <1>1, UserSrcFile, LayoutSrcFile, ErrorSrcFile, GenFile, ManifestFile, ClientFile
     DEF Listed, UserSrc, LayoutSrc, ErrorSrc, Gen, ManifestPackage


-----------------------------------------------------------------------------
(* The phases of a build. *)

(* What is generated depends on the project and the command alone. *)
LEMMA SameProjectSameFiles ==
  ASSUME project' = project, command' = command
  PROVE  /\ \A ds : RouteFiles(ds)' = RouteFiles(ds)
         /\ ScannedRoutes' = ScannedRoutes
         /\ planSSR' = planSSR /\ planSSRLayouts' = planSSRLayouts /\ planSSRErrors' = planSSRErrors
         /\ PageFiles' = PageFiles
         /\ LayoutFiles' = LayoutFiles
         /\ ErrorFiles' = ErrorFiles
         /\ GenerateManifest' = GenerateManifest
         /\ ProjectFiles' = ProjectFiles
         /\ ClientFiles' = ClientFiles
<1>1. \A d : /\ Route(d)' = Route(d) /\ HasPage(d)' = HasPage(d) /\ HasServer(d)' = HasServer(d)
             /\ HasPageServer(d)' = HasPageServer(d) /\ LayoutServer(d)' = LayoutServer(d)
             /\ SSRFallback(d)' = SSRFallback(d) /\ Shaped(d)' = Shaped(d)
  BY DEF Route, HasPage, HasServer, HasPageServer, LayoutServer, SSRFallback, Shaped
<1>2. \A d : LayoutChain(d)' = LayoutChain(d) /\ ErrorBoundary(d)' = ErrorBoundary(d)
  BY DEF LayoutChain, ErrorBoundary
<1>3. ScannedRoutes' = ScannedRoutes
  BY <1>1 DEF ScannedRoutes
<1>4. Pages' = Pages
  BY <1>1, <1>3 DEF Pages
<1>5. \A d : LayoutOptions(d)' = LayoutOptions(d)
  BY <1>1 DEF LayoutOptions
<1>6. \A d : resolvePageOptions(d)' = resolvePageOptions(d)
  BY <1>1, <1>2, <1>5 DEF resolvePageOptions
<1>7. \A d : /\ routeCSRFEnabled(d)' = routeCSRFEnabled(d)
             /\ Prerendered(d)' = Prerendered(d)
             /\ routeEligibleForSSRChain(d)' = routeEligibleForSSRChain(d)
  BY <1>1, <1>6 DEF routeCSRFEnabled, Prerendered, routeEligibleForSSRChain
<1>8. planSSR' = planSSR /\ planFallback' = planFallback
  BY <1>1, <1>4, <1>7 DEF planSSR, planFallback
<1>9. planSSRLayouts' = planSSRLayouts /\ planSSRErrors' = planSSRErrors
  BY <1>2, <1>4, <1>7 DEF planSSRLayouts, planSSRErrors
<1>10. layoutImports' = layoutImports /\ errorImports' = errorImports
  BY <1>2, <1>3 DEF layoutImports, errorImports
<1>11. Entries' = Entries /\ routeImports' = routeImports
  BY <1>1, <1>3, <1>8 DEF Entries, routeImports
<1>12. \A d : /\ Lowered(d)' = Lowered(d)
              /\ PageModule(d)' = PageModule(d)
              /\ Wrapper(d)' = Wrapper(d)
  BY <1>1, <1>2, <1>7 DEF Lowered, PageModule, Wrapper
<1>13. \A d : emitClientEntry(d)' = emitClientEntry(d)
  BY <1>12 DEF emitClientEntry, emitCSRFFallbackLowering, ClientEntry
<1>14. \A d : emitMirrorAndWire(d)' = emitMirrorAndWire(d) /\ emitLayoutMirrorAndWire(d)' = emitLayoutMirrorAndWire(d)
  BY DEF emitMirrorAndWire, emitLayoutMirrorAndWire, PageMirror, emitWire, LayoutMirror
<1>15. \A d : EmittedFor(d)' = EmittedFor(d)
  BY <1>1, <1>2, <1>13, <1>14 DEF EmittedFor
<1>16. \A ds : RouteFiles(ds)' = RouteFiles(ds)
  BY <1>15 DEF RouteFiles
<1>17. PageFiles' = PageFiles
  BY <1>1, <1>8 DEF PageFiles, RenderedPage
<1>18. LayoutFiles' = LayoutFiles
  BY <1>1, <1>9 DEF LayoutFiles, RenderedLayout
<1>19. ErrorFiles' = ErrorFiles
  BY <1>9 DEF ErrorFiles
<1>20. \A d : /\ emitRouteEntry(d)' = emitRouteEntry(d)
              /\ emitRouteRenderChain(d)' = emitRouteRenderChain(d)
              /\ emitFallbackAdapter(d)' = emitFallbackAdapter(d)
              /\ emitLayoutAdapter(d)' = emitLayoutAdapter(d)
  BY <1>1, <1>2, <1>7 DEF emitRouteEntry, emitRouteRenderChain, emitFallbackAdapter, emitLayoutAdapter
<1>21. manifestLibs' = manifestLibs
  BY <1>7, <1>8, <1>10, <1>11 DEF manifestLibs, HasAdapters
<1>22. manifestUses' = manifestUses
  BY <1>8, <1>10, <1>11, <1>20 DEF manifestUses
<1>23. GenerateManifest' = GenerateManifest
  BY <1>10, <1>11, <1>21, <1>22 DEF GenerateManifest
<1>24. ProjectFiles' = ProjectFiles
  BY <1>4 DEF ProjectFiles
<1>25. emitClientRouter' = emitClientRouter
  BY <1>4, <1>12 DEF emitClientRouter
<1>26. ClientFiles' = ClientFiles
  BY <1>2, <1>4, <1>25 DEF ClientFiles
<1> QED
  BY <1>3, <1>8, <1>9, <1>16, <1>17, <1>18, <1>19, <1>23, <1>24, <1>26


(* The output of a phase is part of the whole. *)
LEMMA OutputInWhole == Output \subseteq WholeOutput
<1>1. RouteFiles(ScannedRoutes \ todo) \subseteq RouteFiles(ScannedRoutes)
  BY DEF RouteFiles
<1> QED
  BY <1>1 DEF Output, WholeOutput

(* A write adds its files and replaces none: no two have one path. *)
LEMMA WriteAdds ==
  ASSUME NEW fs \in SUBSET WholeOutput, Written \subseteq WholeOutput, TypesOnly, genFiles' = WriteFile(fs)
  PROVE  Written' = Written \cup fs /\ TypesOnly'
<1>1. \A f \in Written : \A g \in fs : <<f.pkg, f.name>> = <<g.pkg, g.name>> => f = g
  BY OnePerPath
<1>2. \A g \in fs : g.pkg[1] # "dts"
  BY NoTypesInOutput
<1>3. \A f : f \in genFiles' <=> f \in fs \/ (f \in genFiles /\ \A g \in fs : <<f.pkg, f.name>> # <<g.pkg, g.name>>)
  BY DEF WriteFile
<1>4. \A f : f \in Written' <=> f \in genFiles' /\ f.pkg[1] # "dts"
  BY DEF Written
<1>5. \A f : f \in Written <=> f \in genFiles /\ f.pkg[1] # "dts"
  BY DEF Written
<1>6. Written' = Written \cup fs
  BY <1>1, <1>2, <1>3, <1>4, <1>5
<1>7. TypesOnly'
  BY <1>2, <1>3 DEF TypesOnly
<1> QED
  BY <1>6, <1>7

LEMMA TypegenAdds ==
  ASSUME TypesOnly, genFiles' = WriteFile(UNION {EmitForRoute(d) : d \in ScannedRoutes})
  PROVE  Written' = Written /\ TypesOnly'
<1> DEFINE fs == UNION {EmitForRoute(d) : d \in ScannedRoutes}
<1>1. \A d : \A f \in EmitForRoute(d) : \E e : f = PageTypes(e) \/ f = LayoutTypes(e)
  BY DEF EmitForRoute
<1>2. \A f \in fs : \E e : f = PageTypes(e) \/ f = LayoutTypes(e)
  BY <1>1
<1>3. \A e : PageTypes(e).pkg = <<"dts", e>> /\ LayoutTypes(e).pkg = <<"dts", e>>
  BY DEF PageTypes, LayoutTypes, File
<1>4. \A f : f \in genFiles' <=> f \in fs \/ (f \in genFiles /\ \A g \in fs : <<f.pkg, f.name>> # <<g.pkg, g.name>>)
  BY DEF WriteFile
<1> HIDE DEF fs
<1>5. \A g \in fs : g.pkg[1] = "dts" /\ g \in {PageTypes(g.pkg[2]), LayoutTypes(g.pkg[2])}
  BY <1>2, <1>3
<1>6. \A f : f.pkg[1] # "dts" => (f \in genFiles' <=> f \in genFiles)
  BY <1>4, <1>5
<1>7. Written' = Written
  BY <1>6 DEF Written
<1>8. TypesOnly'
  BY <1>4, <1>5 DEF TypesOnly
<1> QED
  BY <1>7, <1>8

(* A step of a command writes what its phase adds. *)
LEMMA WriteStep ==
  ASSUME CodegenInv, project' = project, command' = command,
         NEW fs \in SUBSET WholeOutput, genFiles' = WriteFile(fs),
         phase \in Early \cup Late \cup {"layouts", "errors"},
         Output' = Output \cup fs
  PROVE  ProjectOK' /\ TypesOnly' /\ Written' = Output'
<1>1. Written = Output
  BY DEF CodegenInv, WrittenInPhase
<1>2. Written' = Written \cup fs /\ TypesOnly'
  BY <1>1, OutputInWhole, WriteAdds DEF CodegenInv
<1>3. ProjectOK'
  BY DEF CodegenInv, ProjectOK
<1> QED
  BY <1>1, <1>2, <1>3

LEMMA CodegenStart == CodegenInit => CodegenInv
  BY ProjectsAssumption DEF CodegenInit, CodegenInv, ProjectOK, TypesOnly, WrittenInPhase, Early, Late

LEMMA CodegenStep == CodegenInv /\ [CodegenNext]_codegenVars => CodegenInv'
<1> SUFFICES ASSUME CodegenInv, [CodegenNext]_codegenVars PROVE CodegenInv'
  OBVIOUS
<1> USE DEF Early, Late
<1>0. ASSUME UNCHANGED <<project, command, genFiles>> PROVE ProjectOK' /\ TypesOnly' /\ Written' = Written
  BY <1>0 DEF CodegenInv, ProjectOK, TypesOnly, Written
<1>s. ASSUME project' = project, command' = command
      PROVE  /\ \A ds : RouteFiles(ds)' = RouteFiles(ds)
             /\ ScannedRoutes' = ScannedRoutes
             /\ planSSR' = planSSR /\ planSSRLayouts' = planSSRLayouts /\ planSSRErrors' = planSSRErrors
             /\ PageFiles' = PageFiles /\ LayoutFiles' = LayoutFiles /\ ErrorFiles' = ErrorFiles
             /\ GenerateManifest' = GenerateManifest /\ ProjectFiles' = ProjectFiles /\ ClientFiles' = ClientFiles
  BY <1>s, SameProjectSameFiles
<1>r. ASSUME project' = project, command' = command, todo' = todo
      PROVE  RouteFiles(ScannedRoutes \ todo)' = RouteFiles(ScannedRoutes \ todo)
  BY <1>r, <1>s DEF RouteFiles
<1>1. ASSUME NEW d \in Dirs, NEW to \in Revisions[d], Revise(d, to) PROVE CodegenInv'
  <2>1. ProjectOK'
    BY <1>1, ProjectsAssumption DEF Revise, CodegenInv, ProjectOK
  <2>2. TypesOnly'
    BY <1>1 DEF Revise, CodegenInv, TypesOnly
  <2>3. WrittenInPhase'
    BY <1>1 DEF Revise, WrittenInPhase
  <2> QED BY <2>1, <2>2, <2>3 DEF CodegenInv
<1>2. ASSUME NEW c \in {"build", "prerender"}, Invoke(c) PROVE CodegenInv'
  BY <1>2 DEF Invoke, CodegenInv, ProjectOK, TypesOnly, WrittenInPhase
<1>3. CASE Clean
  <2>1. ProjectOK' /\ TypesOnly'
    BY <1>3 DEF Clean, CodegenInv, ProjectOK, TypesOnly
  <2>2. Written' = {}
    BY <1>3 DEF Clean, Written
  <2>3. todo' = ScannedRoutes' /\ phase' = "routes"
    BY <1>3, <1>s DEF Clean
  <2>4. Output' = {}
    BY <2>3 DEF Output, RouteFiles
  <2> QED BY <2>1, <2>2, <2>3, <2>4 DEF CodegenInv, WrittenInPhase
<1>4. CASE EmitRoute
  <2>1. PICK d \in todo : genFiles' = WriteFile(EmittedFor(d)) /\ todo' = todo \ {d}
    BY <1>4 DEF EmitRoute
  <2>2. /\ todo \subseteq ScannedRoutes /\ phase = "routes" /\ phase' = "routes"
        /\ project' = project /\ command' = command
    BY <1>4 DEF EmitRoute, CodegenInv, WrittenInPhase
  <2>3. EmittedFor(d) \subseteq WholeOutput
    BY <2>1, <2>2 DEF WholeOutput, RouteFiles
  <2>4. RouteFiles(ScannedRoutes \ todo)' = RouteFiles(ScannedRoutes \ todo')
    BY <2>2, <1>s DEF RouteFiles
  <2>5. RouteFiles(ScannedRoutes \ todo') = RouteFiles(ScannedRoutes \ todo) \cup EmittedFor(d)
    BY <2>1, <2>2 DEF RouteFiles
  <2>6. Output' = Output \cup EmittedFor(d)
    BY <2>2, <2>4, <2>5 DEF Output
  <2>7. todo' \subseteq ScannedRoutes'
    BY <2>1, <2>2, <1>s
  <2> QED BY <2>1, <2>2, <2>3, <2>6, <2>7, WriteStep DEF CodegenInv, WrittenInPhase
<1>5. CASE RoutesEmitted
  BY <1>5, <1>0, <1>r, <1>s DEF RoutesEmitted, CodegenInv, WrittenInPhase, Output
<1>6. CASE runTypegen
  <2>1. Written' = Written /\ TypesOnly' /\ ProjectOK'
    BY <1>6, TypegenAdds DEF runTypegen, CodegenInv, ProjectOK
  <2>2. project' = project /\ command' = command /\ todo' = todo /\ phase = "typegen" /\ todo = {}
    BY <1>6 DEF runTypegen, CodegenInv, WrittenInPhase
  <2>3. CASE planSSR \cup planSSRLayouts \cup planSSRErrors = {}
    <3>1. PageFiles = {} /\ LayoutFiles = {} /\ ErrorFiles = {}
      BY <2>3 DEF PageFiles, LayoutFiles, ErrorFiles
    <3>2. phase' = "manifest"
      BY <2>3, <1>6 DEF runTypegen
    <3> QED BY <2>1, <2>2, <3>1, <3>2, <1>r, <1>s DEF CodegenInv, WrittenInPhase, Output
  <2>4. CASE planSSR \cup planSSRLayouts \cup planSSRErrors # {}
    <3>2. phase' = "pages"
      BY <2>4, <1>6 DEF runTypegen
    <3> QED BY <2>1, <2>2, <3>2, <1>r, <1>s DEF CodegenInv, WrittenInPhase, Output
  <2> QED BY <2>3, <2>4
<1>7. CASE TranspilePages
  <2>1. /\ genFiles' = WriteFile(PageFiles) /\ project' = project /\ command' = command /\ todo' = todo
        /\ phase = "pages" /\ todo = {}
    BY <1>7 DEF TranspilePages, CodegenInv, WrittenInPhase, PageFiles
  <2>2. PageFiles \subseteq WholeOutput
    BY DEF WholeOutput
  <2>3. phase' = IF planSSRLayouts = {} THEN "manifest" ELSE "layouts"
    BY <1>7 DEF TranspilePages
  <2>4. planSSRLayouts = {} => LayoutFiles = {} /\ ErrorFiles = {}
    BY DEF LayoutFiles, ErrorFiles
  <2>5. Output' = Output \cup PageFiles
    BY <2>1, <2>3, <2>4, <1>r, <1>s DEF Output
  <2> QED BY <2>1, <2>2, <2>3, <2>5, <1>s, WriteStep DEF CodegenInv, WrittenInPhase
<1>8. CASE TranspileLayouts
  <2>1. /\ genFiles' = WriteFile(LayoutFiles) /\ project' = project /\ command' = command /\ todo' = todo
        /\ phase = "layouts" /\ todo = {} /\ planSSRLayouts # {}
    BY <1>8 DEF TranspileLayouts, CodegenInv, WrittenInPhase, LayoutFiles
  <2>2. LayoutFiles \subseteq WholeOutput
    BY DEF WholeOutput
  <2>3. phase' = IF planSSRErrors = {} THEN "manifest" ELSE "errors"
    BY <1>8 DEF TranspileLayouts
  <2>4. planSSRErrors = {} => ErrorFiles = {}
    BY DEF ErrorFiles
  <2>5. Output' = Output \cup LayoutFiles
    BY <2>1, <2>3, <2>4, <1>r, <1>s DEF Output
  <2> QED BY <2>1, <2>2, <2>3, <2>5, <1>s, WriteStep DEF CodegenInv, WrittenInPhase
<1>9. CASE TranspileErrors
  <2>1. /\ project' = project /\ command' = command /\ todo' = todo
        /\ phase = "errors" /\ phase' = "manifest" /\ todo = {} /\ planSSRLayouts # {}
    BY <1>9 DEF TranspileErrors, CodegenInv, WrittenInPhase
  <2>2. genFiles' = WriteFile(ErrorFiles)
    BY <1>9, <2>1 DEF TranspileErrors, ErrorFiles
  <2>3. ErrorFiles \subseteq WholeOutput
    BY DEF WholeOutput
  <2>4. Output' = Output \cup ErrorFiles
    BY <2>1, <1>r, <1>s DEF Output
  <2> QED BY <2>1, <2>2, <2>3, <2>4, <1>s, WriteStep DEF CodegenInv, WrittenInPhase
<1>10. CASE WriteManifest
  <2>1. /\ genFiles' = WriteFile({GenerateManifest}) /\ project' = project /\ command' = command /\ todo' = todo
        /\ phase = "manifest" /\ phase' = "project" /\ todo = {}
    BY <1>10 DEF WriteManifest, CodegenInv, WrittenInPhase
  <2>2. {GenerateManifest} \subseteq WholeOutput
    BY DEF WholeOutput
  <2>3. Output' = Output \cup {GenerateManifest}
    BY <2>1, <1>r, <1>s DEF Output
  <2> QED BY <2>1, <2>2, <2>3, WriteStep DEF CodegenInv, WrittenInPhase
<1>11. CASE WriteProjectFiles
  <2>1. /\ genFiles' = WriteFile(ProjectFiles) /\ project' = project /\ command' = command /\ todo' = todo
        /\ phase = "project" /\ phase' = "client" /\ todo = {}
    BY <1>11 DEF WriteProjectFiles, CodegenInv, WrittenInPhase
  <2>2. ProjectFiles \subseteq WholeOutput
    BY DEF WholeOutput
  <2>3. Output' = Output \cup ProjectFiles
    BY <2>1, <1>r, <1>s DEF Output
  <2> QED BY <2>1, <2>2, <2>3, WriteStep DEF CodegenInv, WrittenInPhase
<1>12. CASE WriteClient
  <2>1. /\ genFiles' = WriteFile(ClientFiles) /\ project' = project /\ command' = command /\ todo' = todo
        /\ phase = "client" /\ phase' = "compile" /\ todo = {}
    BY <1>12 DEF WriteClient, CodegenInv, WrittenInPhase
  <2>2. ClientFiles \subseteq WholeOutput
    BY DEF WholeOutput
  <2>3. Output' = Output \cup ClientFiles
    BY <2>1, <1>r, <1>s DEF Output
  <2> QED BY <2>1, <2>2, <2>3, WriteStep DEF CodegenInv, WrittenInPhase
<1>13. CASE Compile
  BY <1>13, <1>0 DEF Compile, CodegenInv, WrittenInPhase
<1>14. CASE Reject \/ EmitFails \/ SidecarFails
  BY <1>14, <1>0 DEF Reject, EmitFails, SidecarFails, Abort, CodegenInv, WrittenInPhase
<1>15. CASE UNCHANGED codegenVars
  BY <1>15, <1>0, <1>r, <1>s DEF codegenVars, CodegenInv, WrittenInPhase, Output
<1> QED
  BY <1>1, <1>2, <1>3, <1>4, <1>5, <1>6, <1>7, <1>8, <1>9, <1>10, <1>11, <1>12, <1>13, <1>14, <1>15 DEF CodegenNext


-----------------------------------------------------------------------------
(* What the compilers find in it. *)

DeclaredIn(pkg, n) == \E f \in WholeOutput : f.pkg = pkg /\ n \in f.declares

(* A file of a package is of the package's kinds. *)
LEMMA InPackage ==
  ASSUME NEW f \in WholeOutput, NEW d
  PROVE  /\ f.pkg = UserSrc(d) => InUserSrc(f, d)
         /\ f.pkg = LayoutSrc(d) => InLayoutSrc(f, d)
         /\ f.pkg = ErrorSrc(d) => InErrorSrc(f, d)
         /\ f.pkg = Gen(d) => InGen(f, d)
<1>1. Listed(f)
  BY Catalogue
<1>2. \/ \E e : InUserSrc(f, e) /\ f.pkg = UserSrc(e)
      \/ \E e : InLayoutSrc(f, e) /\ f.pkg = LayoutSrc(e)
      \/ \E e : InErrorSrc(f, e) /\ f.pkg = ErrorSrc(e)
      \/ \E e : InGen(f, e) /\ f.pkg = Gen(e)
      \/ f.pkg[1] \in {"gen", "client", "router", "csrf-fallback", "chain"}
  BY <1>1, UserSrcFile, LayoutSrcFile, ErrorSrcFile, GenFile, ManifestFile, ClientFile DEF Listed, ManifestPackage
<1> QED
  BY <1>2 DEF UserSrc, LayoutSrc, ErrorSrc, Gen

LEMMA OfPackage ==
  ASSUME NEW f, NEW d
  PROVE  /\ InUserSrc(f, d) => f \in WholeOutput /\ f.pkg = UserSrc(d)
         /\ InLayoutSrc(f, d) => f \in WholeOutput /\ f.pkg = LayoutSrc(d)
         /\ InErrorSrc(f, d) => f \in WholeOutput /\ f.pkg = ErrorSrc(d)
         /\ InGen(f, d) => f \in WholeOutput /\ f.pkg = Gen(d)
  BY Catalogue, UserSrcFile, LayoutSrcFile, ErrorSrcFile, GenFile DEF Listed

LEMMA DeclaredInUserSrc ==
  ASSUME NEW d, NEW n
  PROVE  DeclaredIn(UserSrc(d), n) <=>
           \/ d \in ScannedRoutes /\ HasServer(d) /\ n = "GET"
           \/ d \in ScannedRoutes /\ HasPageServer(d) /\ n \in Declares[project[d].source]
           \/ d \in planSSR /\ n \in {"Render", "companion"}
           \/ d \in planSSR /\ ~Shaped(d) /\ n = "Data"
<1>1. DeclaredIn(UserSrc(d), n) <=> \E f : InUserSrc(f, d) /\ n \in f.declares
  BY InPackage, OfPackage DEF DeclaredIn
<1>2. /\ RESTMirror(d).declares = {"GET"}
      /\ PageMirror(d).declares = Declares[project[d].source]
      /\ PageBody(d).declares = {"Render"}
      /\ Companion(UserSrc(d)).declares = {"companion"}
      /\ emitSyntheticPageData(d).declares = {"Data"}
  BY DEF RESTMirror, PageMirror, mirrorUserSource, PageBody, Body, Companion, emitSyntheticPageData, File
<1> QED
  BY <1>1, <1>2 DEF InUserSrc

LEMMA DeclaredInLayoutSrc ==
  ASSUME NEW l, NEW n
  PROVE  DeclaredIn(LayoutSrc(l), n) <=>
           \/ l \in layoutImports /\ LayoutServer(l) /\ n \in Declares[project[l].layout]
           \/ l \in planSSRLayouts /\ n \in {"Render", "companion"}
           \/ l \in planSSRLayouts /\ ~LayoutServer(l) /\ n = "Data"
<1>1. DeclaredIn(LayoutSrc(l), n) <=> \E f : InLayoutSrc(f, l) /\ n \in f.declares
  BY InPackage, OfPackage DEF DeclaredIn
<1>2. /\ LayoutMirror(l).declares = Declares[project[l].layout]
      /\ LayoutBody(l).declares = {"Render"}
      /\ Companion(LayoutSrc(l)).declares = {"companion"}
      /\ emitSyntheticLayoutData(l).declares = {"Data"}
  BY DEF LayoutMirror, mirrorUserSource, LayoutBody, Body, Companion, emitSyntheticLayoutData, File
<1> QED
  BY <1>1, <1>2 DEF InLayoutSrc

LEMMA DeclaredInErrorSrc ==
  ASSUME NEW e, NEW n
  PROVE  DeclaredIn(ErrorSrc(e), n) <=> e \in Boundaries /\ n \in {"Render", "companion", "Data"}
<1>1. DeclaredIn(ErrorSrc(e), n) <=> \E f : InErrorSrc(f, e) /\ n \in f.declares
  BY InPackage, OfPackage DEF DeclaredIn
<1>2. /\ ErrorBody(e).declares = {"Render"}
      /\ Companion(ErrorSrc(e)).declares = {"companion"}
      /\ emitSyntheticErrorData(e).declares = {"Data"}
  BY DEF ErrorBody, Body, Companion, emitSyntheticErrorData, File
<1> QED
  BY <1>1, <1>2 DEF InErrorSrc

LEMMA DeclaredInGen ==
  ASSUME NEW d, NEW n
  PROVE  DeclaredIn(Gen(d), n) <=>
           \/ d \in ScannedRoutes /\ HasServer(d) /\ n = "Handlers"
           \/ d \in ScannedRoutes /\ HasPageServer(d) /\ n \in {"Load", "Actions"}
           \/ d \in layoutImports /\ LayoutServer(d) /\ n = "LayoutLoad"
           \/ d \in planSSR /\ n = "RenderSSR"
           \/ d \in planSSRLayouts /\ n = "RenderLayoutSSR"
           \/ d \in Boundaries /\ n = "RenderErrorSSR"
<1>1. DeclaredIn(Gen(d), n) <=> \E f : InGen(f, d) /\ n \in f.declares
  BY InPackage, OfPackage DEF DeclaredIn
<1>2. /\ RESTWire(d).declares = {"Handlers"}
      /\ emitWire(d).declares = {"Load", "Actions"}
      /\ LayoutWire(d).declares = {"LayoutLoad"}
      /\ emitSSRWire(d).declares = {"RenderSSR"}
      /\ emitSSRLayoutWire(d).declares = {"RenderLayoutSSR"}
      /\ emitSSRErrorWire(d).declares = {"RenderErrorSSR"}
  BY DEF RESTWire, emitWire, LayoutWire, emitSSRWire, emitSSRLayoutWire, emitSSRErrorWire, File
<1> QED
  BY <1>1, <1>2 DEF InGen

(* Of the client modules only what is there matters. *)
LEMMA DeclaredInClient ==
  ASSUME command # "prerender"
  PROVE  /\ \A d \in Pages : Lowered(d) => DeclaredIn(<<"csrf-fallback", d>>, "Page")
         /\ \A d \in Pages : LayoutChain(d) # {} => DeclaredIn(<<"chain", LayoutChain(d)>>, "Wrapper")
         /\ Pages # {} => DeclaredIn(ClientRouterModule, "startRouter") /\ DeclaredIn(ClientRouterModule, "wrapperState")
<1>1. \A d : /\ LoweredPage(d).pkg = <<"csrf-fallback", d>> /\ LoweredPage(d).declares = {"Page"}
             /\ emitChainWrapper(d).pkg = <<"chain", d>> /\ emitChainWrapper(d).declares = {"Wrapper"}
  BY DEF LoweredPage, emitChainWrapper, File
<1>2. emitClientRouter.pkg = ClientRouterModule /\ emitClientRouter.declares = {"startRouter", "wrapperState"}
  BY DEF emitClientRouter, File
<1>3. \A f : InClient(f) => f \in WholeOutput
  BY Catalogue DEF Listed
<1>4. ASSUME NEW d \in Pages, Lowered(d) PROVE DeclaredIn(<<"csrf-fallback", d>>, "Page")
  <2>1. LoweredPage(d) \in WholeOutput
    BY <1>3, <1>4 DEF InClient
  <2> QED BY <1>1, <2>1 DEF DeclaredIn
<1>5. ASSUME NEW d \in Pages, LayoutChain(d) # {} PROVE DeclaredIn(<<"chain", LayoutChain(d)>>, "Wrapper")
  <2>1. emitChainWrapper(LayoutChain(d)) \in WholeOutput
    BY <1>3, <1>5 DEF InClient
  <2> QED BY <1>1, <2>1 DEF DeclaredIn
<1>6. ASSUME Pages # {} PROVE DeclaredIn(ClientRouterModule, "startRouter") /\ DeclaredIn(ClientRouterModule, "wrapperState")
  <2>1. emitClientRouter \in WholeOutput
    BY <1>3, <1>6 DEF InClient
  <2> QED BY <1>2, <2>1 DEF DeclaredIn
<1> QED
  BY <1>4, <1>5, <1>6


Imported(uses) == {use[1] : use \in uses}

LEMMA LibImports ==
  ASSUME NEW names
  PROVE  Imported(OfLib(names)) = Libs(names)
<1>1. \A n : <<Lib(n), n>>[1] = Lib(n)
  OBVIOUS
<1>2. \A u : u \in OfLib(names) <=> \E n \in names : u = <<Lib(n), n>>
  BY DEF OfLib
<1>3. \A p : p \in Imported(OfLib(names)) <=> \E u \in OfLib(names) : p = u[1]
  BY DEF Imported
<1>4. \A p : p \in Libs(names) <=> \E n \in names : p = Lib(n)
  BY DEF Libs
<1>5. ASSUME NEW n \in names PROVE Lib(n) \in Imported(OfLib(names))
  <2>1. <<Lib(n), n>> \in OfLib(names)
    BY <1>2
  <2> QED BY <1>1, <1>3, <2>1
<1>6. ASSUME NEW u \in OfLib(names) PROVE u[1] \in Libs(names)
  BY <1>1, <1>2, <1>4
<1> QED
  BY <1>3, <1>4, <1>5, <1>6

LEMMA ImportedCup ==
  ASSUME NEW s, NEW t
  PROVE  Imported(s \cup t) = Imported(s) \cup Imported(t)
  BY DEF Imported

(* No package of the project is a library. *)
LEMMA NotLib ==
  ASSUME NEW names, NEW d
  PROVE  /\ Gen(d) \notin Libs(names) /\ UserSrc(d) \notin Libs(names) /\ LayoutSrc(d) \notin Libs(names)
         /\ ErrorSrc(d) \notin Libs(names) /\ ManifestPackage \notin Libs(names)
  BY DEF Gen, UserSrc, LayoutSrc, ErrorSrc, ManifestPackage, Libs, Lib

LEMMA PagesAreEntries == planSSR \subseteq Entries /\ planFallback \subseteq Entries /\ Pages \subseteq Entries
  BY DEF planSSR, planFallback, Pages, Entries

(* The manifest's uses, kind by kind. *)
LEMMA ManifestUse ==
  ASSUME NEW u
  PROVE  u \in manifestUses <=>
           \/ u \in OfLib({"router"})
           \/ \E d \in Entries : u \in emitRouteEntry(d) \/ u \in emitRouteRenderChain(d)
           \/ \E d \in planSSR : u \in emitSvelteRenderAdapter(d)
           \/ \E d \in planFallback : u \in emitFallbackAdapter(d)
           \/ \E l \in layoutImports : u \in emitLayoutAdapter(l)
           \/ \E e \in errorImports : u \in emitSSRErrorAdapter(e)
<1> DEFINE A == {emitRouteEntry(d) \cup emitRouteRenderChain(d) : d \in Entries}
           B == {emitSvelteRenderAdapter(d) : d \in planSSR}
           C == {emitFallbackAdapter(d) : d \in planFallback}
           D == {emitLayoutAdapter(l) : l \in layoutImports}
           E == {emitSSRErrorAdapter(e) : e \in errorImports}
<1>1. u \in UNION A <=> \E d \in Entries : u \in emitRouteEntry(d) \/ u \in emitRouteRenderChain(d)
  OBVIOUS
<1>2. u \in UNION B <=> \E d \in planSSR : u \in emitSvelteRenderAdapter(d)
  OBVIOUS
<1>3. u \in UNION C <=> \E d \in planFallback : u \in emitFallbackAdapter(d)
  OBVIOUS
<1>4. u \in UNION D <=> \E l \in layoutImports : u \in emitLayoutAdapter(l)
  OBVIOUS
<1>5. u \in UNION E <=> \E e \in errorImports : u \in emitSSRErrorAdapter(e)
  OBVIOUS
<1>6. manifestUses = OfLib({"router"}) \cup UNION (A \cup B \cup C \cup D \cup E)
  BY DEF manifestUses
<1> HIDE DEF A, B, C, D, E
<1> QED
  BY <1>1, <1>2, <1>3, <1>4, <1>5, <1>6

(* Its uses of the project's packages. *)
LEMMA ManifestNames ==
  ASSUME NEW u \in manifestUses
  PROVE  \/ \E n \in manifestLibs : u = <<Lib(n), n>>
         \/ \E d \in ScannedRoutes : HasServer(d) /\ u = <<Gen(d), "Handlers">>
         \/ \E d \in ScannedRoutes : HasPageServer(d) /\ u \in {<<Gen(d), "Load">>, <<Gen(d), "Actions">>}
         \/ \E d \in planSSR : u = <<Gen(d), "RenderSSR">>
         \/ \E l \in layoutImports : u = <<Gen(l), "RenderLayoutSSR">>
         \/ \E l \in layoutImports : LayoutServer(l) /\ u = <<Gen(l), "LayoutLoad">>
         \/ \E e \in errorImports : u = <<Gen(e), "RenderErrorSSR">>
<1> DEFINE Named == \E n \in manifestLibs : u = <<Lib(n), n>>
<1>1. \A names : names \subseteq manifestLibs /\ u \in OfLib(names) => Named
  BY DEF OfLib
<1> HIDE DEF Named
<1>2. /\ "router" \in manifestLibs
      /\ Entries # {} => "kit" \in manifestLibs
      /\ planSSR \cup layoutImports \cup errorImports # {} => {"render", "kit", "server"} \subseteq manifestLibs
      /\ planFallback # {} => {"render", "kit", "fallback"} \subseteq manifestLibs
      /\ (\E d \in planFallback : routeCSRFEnabled(d)) => "csrfinject" \in manifestLibs
  BY DEF manifestLibs, HasAdapters
<1>3. CASE u \in OfLib({"router"})
  BY <1>1, <1>2, <1>3 DEF Named
<1>4. ASSUME NEW d \in Entries, u \in emitRouteEntry(d) \/ u \in emitRouteRenderChain(d)
      PROVE  \/ Named
             \/ HasServer(d) /\ u = <<Gen(d), "Handlers">>
             \/ HasPageServer(d) /\ u \in {<<Gen(d), "Load">>, <<Gen(d), "Actions">>}
  <2>1. d \in ScannedRoutes
    BY DEF Entries
  <2>2. HasPage(d) /\ LayoutChain(d) # {} => layoutImports # {}
    BY <2>1 DEF layoutImports
  <2>3. {"kit", "router"} \subseteq manifestLibs
    BY <1>2
  <2>4. u \in emitRouteRenderChain(d) => Named
    BY <1>1, <1>2, <2>2 DEF emitRouteRenderChain
  <2> QED BY <1>1, <1>4, <2>3, <2>4 DEF emitRouteEntry
<1>5. ASSUME NEW d \in planSSR, u \in emitSvelteRenderAdapter(d) PROVE Named \/ u = <<Gen(d), "RenderSSR">>
  BY <1>1, <1>2, <1>5 DEF emitSvelteRenderAdapter
<1>6. ASSUME NEW d \in planFallback, u \in emitFallbackAdapter(d) PROVE Named
  BY <1>1, <1>2, <1>6 DEF emitFallbackAdapter
<1>7. ASSUME NEW l \in layoutImports, u \in emitLayoutAdapter(l)
      PROVE  Named \/ u = <<Gen(l), "RenderLayoutSSR">> \/ (LayoutServer(l) /\ u = <<Gen(l), "LayoutLoad">>)
  BY <1>1, <1>2, <1>7 DEF emitLayoutAdapter
<1>8. ASSUME NEW e \in errorImports, u \in emitSSRErrorAdapter(e) PROVE Named \/ u = <<Gen(e), "RenderErrorSSR">>
  BY <1>1, <1>2, <1>8 DEF emitSSRErrorAdapter
<1>9. Entries \subseteq ScannedRoutes
  BY DEF Entries
<1> QED
  BY <1>3, <1>4, <1>5, <1>6, <1>7, <1>8, <1>9, ManifestUse DEF Named

(* Conversely, what it imports it uses. *)
LEMMA ManifestUsesLib ==
  ASSUME NEW n \in manifestLibs
  PROVE  <<Lib(n), n>> \in manifestUses
<1>1. \A names : n \in names => <<Lib(n), n>> \in OfLib(names)
  BY DEF OfLib
<1>2. \/ n = "router"
      \/ n = "kit" /\ (HasAdapters \/ Entries # {})
      \/ n = "render" /\ HasAdapters
      \/ n = "server" /\ planSSR \cup layoutImports \cup errorImports # {}
      \/ n = "fallback" /\ planFallback # {}
      \/ n = "csrfinject" /\ \E d \in planFallback : routeCSRFEnabled(d)
  BY DEF manifestLibs
<1>3. CASE n = "router"
  BY <1>1, <1>3, ManifestUse
<1>4. CASE n = "kit" /\ Entries # {}
  BY <1>1, <1>4, ManifestUse DEF emitRouteEntry
<1>5. CASE n \in {"render", "kit", "server"} /\ planSSR \cup layoutImports \cup errorImports # {}
  BY <1>1, <1>5, ManifestUse DEF emitSvelteRenderAdapter, emitLayoutAdapter, emitSSRErrorAdapter
<1>6. CASE n \in {"render", "kit", "fallback"} /\ planFallback # {}
  BY <1>1, <1>6, ManifestUse DEF emitFallbackAdapter
<1>7. CASE n = "csrfinject" /\ \E d \in planFallback : routeCSRFEnabled(d)
  BY <1>1, <1>7, ManifestUse DEF emitFallbackAdapter
<1> QED
  BY <1>2, <1>3, <1>4, <1>5, <1>6, <1>7 DEF HasAdapters

LEMMA ManifestUsesRoute ==
  ASSUME NEW d \in routeImports \cup layoutImports \cup errorImports
  PROVE  \E n : <<Gen(d), n>> \in manifestUses
<1>1. CASE d \in routeImports
  BY <1>1, ManifestUse DEF routeImports, emitRouteEntry, emitSvelteRenderAdapter
<1>2. CASE d \in layoutImports
  BY <1>2, ManifestUse DEF emitLayoutAdapter
<1>3. CASE d \in errorImports
  BY <1>3, ManifestUse DEF emitSSRErrorAdapter
<1> QED
  BY <1>1, <1>2, <1>3

LEMMA ManifestImports == GenerateManifest.imports = Imported(GenerateManifest.uses) \ {GenerateManifest.pkg}
<1>1. /\ GenerateManifest.imports =
             Libs(manifestLibs) \cup {Gen(d) : d \in routeImports \cup layoutImports \cup errorImports}
      /\ GenerateManifest.uses = manifestUses
      /\ GenerateManifest.pkg = ManifestPackage
  BY DEF GenerateManifest, File
<1>2. \A u \in manifestUses : \/ u[1] \in Libs(manifestLibs)
                              \/ \E d \in routeImports \cup layoutImports \cup errorImports : u[1] = Gen(d)
  <2>1. ScannedRoutes \cap {d \in ScannedRoutes : HasServer(d) \/ HasPageServer(d)} \subseteq routeImports
    BY DEF routeImports, Entries, HasPageServer
  <2>2. planSSR \subseteq routeImports
    BY PagesAreEntries DEF routeImports
  <2> QED BY <2>1, <2>2, ManifestNames DEF Libs
<1>3. \A n \in manifestLibs : Lib(n) \in Imported(manifestUses)
  <2>1. \A n : <<Lib(n), n>>[1] = Lib(n)
    OBVIOUS
  <2> QED BY <2>1, ManifestUsesLib DEF Imported
<1>4. \A d \in routeImports \cup layoutImports \cup errorImports : Gen(d) \in Imported(manifestUses)
  <2>1. \A d, n : <<Gen(d), n>>[1] = Gen(d)
    OBVIOUS
  <2> QED BY <2>1, ManifestUsesRoute DEF Imported
<1>5. Imported(manifestUses) =
        Libs(manifestLibs) \cup {Gen(d) : d \in routeImports \cup layoutImports \cup errorImports}
  BY <1>2, <1>3, <1>4 DEF Imported, Libs
<1>6. ManifestPackage \notin Imported(manifestUses)
  BY <1>5, NotLib DEF ManifestPackage, Gen
<1> QED
  BY <1>1, <1>5, <1>6


(* Every import is used, in every file. *)
Tidy(f) == f.imports = Imported(f.uses) \ {f.pkg}

LEMMA TidyFile ==
  ASSUME NEW pkg, NEW name, NEW declares, NEW uses, NEW imports, imports = Imported(uses) \ {pkg}
  PROVE  Tidy(File(pkg, name, declares, uses, imports))
  BY DEF Tidy, File

LEMMA TidyAlone ==
  ASSUME NEW pkg, NEW name, NEW declares
  PROVE  Tidy(File(pkg, name, declares, {}, {}))
<1>1. Imported({}) = {}
  BY DEF Imported
<1> QED
  BY <1>1, TidyFile

(* A wire uses libraries and names of one package. *)
LEMMA WireImports ==
  ASSUME NEW libs, NEW from, NEW named, named # {}, \A u \in named : u[1] = from
  PROVE  /\ Imported(OfLib(libs) \cup named) = Libs(libs) \cup {from}
         /\ Imported(named \cup OfLib(libs)) = {from} \cup Libs(libs)
<1>1. Imported(named) = {from}
  BY DEF Imported
<1>2. Imported(OfLib(libs)) = Libs(libs)
  BY LibImports
<1>3. Imported(OfLib(libs) \cup named) = Imported(OfLib(libs)) \cup Imported(named)
  BY ImportedCup
<1>4. Imported(named \cup OfLib(libs)) = Imported(named) \cup Imported(OfLib(libs))
  BY ImportedCup
<1> QED
  BY <1>1, <1>2, <1>3, <1>4

LEMMA TidyBody ==
  ASSUME NEW of, NEW name, of \notin Libs({"server"})
  PROVE  Tidy(Body(of, name))
<1> DEFINE named == {<<of, "Data">>}
           uses == named \cup OfLib({"server"})
<1>1. named # {} /\ \A u \in named : u[1] = of
  OBVIOUS
<1> HIDE DEF named
<1>2. Imported(uses) = {of} \cup Libs({"server"})
  BY <1>1, WireImports
<1>3. Body(of, name) = File(of, name, {"Render"}, uses, Libs({"server"}))
  BY DEF Body, named
<1> HIDE DEF uses
<1> QED
  BY <1>2, <1>3, TidyFile

LEMMA TidyInUserSrc == ASSUME NEW f, NEW d, InUserSrc(f, d) PROVE Tidy(f)
<1>1. Tidy(RESTMirror(d)) /\ Tidy(PageMirror(d)) /\ Tidy(Companion(UserSrc(d))) /\ Tidy(emitSyntheticPageData(d))
  BY TidyAlone DEF RESTMirror, PageMirror, mirrorUserSource, Companion, emitSyntheticPageData
<1>3. Tidy(PageBody(d))
  BY TidyBody, NotLib DEF PageBody
<1> QED
  BY <1>1, <1>3 DEF InUserSrc

LEMMA TidyInLayoutSrc == ASSUME NEW f, NEW l, InLayoutSrc(f, l) PROVE Tidy(f)
<1>1. Tidy(LayoutMirror(l)) /\ Tidy(Companion(LayoutSrc(l))) /\ Tidy(emitSyntheticLayoutData(l))
  BY TidyAlone DEF LayoutMirror, mirrorUserSource, Companion, emitSyntheticLayoutData
<1>3. Tidy(LayoutBody(l))
  BY TidyBody, NotLib DEF LayoutBody
<1> QED
  BY <1>1, <1>3 DEF InLayoutSrc

LEMMA TidyInErrorSrc == ASSUME NEW f, NEW e, InErrorSrc(f, e) PROVE Tidy(f)
<1>1. Tidy(Companion(ErrorSrc(e)))
  BY TidyAlone DEF Companion
<1>3. Tidy(ErrorBody(e))
  BY TidyBody, NotLib DEF ErrorBody
<1>4. Tidy(emitSyntheticErrorData(e))
  BY LibImports, NotLib, TidyFile DEF emitSyntheticErrorData
<1> QED
  BY <1>1, <1>3, <1>4 DEF InErrorSrc

LEMMA TidyInGen == ASSUME NEW f, NEW d, InGen(f, d) PROVE Tidy(f)
<1>0. Gen(d) # UserSrc(d) /\ Gen(d) # LayoutSrc(d) /\ Gen(d) # ErrorSrc(d)
  BY DEF Gen, UserSrc, LayoutSrc, ErrorSrc
<1>1. Tidy(RESTWire(d))
  <2> DEFINE named == {<<UserSrc(d), "GET">>}
             uses == OfLib({"kit", "http"}) \cup named
             imports == Libs({"kit", "http"}) \cup {UserSrc(d)}
  <2>1. named # {} /\ \A u \in named : u[1] = UserSrc(d)
    OBVIOUS
  <2>2. RESTWire(d) = File(Gen(d), "server.gen.go", {"Handlers"}, uses, imports)
    BY DEF RESTWire
  <2> HIDE DEF named
  <2>3. Imported(uses) = imports
    BY <2>1, WireImports
  <2>4. Gen(d) \notin imports
    BY <1>0, NotLib
  <2> HIDE DEF uses, imports
  <2> QED BY <2>2, <2>3, <2>4, TidyFile
<1>2. Tidy(emitWire(d))
  <2> DEFINE source == project[d].source
             wrapped == {s \in {"Load", "Actions"} : s \in Declares[source]}
             named == {<<UserSrc(d), s>> : s \in wrapped}
             uses == OfLib({"kit"}) \cup named
             imports == Libs({"kit"}) \cup (IF hasLoadFunc(source) \/ hasActionsVar(source) THEN {UserSrc(d)} ELSE {})
  <2>1. emitWire(d) = File(Gen(d), "wire.gen.go", {"Load", "Actions"}, uses, imports)
    BY DEF emitWire
  <2>2. wrapped # {} <=> hasLoadFunc(source) \/ hasActionsVar(source)
    BY DEF hasLoadFunc, hasActionsVar
  <2> HIDE DEF wrapped, source
  <2>3. (named # {} <=> wrapped # {}) /\ \A u \in named : u[1] = UserSrc(d)
    <3>1. named # {} <=> wrapped # {}
      OBVIOUS
    <3>2. \A s : <<UserSrc(d), s>>[1] = UserSrc(d)
      OBVIOUS
    <3> QED BY <3>1, <3>2
  <2> HIDE DEF named
  <2>4. CASE wrapped # {}
    <3>1. imports = Libs({"kit"}) \cup {UserSrc(d)}
      BY <2>2, <2>4
    <3>2. Imported(uses) = Libs({"kit"}) \cup {UserSrc(d)}
      BY <2>3, <2>4, WireImports
    <3>3. Gen(d) \notin imports
      BY <3>1, <1>0, NotLib
    <3> HIDE DEF uses, imports
    <3> QED BY <2>1, <3>1, <3>2, <3>3, TidyFile
  <2>5. CASE wrapped = {}
    <3>1. imports = Libs({"kit"})
      BY <2>2, <2>5
    <3>2. uses = OfLib({"kit"})
      BY <2>3, <2>5
    <3>3. Imported(uses) = imports
      BY <3>1, <3>2, LibImports
    <3>4. Gen(d) \notin imports
      BY <3>1, NotLib
    <3> HIDE DEF imports, uses
    <3> QED BY <2>1, <3>3, <3>4, TidyFile
  <2> QED BY <2>4, <2>5
<1>3. Tidy(LayoutWire(d))
  <2> DEFINE named == {<<LayoutSrc(d), "Load">>}
             uses == OfLib({"kit"}) \cup named
             imports == Libs({"kit"}) \cup {LayoutSrc(d)}
  <2>1. named # {} /\ \A u \in named : u[1] = LayoutSrc(d)
    OBVIOUS
  <2>2. LayoutWire(d) = File(Gen(d), "wire_layout.gen.go", {"LayoutLoad"}, uses, imports)
    BY DEF LayoutWire
  <2> HIDE DEF named
  <2>3. Imported(uses) = imports
    BY <2>1, WireImports
  <2>4. Gen(d) \notin imports
    BY <1>0, NotLib
  <2> HIDE DEF uses, imports
  <2> QED BY <2>2, <2>3, <2>4, TidyFile
<1>4. Tidy(emitSSRWire(d))
  <2> DEFINE named == {<<UserSrc(d), "Data">>, <<UserSrc(d), "Render">>}
             uses == named \cup OfLib({"fmt", "server"})
             imports == {UserSrc(d)} \cup Libs({"fmt", "server"})
  <2>1. named # {} /\ \A u \in named : u[1] = UserSrc(d)
    OBVIOUS
  <2>2. emitSSRWire(d) = File(Gen(d), "wire_render.gen.go", {"RenderSSR"}, uses, imports)
    BY DEF emitSSRWire
  <2> HIDE DEF named
  <2>3. Imported(uses) = imports
    BY <2>1, WireImports
  <2>4. Gen(d) \notin imports
    BY <1>0, NotLib
  <2> HIDE DEF uses, imports
  <2> QED BY <2>2, <2>3, <2>4, TidyFile
<1>5. Tidy(emitSSRLayoutWire(d))
  <2> DEFINE named == {<<LayoutSrc(d), "Data">>, <<LayoutSrc(d), "Render">>}
             uses == named \cup OfLib({"fmt", "server"})
             imports == {LayoutSrc(d)} \cup Libs({"fmt", "server"})
  <2>1. named # {} /\ \A u \in named : u[1] = LayoutSrc(d)
    OBVIOUS
  <2>2. emitSSRLayoutWire(d) = File(Gen(d), "wire_layout_render.gen.go", {"RenderLayoutSSR"}, uses, imports)
    BY DEF emitSSRLayoutWire
  <2> HIDE DEF named
  <2>3. Imported(uses) = imports
    BY <2>1, WireImports
  <2>4. Gen(d) \notin imports
    BY <1>0, NotLib
  <2> HIDE DEF uses, imports
  <2> QED BY <2>2, <2>3, <2>4, TidyFile
<1>6. Tidy(emitSSRErrorWire(d))
  <2> DEFINE named == {<<ErrorSrc(d), "Render">>}
             uses == named \cup OfLib({"kit", "server"})
             imports == {ErrorSrc(d)} \cup Libs({"kit", "server"})
  <2>1. named # {} /\ \A u \in named : u[1] = ErrorSrc(d)
    OBVIOUS
  <2>2. emitSSRErrorWire(d) = File(Gen(d), "wire_error_render.gen.go", {"RenderErrorSSR"}, uses, imports)
    BY DEF emitSSRErrorWire
  <2> HIDE DEF named
  <2>3. Imported(uses) = imports
    BY <2>1, WireImports
  <2>4. Gen(d) \notin imports
    BY <1>0, NotLib
  <2> HIDE DEF uses, imports
  <2> QED BY <2>2, <2>3, <2>4, TidyFile
<1> QED
  BY <1>1, <1>2, <1>3, <1>4, <1>5, <1>6 DEF InGen

LEMMA TidyInClient == ASSUME NEW f, InClient(f) PROVE Tidy(f)
<1>1. \A pkg, name, declares, uses :
        (\A u \in uses : u[1] # pkg) => Tidy(File(pkg, name, declares, uses, {u[1] : u \in uses}))
  BY DEF Tidy, File, Imported
<1>2. \A d : Tidy(ClientEntry(d))
  <2> TAKE d
  <2> DEFINE uses == {<<PageModule(d), "Page">>, <<ClientRouterModule, "startRouter">>} \cup
                     {<<w, "Wrapper">> : w \in Wrapper(d)}
  <2>1. \A u \in uses : u[1] # <<"client", d>>
    BY DEF PageModule, ClientRouterModule, Wrapper
  <2>2. ClientEntry(d) = File(<<"client", d>>, "entry.ts", {"entry"}, uses, {u[1] : u \in uses})
    BY DEF ClientEntry
  <2> HIDE DEF uses
  <2> QED BY <1>1, <2>1, <2>2
<1>3. \A d : Tidy(LoweredPage(d))
  BY TidyAlone DEF LoweredPage
<1>4. \A c : Tidy(emitChainWrapper(c))
  <2> TAKE c
  <2> DEFINE uses == {<<<<"layout", l>>, "Layout">> : l \in c} \cup {<<ClientRouterModule, "wrapperState">>}
  <2>1. \A u \in uses : u[1] # <<"chain", c>>
    BY DEF ClientRouterModule
  <2>2. emitChainWrapper(c) = File(<<"chain", c>>, "wrapper.svelte", {"Wrapper"}, uses, {u[1] : u \in uses})
    BY DEF emitChainWrapper
  <2> HIDE DEF uses
  <2> QED BY <1>1, <2>1, <2>2
<1>5. Tidy(emitClientRouter)
  <2> DEFINE uses == {<<PageModule(d), "Page">> : d \in Pages} \cup
                     {<<w, "Wrapper">> : w \in UNION {Wrapper(d) : d \in Pages}}
  <2>1. \A u \in uses : u[1] # ClientRouterModule
    BY DEF PageModule, ClientRouterModule, Wrapper
  <2>2. emitClientRouter =
          File(ClientRouterModule, "router.ts", {"startRouter", "wrapperState"}, uses, {u[1] : u \in uses})
    BY DEF emitClientRouter
  <2> HIDE DEF uses
  <2> QED BY <1>1, <2>1, <2>2
<1> QED
  BY <1>2, <1>3, <1>4, <1>5 DEF InClient

LEMMA TidyOutput == ASSUME NEW f \in WholeOutput PROVE Tidy(f)
<1>1. Listed(f)
  BY Catalogue
<1>2. Tidy(GenerateManifest)
  BY ManifestImports DEF Tidy
<1>3. \A name, declared, lib : Tidy(ProjectFile(name, declared, lib))
  BY LibImports, NotLib, TidyFile DEF ProjectFile
<1>4. InManifestPackage(f) => Tidy(f)
  BY <1>2, <1>3 DEF InManifestPackage, ProjectFiles
<1> QED
  BY <1>1, <1>4, TidyInUserSrc, TidyInLayoutSrc, TidyInErrorSrc, TidyInGen, TidyInClient DEF Listed


-----------------------------------------------------------------------------
(* What is used and what is declared. *)

Known(use) == Provided(use) \/ DeclaredIn(use[1], use[2])
AllKnown(f) == \A use \in f.uses : Known(use)

LEMMA KnownLib == ASSUME NEW names, NEW u \in OfLib(names) PROVE Known(u)
<1>1. PICK n \in names : u = <<Lib(n), n>>
  BY DEF OfLib
<1> QED
  BY <1>1 DEF Known, Provided, Lib

LEMMA KnownHere ==
  ASSUME NEW d, NEW n
  PROVE  /\ Known(<<UserSrc(d), n>>) <=> DeclaredIn(UserSrc(d), n)
         /\ Known(<<LayoutSrc(d), n>>) <=> DeclaredIn(LayoutSrc(d), n)
         /\ Known(<<ErrorSrc(d), n>>) <=> DeclaredIn(ErrorSrc(d), n)
         /\ Known(<<Gen(d), n>>) <=> DeclaredIn(Gen(d), n)
<1>1. \A p : <<p, n>>[1] = p /\ <<p, n>>[2] = n
  OBVIOUS
<1>2. \A p : p[1] \notin {"lib", "src", "layout"} => ~Provided(<<p, n>>)
  BY <1>1 DEF Provided
<1>3. /\ UserSrc(d)[1] = "usersrc" /\ LayoutSrc(d)[1] = "layoutsrc"
      /\ ErrorSrc(d)[1] = "errorsrc" /\ Gen(d)[1] = "routes"
  BY DEF UserSrc, LayoutSrc, ErrorSrc, Gen
<1> QED
  BY <1>1, <1>2, <1>3 DEF Known

(* Where the author's Go files stand. *)
LEMMA InDirs ==
  /\ ScannedRoutes \subseteq Dirs
  /\ Pages \subseteq ScannedRoutes
  /\ planSSR \subseteq Pages
  /\ planSSRLayouts \subseteq layoutImports
  /\ layoutImports \subseteq Dirs
  /\ \A l \in layoutImports : project[l].layout # "absent"
<1>1. ScannedRoutes \subseteq Dirs /\ Pages \subseteq ScannedRoutes /\ planSSR \subseteq Pages
  BY DEF ScannedRoutes, Pages, planSSR
<1>2. planSSRLayouts \subseteq layoutImports
  BY <1>1 DEF planSSRLayouts, layoutImports
<1>3. \A d \in Dirs : \A l \in LayoutChain(d) : l \in Dirs /\ project[l].layout # "absent"
  BY AboveAssumption DEF LayoutChain
<1> QED
  BY <1>1, <1>2, <1>3 DEF layoutImports

LEMMA SourceDeclares ==
  /\ Declares["options"] = {} /\ Declares["actions"] = {"Actions"}
  /\ Declares["typed"] = {"Load", "Data"} /\ Declares["empty"] = {"Load", "Data"}
  /\ Declares["other"] = {"Load", "OtherData"}
  /\ DOMAIN Declares = {"options", "actions", "typed", "empty", "other"}
  BY DEF Declares

(* A page's data type is missing when Load returns a struct of another name. *)
LEMMA PageData ==
  ASSUME ProjectOK, NEW d \in planSSR
  PROVE  DeclaredIn(UserSrc(d), "Data") <=> (HasPageServer(d) => project[d].source # "other")
<1>1. d \in Dirs /\ d \in ScannedRoutes
  BY InDirs
<1>2. project[d].source \in DOMAIN Declares \cup {"absent"}
  BY <1>1 DEF ProjectOK, DirContents
<1>3. DeclaredIn(UserSrc(d), "Data") <=>
        \/ HasPageServer(d) /\ "Data" \in Declares[project[d].source]
        \/ ~Shaped(d)
  BY <1>1, DeclaredInUserSrc
<1>4. Shaped(d) <=> HasPageServer(d) /\ project[d].source \in {"typed", "other"}
  BY DEF Shaped, ShapeHasFields
<1>5. HasPageServer(d) => project[d].source # "absent"
  BY DEF HasPageServer
<1> QED
  BY <1>2, <1>3, <1>4, <1>5, SourceDeclares

LEMMA LayoutLoads ==
  ASSUME ProjectOK, NEW l \in layoutImports, LayoutServer(l)
  PROVE  /\ DeclaredIn(LayoutSrc(l), "Load") <=> project[l].layout \in {"typed", "empty", "other"}
         /\ l \in planSSRLayouts => (DeclaredIn(LayoutSrc(l), "Data") <=> project[l].layout \in {"typed", "empty"})
<1>1. l \in Dirs /\ project[l].layout # "absent"
  BY InDirs
<1>2. project[l].layout \in DOMAIN Declares
  BY <1>1 DEF ProjectOK, DirContents, LayoutServer
<1>3. DeclaredIn(LayoutSrc(l), "Load") <=> "Load" \in Declares[project[l].layout]
  BY DeclaredInLayoutSrc
<1>4. DeclaredIn(LayoutSrc(l), "Data") <=> "Data" \in Declares[project[l].layout]
  BY DeclaredInLayoutSrc
<1> QED
  BY <1>2, <1>3, <1>4, SourceDeclares

(* The files whose uses are always known. *)
LEMMA KnownMirrors ==
  ASSUME NEW d
  PROVE  /\ AllKnown(RESTMirror(d)) /\ AllKnown(PageMirror(d)) /\ AllKnown(LayoutMirror(d))
         /\ AllKnown(Companion(d)) /\ AllKnown(LoweredPage(d))
         /\ AllKnown(emitSyntheticPageData(d)) /\ AllKnown(emitSyntheticLayoutData(d))
         /\ AllKnown(emitSyntheticErrorData(d))
<1>1. \A pkg, name, declares : AllKnown(File(pkg, name, declares, {}, {}))
  BY DEF AllKnown, File
<1>2. emitSyntheticErrorData(d).uses = OfLib({"kit"})
  BY DEF emitSyntheticErrorData, File
<1>3. AllKnown(emitSyntheticErrorData(d))
  BY <1>2, KnownLib DEF AllKnown
<1> QED
  BY <1>1, <1>3 DEF RESTMirror, PageMirror, LayoutMirror, mirrorUserSource, Companion, LoweredPage,
                    emitSyntheticPageData, emitSyntheticLayoutData

LEMMA KnownInErrors ==
  ASSUME NEW e \in Boundaries
  PROVE  AllKnown(ErrorBody(e)) /\ AllKnown(emitSSRErrorWire(e))
<1>1. ErrorBody(e).uses = {<<ErrorSrc(e), "Data">>} \cup OfLib({"server"})
  BY DEF ErrorBody, Body, File
<1>2. emitSSRErrorWire(e).uses = {<<ErrorSrc(e), "Render">>} \cup OfLib({"kit", "server"})
  BY DEF emitSSRErrorWire, File
<1>3. Known(<<ErrorSrc(e), "Data">>) /\ Known(<<ErrorSrc(e), "Render">>)
  BY KnownHere, DeclaredInErrorSrc
<1>4. AllKnown(ErrorBody(e))
  BY <1>1, <1>3, KnownLib DEF AllKnown
<1>5. AllKnown(emitSSRErrorWire(e))
  BY <1>2, <1>3, KnownLib DEF AllKnown
<1> QED
  BY <1>4, <1>5

LEMMA KnownInWires ==
  ASSUME NEW d \in ScannedRoutes
  PROVE  /\ HasServer(d) => AllKnown(RESTWire(d))
         /\ HasPageServer(d) => AllKnown(emitWire(d))
<1>1. ASSUME HasServer(d) PROVE AllKnown(RESTWire(d))
  <2>1. RESTWire(d).uses = OfLib({"kit", "http"}) \cup {<<UserSrc(d), "GET">>}
    BY DEF RESTWire, File
  <2>2. Known(<<UserSrc(d), "GET">>)
    BY <1>1, KnownHere, DeclaredInUserSrc
  <2> QED BY <2>1, <2>2, KnownLib DEF AllKnown
<1>2. ASSUME HasPageServer(d) PROVE AllKnown(emitWire(d))
  <2> DEFINE wrapped == {s \in {"Load", "Actions"} : s \in Declares[project[d].source]}
  <2>1. emitWire(d).uses = OfLib({"kit"}) \cup {<<UserSrc(d), s>> : s \in wrapped}
    BY DEF emitWire, File
  <2>2. \A s \in wrapped : Known(<<UserSrc(d), s>>)
    BY <1>2, KnownHere, DeclaredInUserSrc
  <2> HIDE DEF wrapped
  <2> QED BY <2>1, <2>2, KnownLib DEF AllKnown
<1> QED
  BY <1>1, <1>2

LEMMA KnownInClient == ASSUME NEW f, InClient(f) PROVE AllKnown(f)
<1>0. command # "prerender"
  BY DEF InClient
<1>1. \A d \in Pages : Known(<<PageModule(d), "Page">>)
  <2> SUFFICES ASSUME NEW d \in Pages PROVE Known(<<PageModule(d), "Page">>)
    OBVIOUS
  <2>1. CASE Lowered(d)
    BY <1>0, <2>1, DeclaredInClient DEF Known, PageModule
  <2>2. CASE ~Lowered(d)
    BY <2>2 DEF Known, Provided, PageModule, Pages
  <2> QED BY <2>1, <2>2
<1>2. \A d \in Pages : \A w \in Wrapper(d) : Known(<<w, "Wrapper">>)
  BY <1>0, DeclaredInClient DEF Known, Wrapper
<1>3. Pages # {} => Known(<<ClientRouterModule, "startRouter">>) /\ Known(<<ClientRouterModule, "wrapperState">>)
  BY <1>0, DeclaredInClient DEF Known
<1>4. \A d \in Pages : \A l \in LayoutChain(d) : Known(<<<<"layout", l>>, "Layout">>)
  BY DEF LayoutChain, Known, Provided
<1>5. ASSUME NEW d \in Pages PROVE AllKnown(ClientEntry(d))
  <2>1. ClientEntry(d).uses = {<<PageModule(d), "Page">>, <<ClientRouterModule, "startRouter">>} \cup
                              {<<w, "Wrapper">> : w \in Wrapper(d)}
    BY DEF ClientEntry, File
  <2> QED BY <1>1, <1>2, <1>3, <2>1 DEF AllKnown
<1>6. ASSUME NEW d \in Pages PROVE AllKnown(emitChainWrapper(LayoutChain(d)))
  <2>1. emitChainWrapper(LayoutChain(d)).uses =
          {<<<<"layout", l>>, "Layout">> : l \in LayoutChain(d)} \cup {<<ClientRouterModule, "wrapperState">>}
    BY DEF emitChainWrapper, File
  <2> QED BY <1>3, <1>4, <2>1 DEF AllKnown
<1>7. AllKnown(emitClientRouter)
  <2>1. emitClientRouter.uses = {<<PageModule(d), "Page">> : d \in Pages} \cup
                                {<<w, "Wrapper">> : w \in UNION {Wrapper(d) : d \in Pages}}
    BY DEF emitClientRouter, File
  <2> QED BY <1>1, <1>2, <2>1 DEF AllKnown
<1> QED
  BY <1>5, <1>6, <1>7, KnownMirrors DEF InClient


(* The files whose uses depend on the project. *)
LEMMA KnownInPage ==
  ASSUME NEW d \in planSSR
  PROVE  /\ AllKnown(PageBody(d)) <=> DeclaredIn(UserSrc(d), "Data")
         /\ AllKnown(emitSSRWire(d)) <=> DeclaredIn(UserSrc(d), "Data")
<1>1. PageBody(d).uses = {<<UserSrc(d), "Data">>} \cup OfLib({"server"})
  BY DEF PageBody, Body, File
<1>2. emitSSRWire(d).uses = {<<UserSrc(d), "Data">>, <<UserSrc(d), "Render">>} \cup OfLib({"fmt", "server"})
  BY DEF emitSSRWire, File
<1>3. Known(<<UserSrc(d), "Render">>) /\ (Known(<<UserSrc(d), "Data">>) <=> DeclaredIn(UserSrc(d), "Data"))
  BY KnownHere, DeclaredInUserSrc
<1>4. AllKnown(PageBody(d)) <=> DeclaredIn(UserSrc(d), "Data")
  BY <1>1, <1>3, KnownLib DEF AllKnown
<1>5. AllKnown(emitSSRWire(d)) <=> DeclaredIn(UserSrc(d), "Data")
  BY <1>2, <1>3, KnownLib DEF AllKnown
<1> QED
  BY <1>4, <1>5

LEMMA KnownInLayout ==
  ASSUME NEW l
  PROVE  /\ l \in planSSRLayouts => (AllKnown(LayoutBody(l)) <=> DeclaredIn(LayoutSrc(l), "Data"))
         /\ l \in planSSRLayouts => (AllKnown(emitSSRLayoutWire(l)) <=> DeclaredIn(LayoutSrc(l), "Data"))
         /\ AllKnown(LayoutWire(l)) <=> DeclaredIn(LayoutSrc(l), "Load")
<1>1. LayoutBody(l).uses = {<<LayoutSrc(l), "Data">>} \cup OfLib({"server"})
  BY DEF LayoutBody, Body, File
<1>2. emitSSRLayoutWire(l).uses = {<<LayoutSrc(l), "Data">>, <<LayoutSrc(l), "Render">>} \cup OfLib({"fmt", "server"})
  BY DEF emitSSRLayoutWire, File
<1>3. LayoutWire(l).uses = OfLib({"kit"}) \cup {<<LayoutSrc(l), "Load">>}
  BY DEF LayoutWire, File
<1>4. l \in planSSRLayouts => Known(<<LayoutSrc(l), "Render">>)
  BY KnownHere, DeclaredInLayoutSrc
<1>5. /\ Known(<<LayoutSrc(l), "Data">>) <=> DeclaredIn(LayoutSrc(l), "Data")
      /\ Known(<<LayoutSrc(l), "Load">>) <=> DeclaredIn(LayoutSrc(l), "Load")
  BY KnownHere
<1>6. AllKnown(LayoutBody(l)) <=> DeclaredIn(LayoutSrc(l), "Data")
  BY <1>1, <1>5, KnownLib DEF AllKnown
<1>7. l \in planSSRLayouts => (AllKnown(emitSSRLayoutWire(l)) <=> DeclaredIn(LayoutSrc(l), "Data"))
  BY <1>2, <1>4, <1>5, KnownLib DEF AllKnown
<1>8. AllKnown(LayoutWire(l)) <=> DeclaredIn(LayoutSrc(l), "Load")
  BY <1>3, <1>5, KnownLib DEF AllKnown
<1> QED
  BY <1>6, <1>7, <1>8

LEMMA KnownInManifest ==
  AllKnown(GenerateManifest) <=> layoutImports \subseteq planSSRLayouts /\ errorImports \subseteq Boundaries
<1>1. GenerateManifest.uses = manifestUses
  BY DEF GenerateManifest, File
<1>2. ASSUME AllKnown(GenerateManifest), NEW l \in layoutImports PROVE l \in planSSRLayouts
  <2>1. <<Gen(l), "RenderLayoutSSR">> \in manifestUses
    BY ManifestUse DEF emitLayoutAdapter
  <2>2. Known(<<Gen(l), "RenderLayoutSSR">>)
    BY <1>1, <1>2, <2>1 DEF AllKnown
  <2>3. DeclaredIn(Gen(l), "RenderLayoutSSR")
    BY <2>2, KnownHere
  <2> QED BY <2>3, DeclaredInGen
<1>3. ASSUME AllKnown(GenerateManifest), NEW e \in errorImports PROVE e \in Boundaries
  <2>1. <<Gen(e), "RenderErrorSSR">> \in manifestUses
    BY ManifestUse DEF emitSSRErrorAdapter
  <2>2. Known(<<Gen(e), "RenderErrorSSR">>)
    BY <1>1, <1>3, <2>1 DEF AllKnown
  <2>3. DeclaredIn(Gen(e), "RenderErrorSSR")
    BY <2>2, KnownHere
  <2> QED BY <2>3, DeclaredInGen
<1>4. ASSUME layoutImports \subseteq planSSRLayouts, errorImports \subseteq Boundaries, NEW u \in manifestUses
      PROVE  Known(u)
  <2>1. CASE \E n \in manifestLibs : u = <<Lib(n), n>>
    BY <2>1, KnownLib DEF OfLib
  <2>2. CASE \E d \in ScannedRoutes : \/ HasServer(d) /\ u = <<Gen(d), "Handlers">>
                                      \/ HasPageServer(d) /\ u \in {<<Gen(d), "Load">>, <<Gen(d), "Actions">>}
    BY <2>2, KnownHere, DeclaredInGen
  <2>3. CASE \E d \in planSSR : u = <<Gen(d), "RenderSSR">>
    BY <2>3, KnownHere, DeclaredInGen
  <2>4. CASE \E l \in layoutImports : \/ u = <<Gen(l), "RenderLayoutSSR">>
                                      \/ LayoutServer(l) /\ u = <<Gen(l), "LayoutLoad">>
    BY <1>4, <2>4, KnownHere, DeclaredInGen
  <2>5. CASE \E e \in errorImports : u = <<Gen(e), "RenderErrorSSR">>
    BY <1>4, <2>5, KnownHere, DeclaredInGen
  <2> QED BY <2>1, <2>2, <2>3, <2>4, <2>5, ManifestNames
<1> QED
  BY <1>1, <1>2, <1>3, <1>4 DEF AllKnown

(* Every name that is used is declared, or the project is at fault. *)
LEMMA UsesKnown ==
  ASSUME ProjectOK
  PROVE  (\A f \in WholeOutput : AllKnown(f)) <=>
           /\ \A d \in planSSR : HasPageServer(d) => project[d].source # "other"
           /\ \A l \in layoutImports : LayoutServer(l) => project[l].layout \in {"typed", "empty"}
           /\ layoutImports \subseteq planSSRLayouts
           /\ errorImports \subseteq Boundaries
<1> DEFINE PagesFit == \A d \in planSSR : HasPageServer(d) => project[d].source # "other"
           LayoutsFit == \A l \in layoutImports : LayoutServer(l) => project[l].layout \in {"typed", "empty"}
           ReachedAll == layoutImports \subseteq planSSRLayouts /\ errorImports \subseteq Boundaries
<1>1. ASSUME \A f \in WholeOutput : AllKnown(f) PROVE PagesFit /\ LayoutsFit /\ ReachedAll
  <2>1. ReachedAll
    <3>1. GenerateManifest \in WholeOutput
      BY DEF WholeOutput
    <3> QED BY <1>1, <3>1, KnownInManifest
  <2>2. ASSUME NEW d \in planSSR PROVE HasPageServer(d) => project[d].source # "other"
    <3>1. PageBody(d) \in WholeOutput
      BY OfPackage DEF InUserSrc
    <3> QED BY <1>1, <3>1, KnownInPage, PageData
  <2>3. ASSUME NEW l \in layoutImports, LayoutServer(l) PROVE project[l].layout \in {"typed", "empty"}
    <3>1. l \in planSSRLayouts
      BY <2>1
    <3>2. LayoutBody(l) \in WholeOutput
      BY <3>1, OfPackage DEF InLayoutSrc
    <3> QED BY <1>1, <2>3, <3>1, <3>2, KnownInLayout, LayoutLoads
  <2> QED BY <2>1, <2>2, <2>3
<1>2. ASSUME PagesFit, LayoutsFit, ReachedAll, NEW f \in WholeOutput PROVE AllKnown(f)
  <2> HIDE DEF PagesFit, LayoutsFit, ReachedAll
  <2>1. \A d \in planSSR : DeclaredIn(UserSrc(d), "Data")
    BY <1>2, PageData DEF PagesFit
  <2>2. \A l \in layoutImports : LayoutServer(l) => DeclaredIn(LayoutSrc(l), "Load")
    BY <1>2, LayoutLoads DEF LayoutsFit
  <2>3. \A l \in planSSRLayouts : DeclaredIn(LayoutSrc(l), "Data")
    BY <1>2, InDirs, LayoutLoads, DeclaredInLayoutSrc DEF LayoutsFit
  <2>4. ASSUME NEW d, InUserSrc(f, d) PROVE AllKnown(f)
    BY <2>1, <2>4, KnownMirrors, KnownInPage DEF InUserSrc
  <2>5. ASSUME NEW l, InLayoutSrc(f, l) PROVE AllKnown(f)
    BY <2>3, <2>5, KnownMirrors, KnownInLayout DEF InLayoutSrc
  <2>6. ASSUME NEW e, InErrorSrc(f, e) PROVE AllKnown(f)
    BY <2>6, KnownMirrors, KnownInErrors DEF InErrorSrc
  <2>7. ASSUME NEW d, InGen(f, d) PROVE AllKnown(f)
    BY <2>1, <2>2, <2>3, <2>7, KnownInWires, KnownInPage, KnownInLayout, KnownInErrors DEF InGen
  <2>8. ASSUME InManifestPackage(f) PROVE AllKnown(f)
    <3>1. AllKnown(GenerateManifest)
      BY <1>2, KnownInManifest DEF ReachedAll
    <3>2. \A name, declared, lib : ProjectFile(name, declared, lib).uses = OfLib({lib})
      BY DEF ProjectFile, File
    <3>3. \A name, declared, lib : AllKnown(ProjectFile(name, declared, lib))
      <4> TAKE name, declared, lib
      <4>1. \A u \in OfLib({lib}) : Known(u)
        BY KnownLib
      <4> QED BY <3>2, <4>1 DEF AllKnown
    <3> QED BY <2>8, <3>1, <3>3 DEF InManifestPackage, ProjectFiles
  <2>9. Listed(f)
    BY Catalogue
  <2> QED BY <2>4, <2>5, <2>6, <2>7, <2>8, <2>9, KnownInClient DEF Listed
<1> QED
  BY <1>1, <1>2

(* Every name is declared once, or a prerendered page's PageData is empty. *)
LEMMA DeclaredOnce ==
  ASSUME ProjectOK
  PROVE  (\A f, g \in WholeOutput : f # g /\ f.pkg = g.pkg => f.declares \cap g.declares = {}) <=>
           \A d \in planSSR : HasPageServer(d) => project[d].source # "empty"
<1>m. \A pkg, name, declares, uses, imports :
        LET f == File(pkg, name, declares, uses, imports)
        IN  f.declares = declares /\ f.name = name
  BY DEF File
<1>0. \A d : /\ RESTMirror(d).declares = {"GET"}
             /\ PageMirror(d).declares = Declares[project[d].source]
             /\ PageBody(d).declares = {"Render"}
             /\ Companion(UserSrc(d)).declares = {"companion"}
             /\ emitSyntheticPageData(d).declares = {"Data"}
  BY <1>m DEF RESTMirror, PageMirror, mirrorUserSource, PageBody, Body, Companion, emitSyntheticPageData
<1>1. ASSUME \A f, g \in WholeOutput : f # g /\ f.pkg = g.pkg => f.declares \cap g.declares = {},
             NEW d \in planSSR, HasPageServer(d), project[d].source = "empty"
      PROVE  FALSE
  <2>1. d \in ScannedRoutes /\ ~Shaped(d)
    BY <1>1, InDirs DEF Shaped, ShapeHasFields
  <2>2. /\ PageMirror(d) \in WholeOutput /\ emitSyntheticPageData(d) \in WholeOutput
        /\ PageMirror(d).pkg = emitSyntheticPageData(d).pkg
    BY <1>1, <2>1, OfPackage DEF InUserSrc
  <2>3. PageMirror(d).name = "page_server.go" /\ emitSyntheticPageData(d).name = "page_synthetic.gen.go"
    BY <1>m DEF PageMirror, mirrorUserSource, emitSyntheticPageData
  <2>4. PageMirror(d) # emitSyntheticPageData(d)
    BY <2>3
  <2>5. "Data" \in PageMirror(d).declares \cap emitSyntheticPageData(d).declares
    BY <1>0, <1>1, SourceDeclares
  <2> QED BY <1>1, <2>2, <2>4, <2>5
<1>2. ASSUME \A d \in planSSR : HasPageServer(d) => project[d].source # "empty",
             NEW f \in WholeOutput, NEW g \in WholeOutput, f # g, f.pkg = g.pkg
      PROVE  f.declares \cap g.declares = {}
  <2>1. ASSUME NEW d, InUserSrc(f, d), InUserSrc(g, d) PROVE f.declares \cap g.declares = {}
    <3>1. d \in ScannedRoutes /\ HasPageServer(d) =>
            Declares[project[d].source] \cap {"GET", "Render", "companion"} = {}
      <4>1. d \in ScannedRoutes /\ HasPageServer(d) => project[d].source \in DOMAIN Declares
        BY InDirs DEF ProjectOK, DirContents, HasPageServer
      <4> QED BY <4>1, SourceDeclares
    <3>2. d \in planSSR /\ ~Shaped(d) /\ HasPageServer(d) => "Data" \notin Declares[project[d].source]
      <4>1. d \in planSSR /\ HasPageServer(d) => project[d].source \in DOMAIN Declares
        BY InDirs DEF ProjectOK, DirContents, HasPageServer
      <4> QED BY <1>2, <4>1, SourceDeclares DEF Shaped, ShapeHasFields
    <3> QED BY <1>0, <1>2, <2>1, <3>1, <3>2 DEF InUserSrc
  <2>2. ASSUME NEW l, InLayoutSrc(f, l), InLayoutSrc(g, l) PROVE f.declares \cap g.declares = {}
    <3>1. l \in layoutImports /\ LayoutServer(l) =>
            Declares[project[l].layout] \cap {"Render", "companion"} = {}
      <4>1. l \in layoutImports /\ LayoutServer(l) => project[l].layout \in DOMAIN Declares
        BY InDirs DEF ProjectOK, DirContents, LayoutServer
      <4> QED BY <4>1, SourceDeclares
    <3>2. /\ LayoutMirror(l).declares = Declares[project[l].layout]
          /\ LayoutBody(l).declares = {"Render"}
          /\ Companion(LayoutSrc(l)).declares = {"companion"}
          /\ emitSyntheticLayoutData(l).declares = {"Data"}
      BY <1>m DEF LayoutMirror, mirrorUserSource, LayoutBody, Body, Companion, emitSyntheticLayoutData
    <3> QED BY <1>2, <2>2, <3>1, <3>2 DEF InLayoutSrc
  <2>3. ASSUME NEW e, InErrorSrc(f, e), InErrorSrc(g, e) PROVE f.declares \cap g.declares = {}
    <3>1. /\ ErrorBody(e).declares = {"Render"}
          /\ Companion(ErrorSrc(e)).declares = {"companion"}
          /\ emitSyntheticErrorData(e).declares = {"Data"}
      BY <1>m DEF ErrorBody, Body, Companion, emitSyntheticErrorData
    <3> QED BY <1>2, <2>3, <3>1 DEF InErrorSrc
  <2>4. ASSUME NEW d, InGen(f, d), InGen(g, d) PROVE f.declares \cap g.declares = {}
    <3>1. /\ RESTWire(d).declares = {"Handlers"}
          /\ emitWire(d).declares = {"Load", "Actions"}
          /\ LayoutWire(d).declares = {"LayoutLoad"}
          /\ emitSSRWire(d).declares = {"RenderSSR"}
          /\ emitSSRLayoutWire(d).declares = {"RenderLayoutSSR"}
          /\ emitSSRErrorWire(d).declares = {"RenderErrorSSR"}
      BY <1>m DEF RESTWire, emitWire, LayoutWire, emitSSRWire, emitSSRLayoutWire, emitSSRErrorWire
    <3> QED BY <1>2, <2>4, <3>1 DEF InGen
  <2>5. ASSUME InManifestPackage(f), InManifestPackage(g) PROVE f.declares \cap g.declares = {}
    <3>1. GenerateManifest.declares = {"Routes"}
      BY <1>m DEF GenerateManifest
    <3>2. \A name, declared, lib : ProjectFile(name, declared, lib).declares = {declared}
      BY <1>m DEF ProjectFile
    <3> QED BY <1>2, <2>5, <3>1, <3>2 DEF InManifestPackage, ProjectFiles
  <2>6. ASSUME InClient(f), InClient(g) PROVE FALSE
    <3>1. \A d : /\ ClientEntry(d).pkg = <<"client", d>>
                 /\ LoweredPage(d).pkg = <<"csrf-fallback", d>>
                 /\ emitChainWrapper(d).pkg = <<"chain", d>>
      BY DEF ClientEntry, LoweredPage, emitChainWrapper, File
    <3>2. emitClientRouter.pkg = <<"router", 0>>
      BY DEF emitClientRouter, ClientRouterModule, File
    <3>3. \A a, b, x, y : <<a, x>> = <<b, y>> => a = b /\ x = y
      OBVIOUS
    <3> QED BY <1>2, <2>6, <3>1, <3>2, <3>3 DEF InClient
  <2> QED BY <1>2, <2>1, <2>2, <2>3, <2>4, <2>5, <2>6, Catalogue, SamePackage
<1> QED
  BY <1>1, <1>2


(* No generated file uses a declaration file. *)
LEMMA NoTypesUsed ==
  ASSUME NEW f \in WholeOutput, NEW u \in f.uses
  PROVE  u[1][1] # "dts"
<1>0. \A names : \A v \in OfLib(names) : v[1][1] = "lib"
  BY DEF OfLib, Lib
<1>1. /\ \A d, n : <<UserSrc(d), n>>[1][1] = "usersrc"
      /\ \A d, n : <<LayoutSrc(d), n>>[1][1] = "layoutsrc"
      /\ \A d, n : <<ErrorSrc(d), n>>[1][1] = "errorsrc"
      /\ \A d, n : <<Gen(d), n>>[1][1] = "routes"
  BY DEF UserSrc, LayoutSrc, ErrorSrc, Gen
<1>2. \A pkg, name, declares, imports : File(pkg, name, declares, {}, imports).uses = {}
  BY DEF File
<1>3. ASSUME NEW d, InUserSrc(f, d) PROVE u[1][1] # "dts"
  <2>1. PageBody(d).uses = {<<UserSrc(d), "Data">>} \cup OfLib({"server"})
    BY DEF PageBody, Body, File
  <2>2. /\ RESTMirror(d).uses = {} /\ PageMirror(d).uses = {} /\ Companion(UserSrc(d)).uses = {}
        /\ emitSyntheticPageData(d).uses = {}
    BY <1>2 DEF RESTMirror, PageMirror, mirrorUserSource, Companion, emitSyntheticPageData
  <2> QED BY <1>0, <1>1, <1>3, <2>1, <2>2 DEF InUserSrc
<1>4. ASSUME NEW l, InLayoutSrc(f, l) PROVE u[1][1] # "dts"
  <2>1. LayoutBody(l).uses = {<<LayoutSrc(l), "Data">>} \cup OfLib({"server"})
    BY DEF LayoutBody, Body, File
  <2>2. LayoutMirror(l).uses = {} /\ Companion(LayoutSrc(l)).uses = {} /\ emitSyntheticLayoutData(l).uses = {}
    BY <1>2 DEF LayoutMirror, mirrorUserSource, Companion, emitSyntheticLayoutData
  <2> QED BY <1>0, <1>1, <1>4, <2>1, <2>2 DEF InLayoutSrc
<1>5. ASSUME NEW e, InErrorSrc(f, e) PROVE u[1][1] # "dts"
  <2>1. /\ ErrorBody(e).uses = {<<ErrorSrc(e), "Data">>} \cup OfLib({"server"})
        /\ emitSyntheticErrorData(e).uses = OfLib({"kit"})
        /\ Companion(ErrorSrc(e)).uses = {}
    BY DEF ErrorBody, Body, Companion, emitSyntheticErrorData, File
  <2> QED BY <1>0, <1>1, <1>5, <2>1 DEF InErrorSrc
<1>6. ASSUME NEW d, InGen(f, d) PROVE u[1][1] # "dts"
  <2>1. RESTWire(d).uses = OfLib({"kit", "http"}) \cup {<<UserSrc(d), "GET">>}
    BY DEF RESTWire, File
  <2>2. \A v \in emitWire(d).uses : v \in OfLib({"kit"}) \/ \E s : v = <<UserSrc(d), s>>
    BY DEF emitWire, File
  <2>3. LayoutWire(d).uses = OfLib({"kit"}) \cup {<<LayoutSrc(d), "Load">>}
    BY DEF LayoutWire, File
  <2>4. emitSSRWire(d).uses = {<<UserSrc(d), "Data">>, <<UserSrc(d), "Render">>} \cup OfLib({"fmt", "server"})
    BY DEF emitSSRWire, File
  <2>5. emitSSRLayoutWire(d).uses = {<<LayoutSrc(d), "Data">>, <<LayoutSrc(d), "Render">>} \cup OfLib({"fmt", "server"})
    BY DEF emitSSRLayoutWire, File
  <2>6. emitSSRErrorWire(d).uses = {<<ErrorSrc(d), "Render">>} \cup OfLib({"kit", "server"})
    BY DEF emitSSRErrorWire, File
  <2> QED BY <1>0, <1>1, <1>6, <2>1, <2>2, <2>3, <2>4, <2>5, <2>6 DEF InGen
<1>7. ASSUME InManifestPackage(f) PROVE u[1][1] # "dts"
  <2>1. GenerateManifest.uses = manifestUses
    BY DEF GenerateManifest, File
  <2>2. \A v \in manifestUses : (\E n : v = <<Lib(n), n>>) \/ (\E d, n : v = <<Gen(d), n>>)
    BY ManifestNames
  <2>3. \A n : <<Lib(n), n>>[1][1] = "lib"
    BY DEF Lib
  <2>4. \A name, declared, lib : ProjectFile(name, declared, lib).uses = OfLib({lib})
    BY DEF ProjectFile, File
  <2>5. ASSUME f = GenerateManifest PROVE u[1][1] # "dts"
    <3>1. (\E n : u = <<Lib(n), n>>) \/ (\E d, n : u = <<Gen(d), n>>)
      BY <2>1, <2>2, <2>5
    <3> QED BY <1>1, <2>3, <3>1
  <2>6. ASSUME f \in ProjectFiles PROVE u[1][1] # "dts"
    <3>1. \E lib : f.uses = OfLib({lib})
      BY <2>4, <2>6 DEF ProjectFiles
    <3> QED BY <1>0, <3>1
  <2> QED BY <1>7, <2>5, <2>6 DEF InManifestPackage
<1>8. ASSUME InClient(f) PROVE u[1][1] # "dts"
  <2>1. \A d, n : <<PageModule(d), n>>[1][1] \in {"csrf-fallback", "src"}
    BY DEF PageModule
  <2>2. \A d : \A w \in Wrapper(d) : <<w, "Wrapper">>[1][1] = "chain"
    BY DEF Wrapper
  <2>3. \A n : <<ClientRouterModule, n>>[1][1] = "router"
    BY DEF ClientRouterModule
  <2>4. \A d : ClientEntry(d).uses = {<<PageModule(d), "Page">>, <<ClientRouterModule, "startRouter">>} \cup
                                    {<<w, "Wrapper">> : w \in Wrapper(d)}
    BY DEF ClientEntry, File
  <2>5. \A c : emitChainWrapper(c).uses =
                 {<<<<"layout", l>>, "Layout">> : l \in c} \cup {<<ClientRouterModule, "wrapperState">>}
    BY DEF emitChainWrapper, File
  <2>6. emitClientRouter.uses = {<<PageModule(d), "Page">> : d \in Pages} \cup
                                {<<w, "Wrapper">> : w \in UNION {Wrapper(d) : d \in Pages}}
    BY DEF emitClientRouter, File
  <2>7. \A d : LoweredPage(d).uses = {}
    BY <1>2 DEF LoweredPage
  <2>8. ASSUME NEW d, f = ClientEntry(d) PROVE u[1][1] # "dts"
    BY <2>1, <2>2, <2>3, <2>4, <2>8
  <2>9. ASSUME NEW c, f = emitChainWrapper(c) PROVE u[1][1] # "dts"
    BY <2>3, <2>5, <2>9
  <2>10. ASSUME f = emitClientRouter PROVE u[1][1] # "dts"
    BY <2>1, <2>2, <2>6, <2>10
  <2> QED BY <1>8, <2>7, <2>8, <2>9, <2>10 DEF InClient
<1> QED
  BY <1>3, <1>4, <1>5, <1>6, <1>7, <1>8, Catalogue DEF Listed

(* When the compilers start, the whole output is there, beside the            *)
(* declaration files of this build and of earlier ones.                       *)
LEMMA AllWritten ==
  ASSUME CodegenInv, Generated
  PROVE  \A f : f \in genFiles <=> f \in WholeOutput \/ (f \in genFiles /\ f.pkg[1] = "dts")
<1>1. Written = Output /\ todo = {}
  BY DEF CodegenInv, WrittenInPhase, Generated, Late
<1>2. ScannedRoutes \ todo = ScannedRoutes
  BY <1>1
<1>3. Output = WholeOutput
  BY <1>2 DEF Output, WholeOutput, Generated, Early, Late
<1> QED
  BY <1>1, <1>3, NoTypesInOutput DEF Written

LEMMA TypesFile ==
  ASSUME TypesOnly, NEW f \in genFiles, f.pkg[1] = "dts"
  PROVE  /\ f.uses = {} /\ f.imports = {}
         /\ \/ f = PageTypes(f.pkg[2]) /\ f.declares = {"PageData"}
            \/ f = LayoutTypes(f.pkg[2]) /\ f.declares = {"LayoutData"}
<1>1. f = PageTypes(f.pkg[2]) \/ f = LayoutTypes(f.pkg[2])
  BY DEF TypesOnly
<1>2. \A d : /\ PageTypes(d).uses = {} /\ PageTypes(d).imports = {} /\ PageTypes(d).declares = {"PageData"}
             /\ LayoutTypes(d).uses = {} /\ LayoutTypes(d).imports = {} /\ LayoutTypes(d).declares = {"LayoutData"}
  BY DEF PageTypes, LayoutTypes, File
<1> QED
  BY <1>1, <1>2

(* The compilers look at the whole output and at nothing else. *)
LEMMA CompilesWhole ==
  ASSUME CodegenInv, Generated
  PROVE  Compiles <=> /\ \A f \in WholeOutput : AllKnown(f)
                      /\ \A f, g \in WholeOutput : f # g /\ f.pkg = g.pkg => f.declares \cap g.declares = {}
<1>0. TypesOnly
  BY DEF CodegenInv
<1>1. \A u : u[1][1] # "dts" => (Resolved(u) <=> Known(u))
  BY AllWritten DEF Resolved, Known, DeclaredIn
<1>2. (\A f \in genFiles : \A use \in f.uses : Resolved(use)) <=> \A f \in WholeOutput : AllKnown(f)
  <2>1. \A f \in WholeOutput : (\A use \in f.uses : Resolved(use)) <=> AllKnown(f)
    BY <1>1, NoTypesUsed DEF AllKnown
  <2> QED BY <1>0, <2>1, AllWritten, TypesFile
<1>3. (\A f, g \in genFiles : f # g /\ f.pkg = g.pkg => f.declares \cap g.declares = {}) <=>
      (\A f, g \in WholeOutput : f # g /\ f.pkg = g.pkg => f.declares \cap g.declares = {})
  <2>1. ASSUME NEW f \in genFiles, NEW g \in genFiles, f # g, f.pkg = g.pkg, f.pkg[1] = "dts"
        PROVE  f.declares \cap g.declares = {}
    BY <1>0, <2>1, TypesFile
  <2> QED BY <2>1, AllWritten, NoTypesInOutput
<1>4. \A f \in genFiles : f.imports = {use[1] : use \in f.uses} \ {f.pkg}
  <2>1. \A f \in WholeOutput : f.imports = {use[1] : use \in f.uses} \ {f.pkg}
    BY TidyOutput DEF Tidy, Imported
  <2>2. ASSUME NEW f \in genFiles, f.pkg[1] = "dts" PROVE f.imports = {use[1] : use \in f.uses} \ {f.pkg}
    <3>1. f.uses = {} /\ f.imports = {}
      BY <1>0, <2>2, TypesFile
    <3> QED BY <3>1
  <2> QED BY <2>1, <2>2, AllWritten
<1> QED
  BY <1>2, <1>3, <1>4 DEF Compiles

LEMMA FitsWhenGenerated == CodegenInv => OutputFits
<1> SUFFICES ASSUME CodegenInv, Generated PROVE (Compiles <=> Reached /\ WellTyped) /\ PrerenderRenders
  BY DEF OutputFits, ManifestCompiles, PrerenderRenders
<1>0. ProjectOK
  BY DEF CodegenInv
<1>1. Compiles <=> Reached /\ WellTyped
  <2>1. errorImports \subseteq Boundaries <=>
          errorImports \subseteq planSSRErrors /\ (errorImports # {} => planSSRLayouts # {})
    BY DEF Boundaries
  <2>2. \A d \in planSSR : HasPageServer(d) =>
          (project[d].source \in {"typed", "options", "actions"} <=> project[d].source \notin {"other", "empty"})
    <3>1. \A d \in planSSR : HasPageServer(d) => project[d].source \in DOMAIN Declares
      BY <1>0, InDirs DEF ProjectOK, DirContents, HasPageServer
    <3> QED BY <3>1, SourceDeclares
  <2>3. \A l \in layoutImports :
          project[l].layout \in {"plain", "typed", "empty"} <=>
          (LayoutServer(l) => project[l].layout \in {"typed", "empty"})
    BY DEF LayoutServer
  <2>4. Compiles <=>
          /\ \A d \in planSSR : HasPageServer(d) => project[d].source \notin {"other", "empty"}
          /\ \A l \in layoutImports : LayoutServer(l) => project[l].layout \in {"typed", "empty"}
          /\ layoutImports \subseteq planSSRLayouts
          /\ errorImports \subseteq Boundaries
    BY <1>0, CompilesWhole, UsesKnown, DeclaredOnce
  <2> QED BY <2>1, <2>2, <2>3, <2>4 DEF Reached, WellTyped
<1>2. ASSUME NEW d \in Pages, Prerendered(d)
      PROVE  /\ PageHandler(d) # "none"
             /\ PageHandler(d) = "render" => \E f \in genFiles : f.pkg = Gen(d) /\ "RenderSSR" \in f.declares
  <2>1. d \in planSSR \/ d \in planFallback
    BY <1>2 DEF planSSR, planFallback, routeEligibleForSSRChain, Pages
  <2>2. PageHandler(d) # "none" /\ (PageHandler(d) = "render" => d \in planSSR)
    BY <2>1 DEF PageHandler
  <2>3. d \in planSSR => DeclaredIn(Gen(d), "RenderSSR")
    BY DeclaredInGen
  <2> QED BY <2>2, <2>3, AllWritten DEF DeclaredIn
<1> QED
  BY <1>1, <1>2 DEF PrerenderRenders

(* OutputAlwaysFits: for every tree of directories, every project and every   *)
(* edit, when a build reaches the compilers its output compiles exactly when  *)
(* the layouts and boundaries the manifest names are reached and the author's *)
(* Go files are well typed, and every page that is prerendered has a handler  *)
(* (GenerateManifest, runSSRTranspile, emitWire, planSSR).  At every phase    *)
(* what is under .gen is what the phases before it generate from the project  *)
(* as it is now, a file for each path, so nothing of an earlier build, whole  *)
(* or broken off, is left; which names a package then declares and uses is    *)
(* settled by the kinds of files it can hold.                                 *)
THEOREM OutputAlwaysFits == CodegenSpec => []OutputFits
<1>1. CodegenInit => CodegenInv
  BY CodegenStart
<1>2. CodegenInv /\ [CodegenNext]_codegenVars => CodegenInv'
  BY CodegenStep
<1>3. CodegenInv => OutputFits
  BY FitsWhenGenerated
<1> QED
  BY <1>1, <1>2, <1>3, PTL DEF CodegenSpec
=============================================================================
