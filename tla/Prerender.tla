----------------------------- MODULE Prerender ------------------------------
(***************************************************************************)
(* Prerendered pages: the pass that writes them (server/prerender.go, run  *)
(* by cmd/sveltego/prerender.go in the user's binary), the server that     *)
(* answers from them before anything else (server/prerender_serve.go), and *)
(* the static adapter that runs the pass in a scratch directory and copies *)
(* the result to a deploy tree (adapter-static).                           *)
(*                                                                         *)
(* The pass and the server are two processes that share a directory and    *)
(* nothing else.  A file is empty from its creation until its contents are *)
(* written; a process may be killed between any two steps.                 *)
(***************************************************************************)
EXTENDS Integers, FiniteSets, Sequences, SequencesExt

CONSTANTS
    PathOrder,    \* the URL paths of the site, in the order of sort.Slice
    Sites,        \* sequences of route tables, one for each release
    Tolerate,     \* the errors a pass absorbs (-1: any number)
    MaxPasses     \* bound on the passes of one behaviour

ASSUME TolerateAssumption == Tolerate \in Int /\ Tolerate >= -1
ASSUME PassesAssumption == MaxPasses \in Nat
\* Every page has a path, and every entry of a dynamic route, if only None.
ASSUME SitesAssumption ==
    \A s \in Sites :
        /\ s # <<>> /\ s \in Seq({s[n] : n \in DOMAIN s})
        /\ \A n \in DOMAIN s : \A r \in s[n] :
              r.page => IF r.dynamic THEN r.entries \subseteq ToSet(PathOrder) \cup {"none"}
                        ELSE r.pattern \in ToSet(PathOrder)

VARIABLES
    tables,    \* the project: the route table of each release
    release,   \* the release the sources are at
    trees,     \* directory |-> its files and its manifest
    pass,      \* the process that prerenders
    passes,    \* how many passes there have been
    site,      \* the server
    build,     \* adapter-static's Build
    dist       \* its output directory

prerenderVars == <<tables, release, trees, pass, passes, site, build, dist>>

SitePaths == ToSet(PathOrder)
None == "none"                     \* no path, no result
NoFile == [state |-> "none"]
Torn == [state |-> "torn"]         \* a file that is created and not yet written
Live == [state |-> "live"]         \* what the request pipeline answers
Manifest(state, rows) == [state |-> state, rows |-> rows]

\* The output directory of the command, the scratch directory of the adapter,
\* and the directory the pass makes of an absolute scratch directory.
Places == {"out", "scratch", "joined"}
Files == SitePaths \cup {"index"}
EmptyTree == [files |-> [f \in Files |-> NoFile], manifest |-> Manifest("none", <<>>), routes |-> FALSE]

-----------------------------------------------------------------------------
(* The plan of a pass                                                       *)

\* The file of a path: its slashes trimmed, "index" for the root.
fileOf(p) == IF p \in {"/", "/index"} THEN "index" ELSE p

\* planPrerenderJobs and substituteParams.  An entry that lacks a parameter is
\* the path None, and fails the plan.
Wanted(r) ==
    /\ r.page /\ (r.prerender \/ r.auto)
    /\ ~(r.auto /\ (r.dynamic \/ r.load))

planPrerenderJobs(rs) ==
    UNION {{[route |-> r.pattern, path |-> p, protected |-> r.protected] :
                p \in IF r.dynamic THEN r.entries ELSE {r.pattern}} : r \in {r \in rs : Wanted(r)}}

Before(p, q) ==
    \E i, j \in DOMAIN PathOrder : i < j /\ PathOrder[i] = p /\ PathOrder[j] = q

\* The route that answers a path: the one with the path for a pattern, then
\* the dynamic one.
Answers(rs, p) ==
    LET static == {r \in rs : r.page /\ ~r.dynamic /\ r.pattern = p}
    IN  IF static # {} THEN CHOOSE r \in static : TRUE
        ELSE CHOOSE r \in rs : r.page /\ r.dynamic /\ p \in r.entries

\* What the pipeline answers.  A redirect is below 400 and is kept as a page.
\* PrerenderProtected says nothing of a route that is not prerendered.
PageOf(n, p, kind) ==
    LET r == Answers(tables[n], p)
    IN  [release |-> n, path |-> p, kind |-> kind, protected |-> Wanted(r) /\ r.protected]

-----------------------------------------------------------------------------
(* Server.Prerender                                                         *)

NoJob == [route |-> None, path |-> None, protected |-> FALSE]
Finished(result) ==
    [pc |-> "idle", place |-> "out", release |-> 1, jobs |-> {}, job |-> NoJob, page |-> NoFile,
     entries |-> <<>>, errors |-> 0, result |-> result]

Put(place, f, c) == [trees EXCEPT ![place].files[f] = c]

\* One pass at a time: nothing in the code keeps two of them apart.
StartPass(place) ==
    /\ pass.pc = "idle" /\ passes < MaxPasses
    /\ passes' = passes + 1
    /\ pass' = [Finished(None) EXCEPT !.pc = "clean", !.place = place, !.release = release]
    /\ site' = [site EXCEPT !.stale = @ \/ place = "out"]

\* sveltego prerender
Command == StartPass("out") /\ UNCHANGED <<tables, release, trees, build, dist>>

\* os.RemoveAll removes one file after the other.
RemoveOne ==
    /\ pass.pc = "clean"
    /\ \/ \E f \in Files : /\ trees[pass.place].files[f] # NoFile
                           /\ trees' = Put(pass.place, f, NoFile)
       \/ /\ trees[pass.place].manifest.state # "none"
          /\ trees' = [trees EXCEPT ![pass.place].manifest = EmptyTree.manifest, ![pass.place].routes = FALSE]
    /\ UNCHANGED <<tables, release, pass, passes, site, build, dist>>

\* As if the last manifest stayed until the new one replaced it.
RemovedPages == \A f \in Files : trees[pass.place].files[f] = NoFile

RemovedAll == trees[pass.place] = EmptyTree

Fail == pass' = Finished("failed")

\* MkdirAll, Init and the plan.
Plan ==
    /\ pass.pc = "clean" /\ RemovedAll
    /\ LET jobs == planPrerenderJobs(tables[pass.release])
       IN  IF \E j \in jobs : j.path = None THEN Fail
           ELSE \/ Fail
                \/ pass' = [pass EXCEPT !.pc = "jobs", !.jobs = jobs]
    /\ UNCHANGED <<tables, release, trees, passes, site, build, dist>>

\* runOnePrerenderJob: the request, with an error (a status of 400 or more, or
\* a directory that cannot be made) or with a page, and the file's creation.
runOnePrerenderJob(j) ==
    /\ pass.pc = "jobs" /\ j \in pass.jobs /\ \A k \in pass.jobs : ~Before(k.path, j.path)
    /\ \/ /\ pass' = [pass EXCEPT !.jobs = @ \ {j}, !.errors = @ + 1]
          /\ UNCHANGED trees
       \/ \E kind \in {"page", "redirect"} :
             /\ pass' = [pass EXCEPT !.pc = "write", !.jobs = @ \ {j}, !.job = j,
                                     !.page = PageOf(pass.release, j.path, kind)]
             /\ trees' = Put(pass.place, fileOf(j.path), Torn)
    /\ UNCHANGED <<tables, release, passes, site, build, dist>>

\* An entry names its page, which the manifest does not, for the properties.
Entry == [route |-> pass.job.route, path |-> pass.job.path, file |-> fileOf(pass.job.path),
          protected |-> pass.job.protected, page |-> pass.page]

WriteJob ==
    /\ pass.pc = "write"
    /\ \/ /\ trees' = Put(pass.place, fileOf(pass.job.path), pass.page)
          /\ pass' = [pass EXCEPT !.pc = "jobs", !.entries = Append(@, Entry)]
       \/ /\ UNCHANGED trees
          /\ pass' = [pass EXCEPT !.pc = "jobs", !.errors = @ + 1]
    /\ UNCHANGED <<tables, release, passes, site, build, dist>>

\* writePrerenderManifest, after the last job.
JobsDone == pass.pc = "jobs" /\ pass.jobs = {}

writePrerenderManifest ==
    /\ \/ /\ JobsDone
          /\ trees' = [trees EXCEPT ![pass.place].manifest = Manifest("torn", <<>>)]
          /\ pass' = [pass EXCEPT !.pc = "manifest"]
       \/ /\ pass.pc = "manifest"
          /\ trees' = [trees EXCEPT ![pass.place].manifest = Manifest("whole", pass.entries)]
          /\ pass' = [pass EXCEPT !.pc = "report"]
       \/ pass.pc = "manifest" /\ Fail /\ UNCHANGED trees
    /\ UNCHANGED <<tables, release, passes, site, build, dist>>

\* MaybePrerenderFromEnv adds routes.json, and only logs that it could not.
writeRoutesManifest ==
    \E written \in BOOLEAN : trees' = [trees EXCEPT ![pass.place].routes = written]

\* The report, which may fail, and the tolerance.
Exceeded == Tolerate >= 0 /\ pass.errors > Tolerate

Return ==
    /\ pass.pc = "report"
    /\ \/ /\ Exceeded \/ pass.errors > 0
          /\ Fail /\ UNCHANGED trees
       \/ /\ ~Exceeded
          /\ pass' = Finished("ok")
          /\ writeRoutesManifest
    /\ UNCHANGED <<tables, release, passes, site, build, dist>>

KillPass ==
    /\ pass.pc # "idle" /\ pass' = Finished("killed")
    /\ UNCHANGED <<tables, release, trees, passes, site, build, dist>>

-----------------------------------------------------------------------------
(* The server                                                               *)

Down == [up |-> FALSE, table |-> <<>>, stale |-> FALSE]
Answer(p, allow, from, body) == [path |-> p, allow |-> allow, from |-> from, body |-> body]
NoAnswer == Answer(None, FALSE, [page |-> NoFile], Live)

\* LoadPrerenderManifest: a table keyed by path, the last entry of a path
\* stays.  A missing manifest is an empty table; a torn one is an error.
LoadPrerenderManifest(rows) ==
    LET last == {i \in DOMAIN rows : \A j \in DOMAIN rows : rows[j].path = rows[i].path => j <= i}
    IN  [p \in {rows[i].path : i \in last} |-> rows[CHOOSE i \in last : rows[i].path = p]]

\* A table read while an earlier tree is being removed is out of date at once.
StartServer ==
    /\ ~site.up /\ trees["out"].manifest.state # "torn"
    /\ site' = [up |-> TRUE, table |-> LoadPrerenderManifest(trees["out"].manifest.rows),
                stale |-> pass.pc = "clean" /\ pass.place = "out"]
    /\ UNCHANGED <<tables, release, trees, pass, passes, build, dist>>

StopServer ==
    /\ site.up /\ site' = Down
    /\ UNCHANGED <<tables, release, trees, pass, passes, build, dist>>

\* The gate's answer, for an entry that is protected.  A server without a gate
\* has one that always denies.
Allowed(e, allow) == e.protected => allow

\* A GET or HEAD.  It changes nothing; any other method is not for the table.
servePrerendered(p, allow) ==
    LET miss == [NoAnswer EXCEPT !.path = p, !.allow = allow]
    IN  IF p \notin DOMAIN site.table \/ ~Allowed(site.table[p], allow) THEN miss
        ELSE LET e == site.table[p]
                 body == trees["out"].files[e.file]
             IN  IF body = NoFile THEN miss ELSE Answer(p, allow, e, body)

-----------------------------------------------------------------------------
(* adapter-static                                                           *)

NotBuilding(outcome) ==
    [pc |-> "idle", runner |-> "subprocess", strict |-> FALSE, release |-> 1, rows |-> <<>>, next |-> 1,
     outcome |-> outcome]

\* Build up to the runner: the scratch directory is emptied.
StartBuild(runner, strict) ==
    /\ build.pc = "idle" /\ pass.pc = "idle" /\ passes < MaxPasses
    /\ build' = [NotBuilding(None) EXCEPT !.pc = "run", !.runner = runner, !.strict = strict,
                                          !.release = release]
    /\ trees' = [trees EXCEPT !["scratch"] = EmptyTree]
    /\ UNCHANGED <<tables, release, pass, passes, site, dist>>

\* subprocessRunner gives the binary the absolute scratch directory, which the
\* binary joins to the project root.  A caller's own runner writes where it is
\* told.
ScratchOf(runner) == IF runner = "subprocess" THEN "joined" ELSE "scratch"

RunBinary ==
    /\ build.pc = "run" /\ release = build.release
    /\ StartPass(ScratchOf(build.runner))
    /\ build' = [build EXCEPT !.pc = "wait"]
    /\ UNCHANGED <<tables, release, trees, dist>>

EndBuild(outcome) ==
    /\ build' = [NotBuilding(outcome) EXCEPT !.release = build.release]
    /\ trees' = [trees EXCEPT !["scratch"] = EmptyTree]

\* readDynamicRoutes: the routes without an entry, when there is a routes.json.
dynamicRoutes ==
    {r \in tables[build.release] :
        /\ trees["scratch"].routes
        /\ \A i \in DOMAIN trees["scratch"].manifest.rows :
               trees["scratch"].manifest.rows[i].route # r.pattern}

\* The end of the binary, the reading of the manifest and FailOnDynamic.
ReadScratch ==
    /\ build.pc = "wait" /\ pass.pc = "idle"
    /\ IF \/ pass.result # "ok"
          \/ trees["scratch"].manifest.state # "whole"
          \/ build.strict /\ dynamicRoutes # {}
       THEN EndBuild("failed")
       ELSE /\ build' = [build EXCEPT !.pc = "copy", !.rows = trees["scratch"].manifest.rows]
            /\ UNCHANGED trees
    /\ UNCHANGED <<tables, release, pass, passes, site, dist>>

\* copyPrerenderedTree, one entry after the other, onto what earlier builds left.
copyPrerenderedTree ==
    /\ build.pc = "copy" /\ build.next \in DOMAIN build.rows
    /\ LET f == build.rows[build.next].file
           body == trees["scratch"].files[f]
       IN  \/ EndBuild("failed") /\ UNCHANGED dist
           \/ /\ body # NoFile
              /\ dist' = [dist EXCEPT !.files[f] = body]
              /\ build' = [build EXCEPT !.next = @ + 1]
              /\ UNCHANGED trees
    /\ UNCHANGED <<tables, release, pass, passes, site>>

\* copyStaticDir, which leaves _prerendered out, and writeOutputManifest.
writeOutputManifest ==
    /\ build.pc = "copy" /\ build.next \notin DOMAIN build.rows
    /\ \/ EndBuild("failed") /\ UNCHANGED dist
       \/ EndBuild("ok") /\ dist' = [dist EXCEPT !.rows = build.rows]
    /\ UNCHANGED <<tables, release, pass, passes, site>>

\* A killed Build leaves its scratch directory, and the binary running.
KillBuild ==
    /\ build.pc # "idle" /\ build' = NotBuilding("killed")
    /\ UNCHANGED <<tables, release, trees, pass, passes, site, dist>>

-----------------------------------------------------------------------------
NewRelease ==
    /\ release < Len(tables) /\ release' = release + 1
    /\ UNCHANGED <<tables, trees, pass, passes, site, build, dist>>

PrerenderInit ==
    /\ tables \in Sites /\ release = 1
    /\ trees = [d \in Places |-> EmptyTree]
    /\ pass = Finished(None) /\ passes = 0
    /\ site = Down
    /\ build = NotBuilding(None)
    /\ dist = [files |-> EmptyTree.files, rows |-> <<>>]

PassNext ==
    \/ NewRelease \/ RemoveOne \/ Plan \/ WriteJob \/ writePrerenderManifest \/ Return \/ KillPass
    \/ \E j \in pass.jobs : runOnePrerenderJob(j)

ServeNext == PassNext \/ Command \/ StartServer \/ StopServer

DeployNext ==
    \/ PassNext \/ RunBinary \/ ReadScratch \/ copyPrerenderedTree \/ writeOutputManifest \/ KillBuild
    \/ \E runner \in {"subprocess", "caller"}, strict \in BOOLEAN : StartBuild(runner, strict)

ServeSpec == PrerenderInit /\ [][ServeNext]_prerenderVars
DeploySpec == PrerenderInit /\ [][DeployNext]_prerenderVars

-----------------------------------------------------------------------------
(* Properties                                                               *)

\* Two jobs of a release that share a file ("/" and "/index"; a static route
\* and an entry of a dynamic one) overwrite each other's page.
Apart(n) ==
    LET jobs == planPrerenderJobs(tables[n])
    IN  \A j, k \in jobs : j.path # None /\ k.path # None /\ j # k => fileOf(j.path) # fileOf(k.path)

\* An answer from a prerendered file is the whole page that the pass behind
\* the server's table rendered for that path, and a protected page goes only
\* to a request the gate allowed, whatever was killed in between, as long as
\* no later pass has begun in the directory (servePrerendered of
\* server/prerender_serve.go; the removal first and the manifest last of
\* Server.Prerender in server/prerender.go).
ServedAsRendered ==
    site.up /\ ~site.stale =>
        \A p \in DOMAIN site.table, allow \in BOOLEAN :
            LET answer == servePrerendered(p, allow)
            IN  answer.body # Live /\ Apart(answer.from.page.release) =>
                    /\ answer.body = answer.from.page
                    /\ answer.body.path = p
                    /\ answer.body.protected => allow

\* After a Build that says it succeeded, the deploy tree holds, for every row
\* of its manifest, the page this Build's release rendered, also when an
\* earlier Build or its binary was killed half way (Build and
\* copyPrerenderedTree of adapter-static/adapter.go).
DeployedAsRendered ==
    build.outcome = "ok" /\ Apart(build.release) =>
        \A i \in DOMAIN dist.rows :
            LET e == dist.rows[i]
            IN  dist.files[e.file] = e.page /\ e.page.release = build.release

\* Whatever is served or deployed as prerendered is the page its manifest
\* stands for (Server.Prerender, servePrerendered, adapter-static Build).
AsRendered == ServedAsRendered /\ DeployedAsRendered

-----------------------------------------------------------------------------
(* What AsRendered rests on                                                 *)

\* What a pass over release n may render, and list.
Kinds == {"page", "redirect"}
JobsOf(n) == {j \in planPrerenderJobs(tables[n]) : j.path # None}
EntryFor(n, j, kind) ==
    [route |-> j.route, path |-> j.path, file |-> fileOf(j.path), protected |-> j.protected,
     page |-> PageOf(n, j.path, kind)]
EntriesOf(n) == {EntryFor(n, j, kind) : j \in JobsOf(n), kind \in Kinds}
JobOf(e) == [route |-> e.route, path |-> e.path, protected |-> e.protected]

Releases == DOMAIN tables
Jobs == UNION {planPrerenderJobs(tables[n]) : n \in Releases}
Bodies == {NoFile, Torn} \cup {e.page : e \in UNION {EntriesOf(n) : n \in Releases}}
Rows == UNION {Seq(EntriesOf(n)) : n \in Releases}

TreesTypeOK ==
    trees \in [Places -> [files : [Files -> Bodies], routes : BOOLEAN,
                          manifest : [state : {"none", "torn", "whole"}, rows : Rows]]]

PassTypeOK ==
    pass \in [pc : {"idle", "clean", "jobs", "write", "manifest", "report"}, place : Places,
              release : Releases, jobs : SUBSET Jobs, job : Jobs \cup {NoJob}, page : Bodies,
              entries : Rows, errors : Nat, result : {None, "ok", "failed", "killed"}]

PrerenderTypeOK ==
    /\ tables \in Sites /\ release \in Releases
    /\ TreesTypeOK /\ PassTypeOK

\* The files hold the pages of the rows, or what a removal has left of them.
Faithful(n, rows, files) ==
    /\ rows \in Seq(EntriesOf(n))
    /\ Apart(n) => \A i \in DOMAIN rows : files[rows[i].file] = rows[i].page
Remaining(n, rows, files) ==
    /\ rows \in Seq(EntriesOf(n))
    /\ Apart(n) => \A i \in DOMAIN rows : files[rows[i].file] \in {rows[i].page, NoFile}

TreesInv == \A d \in Places : \E n \in Releases : Remaining(n, trees[d].manifest.rows, trees[d].files)

\* A pass has no manifest until its files hold their pages, and a job that is
\* still to do, or being done, is none of those it lists.
PassInv ==
    LET at == trees[pass.place] IN
    /\ pass.pc = "clean" => pass.entries = <<>>
    /\ pass.pc \in {"jobs", "write", "manifest"} => at.manifest.rows = <<>>
    /\ pass.pc \in {"jobs", "write", "manifest", "report"} =>
          /\ pass.jobs \subseteq JobsOf(pass.release)
          /\ Faithful(pass.release, pass.entries, at.files)
          /\ \A i \in DOMAIN pass.entries : JobOf(pass.entries[i]) \notin pass.jobs
    /\ pass.pc = "write" =>
          /\ pass.job \in JobsOf(pass.release) \ pass.jobs
          /\ \E kind \in Kinds : pass.page = PageOf(pass.release, pass.job.path, kind)
          /\ \A i \in DOMAIN pass.entries : JobOf(pass.entries[i]) # pass.job
    /\ pass.pc = "report" => at.manifest.rows = pass.entries

CoreInv == PrerenderTypeOK /\ PassInv

\* A table that is not stale was loaded when no pass was at work, or is empty.
SiteInv ==
    /\ site = [up |-> site.up, table |-> site.table, stale |-> site.stale]
    /\ site.up /\ ~site.stale /\ DOMAIN site.table # {} =>
          /\ pass.pc \in {"idle", "report"}
          /\ \A p \in DOMAIN site.table : \E n \in Releases :
                LET e == site.table[p]
                IN  /\ e \in EntriesOf(n) /\ e.path = p
                    /\ Apart(n) => trees["out"].files[e.file] \in {e.page, NoFile}

ServeInv ==
    /\ CoreInv /\ TreesInv /\ SiteInv
    /\ pass.place = "out" /\ build = NotBuilding(None)

\* A Build has the scratch directory to itself and its own pass.
BuildInv ==
    LET scratch == trees["scratch"] IN
    /\ build.pc \in {"run", "wait"} => build.next = 1
    /\ build.pc = "run" => pass.pc = "idle" /\ scratch = EmptyTree
    /\ build.pc = "wait" =>
          \/ /\ pass.pc = "idle"
             /\ pass.result = "ok" => Faithful(build.release, scratch.manifest.rows, scratch.files)
          \/ pass.pc # "idle" /\ pass.place = "scratch" /\ pass.release = build.release
          \/ pass.pc # "idle" /\ pass.place = "joined" /\ scratch = EmptyTree
    /\ build.pc = "copy" =>
          /\ pass.pc = "idle"
          /\ Faithful(build.release, build.rows, scratch.files)
          /\ Apart(build.release) => \A i \in DOMAIN build.rows :
                i < build.next => dist.files[build.rows[i].file] = build.rows[i].page
    /\ build.outcome = "ok" => build.pc = "idle" /\ Faithful(build.release, dist.rows, dist.files)

BuildTypeOK ==
    /\ build \in [pc : {"idle", "run", "wait", "copy"}, runner : {"subprocess", "caller"},
                   strict : BOOLEAN, release : Releases, rows : Rows, next : Nat \ {0},
                   outcome : {None, "ok", "failed", "killed"}]
    /\ dist \in [files : [Files -> Bodies], rows : Rows]

DeployInv ==
    /\ CoreInv /\ BuildTypeOK /\ BuildInv
    /\ site = Down
=============================================================================
