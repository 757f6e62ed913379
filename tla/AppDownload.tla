---------------------------- MODULE AppDownload ----------------------------
(***************************************************************************)
(* The page's two download paths (app.js): a row's "Generate / Download"  *)
(* button (disabled while its run is in flight; renderTableRows replaces  *)
(* every row, so a run outlives its row and the new row's button is       *)
(* enabled, its Cancel gone with the old row) and                         *)
(* "Download All" (one run: its button is disabled too), with their       *)
(* cancel buttons, racing the release selector, whose handler sets        *)
(* state.currentRef synchronously (onRefChanged, lines 587-588).           *)
(*                                                                         *)
(* A build is abstracted to the commits it reads: the commit of the tree  *)
(* it was given and those its files were fetched at (AmalgamationCore     *)
(* models the build itself).  A branch's head moves (someone pushes); a   *)
(* tag's does not.  getRepoTree resolves the ref through commitShaCache,  *)
(* while fetchFileCached fetches raw files by ref name through            *)
(* fileContentCache, one entry per library's files here; a token change   *)
(* clears both.  README.md and LICENSE.txt are not built and left out.    *)
(* Every await is a step; a fetch or build may reject.                    *)
(***************************************************************************)
EXTENDS Integers, Sequences

CONSTANTS
    Refs,          \* refs the selector offers
    Branches,      \* the refs that are branches; the others are tags
    DefaultBranch, \* state.currentRef at boot
    LibraryNames,  \* state.libraryNames
    MaxClicks,     \* bound on download button clicks
    MaxMoves,      \* bound on pushes to a branch
    MaxRenders     \* bound on renderTableRows calls after boot

NLibs == Len(LibraryNames)

\* A commit: the ref and how many pushes it had seen; a tag stays at 0.
Commit(r, n) == <<r, n>>
NoSha == -1

\* A delivered file: its kind, the commit of its tree, the commits its files
\* came from, the libraries whose headers it holds, and whether cancel had
\* been clicked when it was handed over.
Delivery(kind, tree, files, libs, cancelled) ==
    [kind |-> kind, tree |-> tree, files |-> files, libs |-> libs, cancelled |-> cancelled]

\* A run; lib and gen are a row run's library and the rendering of its row.
IdleRun == [pc |-> "idle", treeRef |-> DefaultBranch, treeSha |-> 0, buildRef |-> DefaultBranch,
            files |-> {}, libs |-> {}, aborted |-> FALSE, i |-> 1, lib |-> 1, gen |-> 0]

\* Row runs are named by the click that started them.
RunIds == 1 .. MaxClicks

VARIABLES
    currentRef,    \* state.currentRef
    single,        \* per click: the row click handler's run
    rowGen,        \* renderTableRows calls so far: the rows now in the table
    busy,          \* per library: the current row's button is disabled
    all,           \* downloadAllZip's run; aborted is its controller's signal
    controller,    \* state.cancelController # null
    downloads,     \* files handed to triggerDownload, in order
    clicks,        \* clicks so far
    head,          \* each branch's head commit on GitHub
    shaCache,      \* commitShaCache, for branches
    fileCache      \* state.fileContentCache: per branch and library

cacheVars == <<head, shaCache, fileCache>>
rowVars == <<rowGen, busy>>
vars == <<currentRef, single, all, controller, downloads, clicks, cacheVars, rowVars>>

\* The commit a fetch by name reaches now.
HeadOf(r) == IF r \in Branches THEN head[r] ELSE 0

\* getCommitShaForRef(r): the cached sha, or the head now, which is cached.
ShaFor(r) == IF r \in Branches /\ shaCache[r] # NoSha THEN shaCache[r] ELSE HeadOf(r)
CacheSha(r) ==
    shaCache' = IF r \in Branches THEN [shaCache EXCEPT ![r] = ShaFor(r)] ELSE shaCache

\* fetchFileCached(r, path) for library l's files: cached text or raw by name.
FileSha(r, l) == IF r \in Branches /\ fileCache[r][l] # NoSha THEN fileCache[r][l] ELSE HeadOf(r)
CacheFiles(r, l) ==
    fileCache' = IF r \in Branches THEN [fileCache EXCEPT ![r][l] = FileSha(r, l)] ELSE fileCache

\* onRefChanged up to its first await.
SelectRef(r) ==
    /\ currentRef' = r
    /\ UNCHANGED <<single, all, controller, downloads, clicks, cacheVars, rowVars>>

\* A push to a branch on GitHub.
BranchMoved(b) ==
    /\ head[b] < MaxMoves
    /\ head' = [head EXCEPT ![b] = @ + 1]
    /\ UNCHANGED <<currentRef, single, all, controller, downloads, clicks, shaCache, fileCache, rowVars>>

\* The token input's change handler clears the caches (lines 620-622).
TokenChanged ==
    /\ shaCache' = [b \in Branches |-> NoSha]
    /\ fileCache' = [b \in Branches |-> [l \in 1 .. NLibs |-> NoSha]]
    /\ UNCHANGED <<currentRef, single, all, controller, downloads, clicks, head, rowVars>>

(***************************************************************************)
(* Row button (lines 333-371): disabled, getRepoTree(state.currentRef)    *)
(* awaited, the abort checked, buildSingleLibraryHeader(name,             *)
(* state.currentRef, tree) awaited, the abort checked, the file handed   *)
(* over.  Any rejection or a seen abort goes to catch and finally, which *)
(* enables the button of the row the run was started from.               *)
(***************************************************************************)
SingleClicked(l) ==
    /\ ~busy[l]
    /\ clicks < MaxClicks
    /\ clicks' = clicks + 1
    /\ single' = [single EXCEPT ![clicks + 1] =
                    [IdleRun EXCEPT !.pc = "tree", !.treeRef = currentRef, !.lib = l, !.gen = rowGen]]
    /\ busy' = [busy EXCEPT ![l] = TRUE]
    /\ UNCHANGED <<currentRef, all, controller, downloads, cacheVars, rowGen>>

\* The run's Cancel can be clicked only while its row is in the table.
SingleCancel(id) ==
    /\ single[id].pc # "idle"
    /\ single[id].gen = rowGen
    /\ single' = [single EXCEPT ![id].aborted = TRUE]
    /\ UNCHANGED <<currentRef, all, controller, downloads, clicks, cacheVars, rowVars>>

\* Fault: finally enables the button of the library's current row.
EndRunByName(id) ==
    /\ single' = [single EXCEPT ![id] = IdleRun]
    /\ busy' = [busy EXCEPT ![single[id].lib] = FALSE]

\* finally: btn.disabled = false on the button the handler closed over.
EndRun(id) ==
    /\ single' = [single EXCEPT ![id] = IdleRun]
    /\ busy' = IF single[id].gen = rowGen THEN [busy EXCEPT ![single[id].lib] = FALSE] ELSE busy

\* Fault: an abort seen after the tree returns before the try, skipping finally.
SingleTreeFetchedReturnOnAbort(id) ==
    LET run == single[id]
    IN  /\ run.pc = "tree"
        /\ \E ok \in BOOLEAN :
              /\ CASE ok /\ ~run.aborted ->
                        /\ single' = [single EXCEPT ![id] = [run EXCEPT !.pc = "build",
                                         !.treeSha = ShaFor(run.treeRef), !.buildRef = currentRef]]
                        /\ UNCHANGED busy
                   [] ok -> single' = [single EXCEPT ![id] = IdleRun] /\ UNCHANGED busy
                   [] OTHER -> EndRun(id)
              /\ IF ok THEN CacheSha(run.treeRef) ELSE UNCHANGED shaCache
        /\ UNCHANGED <<currentRef, all, controller, downloads, clicks, head, fileCache, rowGen>>

\* The tree settles at the commit its ref resolved to; the build starts
\* with state.currentRef as it is now.
SingleTreeFetched(id) ==
    LET run == single[id]
    IN  /\ run.pc = "tree"
        /\ \E ok \in BOOLEAN :
              /\ IF ok /\ ~run.aborted
                 THEN /\ single' = [single EXCEPT ![id] = [run EXCEPT !.pc = "build",
                                      !.treeSha = ShaFor(run.treeRef), !.buildRef = currentRef]]
                      /\ UNCHANGED busy
                 ELSE EndRun(id)
              /\ IF ok THEN CacheSha(run.treeRef) ELSE UNCHANGED shaCache
        /\ UNCHANGED <<currentRef, all, controller, downloads, clicks, head, fileCache, rowGen>>

\* The build settles: it read the library's files by name at buildRef, and
\* its version line resolved buildRef's sha through getCommitShaForRef,
\* which caches it.
SingleBuilt(id) ==
    LET run == single[id]
    IN  /\ run.pc = "build"
        /\ \E ok \in BOOLEAN :
              /\ downloads' = IF ok /\ ~run.aborted
                              THEN Append(downloads, Delivery("single", Commit(run.treeRef, run.treeSha),
                                          {Commit(run.buildRef, FileSha(run.buildRef, run.lib))},
                                          {run.lib}, run.aborted))
                              ELSE downloads
              /\ IF ok THEN CacheFiles(run.buildRef, run.lib) /\ CacheSha(run.buildRef)
                 ELSE UNCHANGED <<fileCache, shaCache>>
              /\ EndRun(id)
        /\ UNCHANGED <<currentRef, all, controller, clicks, head, rowGen>>

(***************************************************************************)
(* renderTableRows (lines 309-332), from the filter's input handler or at *)
(* the end of onRefChanged: the tbody is emptied and every row built      *)
(* anew with an enabled button.  Runs in flight keep their closures over  *)
(* the detached row: its progress and Cancel are no longer on the page.   *)
(***************************************************************************)
Rerender ==
    /\ rowGen < MaxRenders
    /\ rowGen' = rowGen + 1
    /\ busy' = [l \in 1 .. NLibs |-> FALSE]
    /\ UNCHANGED <<currentRef, single, all, controller, downloads, clicks, cacheVars>>

(***************************************************************************)
(* downloadAllZip (lines 434-491).  The button disables itself, a new     *)
(* AbortController becomes state.cancelController, and the tree of        *)
(* state.currentRef is awaited (JSZip is taken as loaded).  finally        *)
(* aborts and clears the controller and enables the button.               *)
(***************************************************************************)
AllFinish ==
    /\ all' = IdleRun
    /\ controller' = FALSE

DownloadAllClicked ==
    /\ all.pc = "idle"
    /\ clicks < MaxClicks
    /\ clicks' = clicks + 1
    /\ all' = [IdleRun EXCEPT !.pc = "tree", !.treeRef = currentRef]
    /\ controller' = TRUE
    /\ UNCHANGED <<currentRef, single, downloads, cacheVars, rowVars>>

\* The HUD's Cancel: aborts state.cancelController if there is one.
HudCancel ==
    /\ controller
    /\ all' = [all EXCEPT !.aborted = TRUE]
    /\ UNCHANGED <<currentRef, single, controller, downloads, clicks, cacheVars, rowVars>>

\* Fault: if (signal.aborted) break; the loop left, the zip still made.
LoopHeadBreakOnAbort(run) ==
    /\ all' = IF run.aborted THEN [run EXCEPT !.pc = "readme"]
              ELSE [run EXCEPT !.pc = "build", !.buildRef = currentRef]
    /\ UNCHANGED controller

\* The loop head: the abort checked, the next library built with the
\* ref current now; past the last library, README.md is fetched.
LoopHead(run) ==
    IF run.aborted THEN AllFinish
    ELSE /\ all' = [run EXCEPT !.pc = "build", !.buildRef = currentRef]
         /\ UNCHANGED controller

AllTreeFetched ==
    /\ all.pc = "tree"
    /\ \E ok \in BOOLEAN :
          /\ IF ok /\ ~all.aborted
             THEN LoopHead([all EXCEPT !.treeSha = ShaFor(all.treeRef)])
             ELSE AllFinish
          /\ IF ok THEN CacheSha(all.treeRef) ELSE UNCHANGED shaCache
    /\ UNCHANGED <<currentRef, single, downloads, clicks, head, fileCache, rowVars>>

\* The library's header settles and is added to the zip.
AllLibBuilt ==
    /\ all.pc = "build"
    /\ \E ok \in BOOLEAN :
          IF ok THEN /\ all' = [all EXCEPT !.pc = "sleep",
                                   !.files = @ \cup {Commit(all.buildRef, FileSha(all.buildRef, all.i))},
                                   !.libs = @ \cup {all.i}]
                     /\ CacheFiles(all.buildRef, all.i)
                     /\ CacheSha(all.buildRef)
                     /\ UNCHANGED controller
          ELSE AllFinish /\ UNCHANGED <<fileCache, shaCache>>
    /\ UNCHANGED <<currentRef, single, downloads, clicks, head, rowVars>>

\* Fault: for (i = 0; i <= length; i++), one library past the end.
AllSleptPastEnd ==
    /\ all.pc = "sleep"
    /\ IF all.i + 1 <= NLibs + 1
       THEN LoopHead([all EXCEPT !.i = @ + 1])
       ELSE /\ all' = [all EXCEPT !.pc = "readme"]
            /\ UNCHANGED controller
    /\ UNCHANGED <<currentRef, single, downloads, clicks, cacheVars, rowVars>>

\* await sleep(50) returns; done++ and the for-of moves on.
AllSlept ==
    /\ all.pc = "sleep"
    /\ IF all.i + 1 <= NLibs
       THEN LoopHead([all EXCEPT !.i = @ + 1])
       ELSE /\ all' = [all EXCEPT !.pc = "readme"]
            /\ UNCHANGED controller
    /\ UNCHANGED <<currentRef, single, downloads, clicks, cacheVars, rowVars>>

\* README.md settles (a failure is swallowed); LICENSE.txt is fetched.
ReadmeFetched ==
    /\ all.pc = "readme"
    /\ all' = [all EXCEPT !.pc = "license"]
    /\ UNCHANGED <<currentRef, single, controller, downloads, clicks, cacheVars, rowVars>>

\* LICENSE.txt settles (a failure is swallowed); zip.generateAsync awaited.
LicenseFetched ==
    /\ all.pc = "license"
    /\ all' = [all EXCEPT !.pc = "zip"]
    /\ UNCHANGED <<currentRef, single, controller, downloads, clicks, cacheVars, rowVars>>

\* The blob is ready and handed over; finally runs.
Zipped ==
    /\ all.pc = "zip"
    /\ downloads' = Append(downloads, Delivery("zip", Commit(all.treeRef, all.treeSha), all.files, all.libs, all.aborted))
    /\ AllFinish
    /\ UNCHANGED <<currentRef, single, clicks, cacheVars, rowVars>>

(***************************************************************************)
(* The page has booted on the default branch with empty caches (the      *)
(* version line's sha fetch, which also fills commitShaCache, belongs to  *)
(* AppRefView; here the downloads fill it themselves).                    *)
(***************************************************************************)
Init ==
    /\ currentRef = DefaultBranch
    /\ single = [id \in RunIds |-> IdleRun]
    /\ rowGen = 0
    /\ busy = [l \in 1 .. NLibs |-> FALSE]
    /\ all = IdleRun
    /\ controller = FALSE
    /\ downloads = << >>
    /\ clicks = 0
    /\ head = [b \in Branches |-> 0]
    /\ shaCache = [b \in Branches |-> NoSha]
    /\ fileCache = [b \in Branches |-> [l \in 1 .. NLibs |-> NoSha]]

Next ==
    \/ \E r \in Refs : SelectRef(r)
    \/ \E b \in Branches : BranchMoved(b)
    \/ TokenChanged
    \/ \E l \in 1 .. NLibs : SingleClicked(l)
    \/ \E id \in RunIds : SingleCancel(id) \/ SingleTreeFetched(id) \/ SingleBuilt(id)
    \/ Rerender
    \/ DownloadAllClicked \/ HudCancel \/ AllTreeFetched \/ AllLibBuilt \/ AllSlept
    \/ ReadmeFetched \/ LicenseFetched \/ Zipped

(***************************************************************************)
(* GitHub answers every request and sleep(50) returns: each await of a    *)
(* download settles.  The user's clicks, renders, ref and token changes   *)
(* and pushes are not forced.                                             *)
(***************************************************************************)
Fairness ==
    /\ \A id \in RunIds : WF_vars(SingleTreeFetched(id)) /\ WF_vars(SingleBuilt(id))
    /\ WF_vars(AllTreeFetched \/ AllLibBuilt \/ AllSlept \/ ReadmeFetched \/ LicenseFetched \/ Zipped)

Spec == Init /\ [][Next]_vars /\ Fairness

-----------------------------------------------------------------------------
Shas == {NoSha} \cup 0 .. MaxMoves

TypeOK ==
    /\ currentRef \in Refs
    /\ \A id \in RunIds : single[id].pc \in {"idle", "tree", "build"}
    /\ rowGen \in 0 .. MaxRenders
    /\ all.pc \in {"idle", "tree", "build", "sleep", "readme", "license", "zip"}
    /\ all.i \in 1 .. NLibs
    /\ controller <=> all.pc # "idle"
    /\ shaCache \in [Branches -> Shas]
    /\ fileCache \in [Branches -> [1 .. NLibs -> Shas]]

(***************************************************************************)
(* Every zip handed over holds the header of every library: downloadAllZip *)
(* leaves its for-of only by running past the last name, a failed build   *)
(* or an abort seen at the loop head throwing to catch instead, so a      *)
(* Cancel, a rejection or a ref change in the middle of the loop never    *)
(* yields a partial SaneCppLibraries_SingleFiles zip.                     *)
(***************************************************************************)
ZipHasEveryLibrary ==
    \A k \in DOMAIN downloads : downloads[k].kind = "zip" => downloads[k].libs = 1 .. NLibs

(***************************************************************************)
(* The button of a library's row in the table is disabled exactly while  *)
(* a run started from that row is in flight, however renders and runs    *)
(* interleave: a run outliving its row must not enable the new row's     *)
(* button while the new row's own run is in flight (nor leave it         *)
(* disabled), since finally acts on the button its handler closed over.  *)
(***************************************************************************)
RowButtonMatchesRuns ==
    \A l \in 1 .. NLibs :
        busy[l] <=> \E id \in RunIds : single[id].pc # "idle" /\ single[id].lib = l /\ single[id].gen = rowGen

(***************************************************************************)
(* Every download button that a click disabled is enabled again, whether  *)
(* its run succeeds, fails or is cancelled: a row's button by the finally *)
(* of the run started from it (or by a re-render), Download All's by its  *)
(* finally.                                                               *)
(***************************************************************************)
ButtonsReenabled ==
    /\ \A l \in 1 .. NLibs : busy[l] ~> ~busy[l]
    /\ (all.pc # "idle") ~> (all.pc = "idle")

(***************************************************************************)
(* The HUD's Cancel stops Download All: no zip is handed over once it was *)
(* clicked (the header comment's "Global HUD progress with Cancel").  The *)
(* abort is checked only before each library, not across the README,      *)
(* LICENSE and generateAsync awaits.                                      *)
(***************************************************************************)
ZipCancelHonoured ==
    \A k \in DOMAIN downloads : downloads[k].kind = "zip" => ~downloads[k].cancelled

(***************************************************************************)
(* Every header handed over was built from the commit of the tree that   *)
(* resolved its files.  Both paths read state.currentRef again after      *)
(* awaiting the tree; the tree comes from the sha commitShaCache first    *)
(* saw for the ref while raw files are fetched by the ref's name, at the  *)
(* branch's head now or from fileContentCache.                            *)
(***************************************************************************)
DeliveredFromOneCommit ==
    \A k \in DOMAIN downloads : downloads[k].files = {downloads[k].tree}
=============================================================================
