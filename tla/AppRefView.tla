----------------------------- MODULE AppRefView -----------------------------
(***************************************************************************)
(* The browser page's view of the selected ref (app.js): the release       *)
(* selector's change handler onRefChanged, updateVersionInfo (also fired  *)
(* by a token change), the brief workers of refreshBriefsForRef and the   *)
(* final renderTableRows, after the boot (init) that loads the repository *)
(* metadata, Dependencies.json and the releases list.                     *)
(*                                                                         *)
(* The page runs on one event loop; every await is a point where other    *)
(* handlers may run.  Each handler call is a record in `calls`, stepped   *)
(* from one await to the next.  JavaScript objects matter here:           *)
(* refreshBriefsForRef replaces state.libraryBriefByName by a new object, *)
(* and `state.libraryBriefByName[name] = await ...` evaluates the object  *)
(* before the await, so a write lands in the object that was current when *)
(* the worker took the library.  briefObjs holds every object created,    *)
(* curObj the one state.libraryBriefByName refers to.                     *)
(***************************************************************************)
EXTENDS Naturals, Sequences

CONSTANTS
    Refs,         \* names the selector offers (branches and tags)
    Tags,         \* the refs selected as "tag:<name>"
    InitialRef,   \* state.currentRef before getRepoMeta answers ('main')
    DefaultBranch,\* the repository's default_branch, as getRepoMeta reads it
    LatestTag,    \* the newest non-draft release, releases[0].tag_name
    LibraryNames, \* state.libraryNames, sorted
    Concurrency,  \* refreshBriefsForRef's worker count (6 in the code)
    MaxCalls      \* bound on handler calls (ref changes and token changes)

\* The text of a library's @brief at a ref; "" when the fetch failed.
Brief(r, l) == <<r, l>>
NoBrief == <<>>
\* A library not yet written into an object.
Unset == <<"unset">>

\* getCommitShaForRef(r).  versionInfo as a record, or "Version: unknown".
ShaOf(r) == <<"sha", r>>
Unknown == [tag |-> "unknown", sha |-> <<>>]

NLibs == Len(LibraryNames)

\* state.latestReleaseTag before populateReleases set it (null).
NoTag == "null"

\* releases[0].tag_name of getReleases' non-draft list, or none.
ReleaseTags == {NoTag, LatestTag}

VARIABLES
    currentRef,   \* state.currentRef (and currentRefType, fixed by the name)
    versionInfo,  \* the version line shown
    briefObjs,    \* every libraryBriefByName object created, in order
    curObj,       \* index of the one state.libraryBriefByName refers to
    rendered,     \* the description column as last rendered
    calls,        \* handler calls: onRefChanged or a token change
    latestTag,    \* state.latestReleaseTag
    boot          \* the await init() is at, "done" or "failed"

vars == <<currentRef, versionInfo, briefObjs, curObj, rendered, calls, latestTag, boot>>

\* The tag part of the version line for the current ref (line 560).
TagFor(r) == IF r \in Tags THEN r ELSE IF latestTag = NoTag THEN "unknown" ELSE latestTag

Idle == [lib |-> 0, obj |-> 0]

\* A call's state: its ref, the await it is at, and for onRefChanged the
\* refresh's shared idx and each runNext worker's library and target object.
NewCall(kind, r) ==
    [kind |-> kind, ref |-> r, pc |-> "version", idx |-> 0,
     work |-> [k \in 1 .. Concurrency |-> Idle]]

(***************************************************************************)
(* The synchronous part of runNext's loop: while idx < length, take        *)
(* i = idx++, evaluate state.libraryBriefByName (the object current now)   *)
(* and await the brief.  A worker finding no library left returns.         *)
(***************************************************************************)
\* Fault: while (idx <= length), one library past the end.
TakeNextPastEnd(c, k, obj) ==
    IF c.idx <= NLibs
    THEN [c EXCEPT !.idx = @ + 1, !.work[k] = [lib |-> c.idx + 1, obj |-> obj]]
    ELSE [c EXCEPT !.work[k] = Idle]

\* Fault: const i = idx, the shared index never advanced.
TakeNextStuck(c, k, obj) ==
    IF c.idx < NLibs
    THEN [c EXCEPT !.work[k] = [lib |-> c.idx + 1, obj |-> obj]]
    ELSE [c EXCEPT !.work[k] = Idle]

TakeNext(c, k, obj) ==
    IF c.idx < NLibs
    THEN [c EXCEPT !.idx = @ + 1, !.work[k] = [lib |-> c.idx + 1, obj |-> obj]]
    ELSE [c EXCEPT !.work[k] = Idle]

\* Every worker started in one synchronous run (Array.from(..., runNext)).
RECURSIVE StartWorkers(_, _, _)
StartWorkers(c, k, obj) ==
    IF k > Concurrency THEN c ELSE StartWorkers(TakeNext(c, k, obj), k + 1, obj)

(***************************************************************************)
(* The select's change handler up to its first await: currentRefType and  *)
(* currentRef set, updateVersionInfo started with state.currentRef.       *)
(***************************************************************************)
OnRefChanged(r) ==
    /\ boot = "done"
    /\ Len(calls) < MaxCalls
    /\ currentRef' = r
    /\ calls' = Append(calls, NewCall("select", r))
    /\ UNCHANGED <<versionInfo, briefObjs, curObj, rendered, latestTag, boot>>

\* The token input's change handler: caches cleared, updateVersionInfo
\* started (not awaited).
TokenChanged ==
    /\ Len(calls) < MaxCalls
    /\ calls' = Append(calls, NewCall("token", currentRef))
    /\ UNCHANGED <<currentRef, versionInfo, briefObjs, curObj, rendered, latestTag, boot>>

(***************************************************************************)
(* getCommitShaForRef settles.  The version line takes the sha of the ref *)
(* the call started with and the tag of state.currentRef as it is now.    *)
(* For onRefChanged, refreshBriefsForRef then runs synchronously up to    *)
(* its workers' first awaits, in a new object.                            *)
(***************************************************************************)
VersionSettled(i) ==
    /\ calls[i].pc = "version"
    /\ \E ok \in BOOLEAN :
          versionInfo' = IF ok THEN [tag |-> TagFor(currentRef), sha |-> ShaOf(calls[i].ref)]
                         ELSE Unknown
    /\ IF calls[i].kind = "select"
       THEN /\ briefObjs' = Append(briefObjs, [l \in 1 .. NLibs |-> Unset])
            /\ curObj' = Len(briefObjs) + 1
            /\ calls' = [calls EXCEPT ![i] =
                   [StartWorkers(calls[i], 1, Len(briefObjs) + 1) EXCEPT !.pc = "briefs"]]
       ELSE /\ calls' = [calls EXCEPT ![i].pc = "done"]
            /\ UNCHANGED <<briefObjs, curObj>>
    /\ UNCHANGED <<currentRef, rendered, latestTag, boot>>

(***************************************************************************)
(* fetchBriefForLibrary settles (it never rejects: a failed fetch gives   *)
(* ''); the brief is stored in the worker's object and the worker loops.  *)
(***************************************************************************)
BriefFetched(i, k) ==
    LET w == calls[i].work[k]
    IN  /\ calls[i].pc = "briefs"
        /\ w.lib # 0
        /\ \E b \in {Brief(calls[i].ref, LibraryNames[w.lib]), NoBrief} :
              briefObjs' = [briefObjs EXCEPT ![w.obj][w.lib] = b]
        /\ calls' = [calls EXCEPT ![i] = TakeNext(calls[i], k, curObj)]
        /\ UNCHANGED <<currentRef, versionInfo, curObj, rendered, latestTag, boot>>

\* Fault: only the first runNext awaited, not Promise.all of the workers.
RenderedAfterFirstWorker(i) ==
    /\ calls[i].pc = "briefs"
    /\ calls[i].work[1] = Idle
    /\ rendered' = briefObjs[curObj]
    /\ calls' = [calls EXCEPT ![i].pc = "done"]
    /\ UNCHANGED <<currentRef, versionInfo, briefObjs, curObj, latestTag, boot>>

\* Promise.all resolves; renderTableRows shows state.libraryBriefByName.
Rendered(i) ==
    /\ calls[i].pc = "briefs"
    /\ \A k \in 1 .. Concurrency : calls[i].work[k] = Idle
    /\ rendered' = briefObjs[curObj]
    /\ calls' = [calls EXCEPT ![i].pc = "done"]
    /\ UNCHANGED <<currentRef, versionInfo, briefObjs, curObj, latestTag, boot>>

(***************************************************************************)
(* init(), from one await to the next.  The page starts with the literal  *)
(* 'main' as its ref, no release tag and an empty table; the token input  *)
(* is live from the start, the select offers a choice only once           *)
(* populateReleases has filled it, after which init calls onRefChanged    *)
(* in the same task.                                                       *)
(***************************************************************************)
Init ==
    /\ currentRef = InitialRef
    /\ versionInfo = Unknown
    /\ briefObjs = << [l \in 1 .. NLibs |-> Unset] >>
    /\ curObj = 1
    /\ rendered = [l \in 1 .. NLibs |-> Unset]
    /\ calls = << >>
    /\ latestTag = NoTag
    /\ boot = "meta"

\* getRepoMeta settles; a failure is ignored and the ref stays 'main'.
MetaFetched ==
    /\ boot = "meta"
    /\ \E ok \in BOOLEAN : currentRef' = IF ok THEN DefaultBranch ELSE currentRef
    /\ boot' = "deps"
    /\ UNCHANGED <<versionInfo, briefObjs, curObj, rendered, calls, latestTag>>

(***************************************************************************)
(* loadDependenciesJson: 'Dependencies.json' beside the page, and on any  *)
(* failure '../../Dependencies/Dependencies.json'; a failure of that one  *)
(* rejects init, which nothing catches: the page stays as it is.          *)
(***************************************************************************)
DepsFetched ==
    /\ boot \in {"deps", "depsFallback"}
    /\ \E ok \in BOOLEAN :
          boot' = CASE ok -> "releases"
                    [] boot = "deps" -> "depsFallback"
                    [] OTHER -> "failed"
    /\ UNCHANGED <<currentRef, versionInfo, briefObjs, curObj, rendered, calls, latestTag>>

\* init's last step: onRefChanged('branch', state.defaultBranch), whose
\* first synchronous part is OnRefChanged's; state.defaultBranch is the ref.
StartInitialView ==
    /\ boot' = "done"
    /\ calls' = Append(calls, NewCall("select", currentRef))

\* Fault: getReleases not wrapped in try/catch; its failure rejects init.
ReleasesFetchedUncaught ==
    /\ boot = "releases"
    /\ \E ok \in BOOLEAN, tag \in ReleaseTags :
          IF ok THEN latestTag' = tag /\ StartInitialView
          ELSE boot' = "failed" /\ UNCHANGED <<calls, latestTag>>
    /\ UNCHANGED <<currentRef, versionInfo, briefObjs, curObj, rendered>>

(***************************************************************************)
(* populateReleases: getReleases settles with the non-draft releases,     *)
(* newest first, possibly none; a failure is logged and leaves none.      *)
(* releases[0] becomes state.latestReleaseTag.  Then init goes on.        *)
(***************************************************************************)
ReleasesFetched ==
    /\ boot = "releases"
    /\ \E tag \in ReleaseTags : latestTag' = tag
    /\ StartInitialView
    /\ UNCHANGED <<currentRef, versionInfo, briefObjs, curObj, rendered>>

Boot == MetaFetched \/ DepsFetched \/ ReleasesFetched

Next ==
    \/ Boot
    \/ \E r \in Refs : OnRefChanged(r)
    \/ TokenChanged
    \/ \E i \in DOMAIN calls :
          \/ VersionSettled(i)
          \/ Rendered(i)
          \/ \E k \in 1 .. Concurrency : BriefFetched(i, k)

(***************************************************************************)
(* The network answers every request: each pending await settles.  The    *)
(* user's changes are not forced.  The boot's call may come after         *)
(* MaxCalls token changes, hence one call more.                           *)
(***************************************************************************)
Fairness ==
    /\ WF_vars(Boot)
    /\ \A i \in 1 .. MaxCalls + 1 :
        /\ WF_vars(i \in DOMAIN calls /\ VersionSettled(i))
        /\ WF_vars(i \in DOMAIN calls /\ Rendered(i))
        /\ \A k \in 1 .. Concurrency : WF_vars(i \in DOMAIN calls /\ BriefFetched(i, k))

Spec == Init /\ [][Next]_vars /\ Fairness

-----------------------------------------------------------------------------
AllDone == boot = "done" /\ \A i \in DOMAIN calls : calls[i].pc = "done"

BriefValues == {Unset, NoBrief} \cup {Brief(r, LibraryNames[l]) : r \in Refs, l \in 1 .. NLibs}

TypeOK ==
    /\ currentRef \in Refs
    /\ latestTag \in ReleaseTags
    /\ boot \in {"meta", "deps", "depsFallback", "releases", "done", "failed"}
    /\ (boot = "done") <=> \E i \in DOMAIN calls : calls[i].kind = "select"
    /\ curObj = Len(briefObjs)
    /\ \A o \in DOMAIN briefObjs : briefObjs[o] \in [1 .. NLibs -> BriefValues]
    /\ rendered \in [1 .. NLibs -> BriefValues]
    /\ \A i \in DOMAIN calls :
          /\ calls[i].idx \in 0 .. NLibs
          /\ \A k \in 1 .. Concurrency : calls[i].work[k].lib \in 0 .. NLibs

(***************************************************************************)
(* Once every handler has returned, the description column has an entry  *)
(* for every library: the shared idx hands each library to one worker,    *)
(* and the last render waits for its own workers (Promise.all).           *)
(***************************************************************************)
QuiescentTableComplete ==
    AllDone => \A l \in 1 .. NLibs : rendered[l] # Unset

(***************************************************************************)
(* Every call of onRefChanged and every token-triggered updateVersionInfo *)
(* returns, however the user's changes overlap.                           *)
(***************************************************************************)
HandlersFinish ==
    \A i \in 1 .. MaxCalls + 1 :
        (i \in DOMAIN calls) ~> (i \in DOMAIN calls /\ calls[i].pc = "done")

(***************************************************************************)
(* Once Dependencies.json is loaded, the table is eventually rendered with *)
(* an entry for every library, whether getRepoMeta and getReleases        *)
(* answered or failed and however token changes overlap the boot: init    *)
(* swallows those two failures and always reaches onRefChanged.           *)
(***************************************************************************)
TableLoads ==
    (boot = "releases") ~> (\A l \in 1 .. NLibs : rendered[l] # Unset)

(***************************************************************************)
(* Once every handler has returned, the page shows the selected ref: the  *)
(* descriptions are that ref's briefs (or empty where a fetch failed) and *)
(* the version line is that ref's (or "unknown").  Two mechanisms break   *)
(* it.  A worker of an earlier refresh that takes a library after the     *)
(* switch writes its old ref's brief into the new object.  Overlapping    *)
(* updateVersionInfo calls settle out of order; each pairs the sha of the *)
(* ref it started with with the tag current when it settles, and an       *)
(* earlier onRefChanged settling last starts its refresh last.            *)
(***************************************************************************)
QuiescentViewMatchesRef ==
    AllDone =>
        /\ \A l \in 1 .. NLibs : rendered[l] \in {Brief(currentRef, LibraryNames[l]), NoBrief}
        /\ versionInfo \in {Unknown, [tag |-> TagFor(currentRef), sha |-> ShaOf(currentRef)]}
=============================================================================
