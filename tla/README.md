# TLA+ models of the single-file library generator

These modules model `Support/SingleFileLibs/javascript` (under `src/`). The three
files are:

- `amalgamationCore.js` is the amalgamation engine. Given a library and a
  repository context (tree listing, file reads, version string,
  dependencies), it builds one header: the library's public headers, then
  its `.cpp` files, with every local include of the same library inlined once,
  and a banner with the aggregated copyright holders and SPDX ids.
- `app.js` is the browser page. It has a release selector, a token field, one
  download button per library, and "Download All" into a zip. It calls the
  engine with a GitHub-backed context.
- `cli.js` runs the engine over a local checkout, one library after another.

The page and the CLI drive the engine. The page's handlers run on one event
loop and interleave at every `await`. A single build is sequential.

## Inventory

| Part | State | Operations | Hard behaviour |
|---|---|---|---|
| Path helpers | none (pure) | `joinPath`, `libraryNameFromPath`, `isPublicHeader`, `resolveToPath` | `..` above the root; suffix matching without a `/` boundary |
| Order resolver | order file, listing | lines 160-180 | sidecar absent, unreadable, malformed or missing a field |
| Inliner | `processedSet`, recursion, per-file buffers | `processFileRecursively`, `amalgamateFilesRecursively` | cycles, self includes, failing reads, dedup across the two phases, cross-library includes |
| Aggregator | `authorsInfo` (insertion-ordered Map), `spdxSet` | lines 110-116, 208-210 | counts across phases, stable tie order |
| Assembler | result strings | lines 188-229 | implementation section only if `sources.trim()` is not empty |
| Line counter | `inBlock` | `countLoc` | `comments--`, `\r\n`, whitespace-only lines |
| Page: ref view | `currentRef`, `latestReleaseTag`, `libraryBriefByName`, version line, `init`'s progress | `init` (`getRepoMeta`, `loadDependenciesJson`, `populateReleases`), `onRefChanged`, `updateVersionInfo`, `refreshBriefsForRef` (6 workers), token change | failures the boot swallows, overlapping handlers, object replaced while workers run |
| Page: downloads | row runs, row buttons, `cancelController` | row click, `renderTableRows`, `downloadAllZip`, HUD cancel | ref read again after an await, cancel checked only at some points, a run outliving its row |
| CLI | `args`, the loop over libraries, outputs written | `parseArgs`, `listFilesRecursive`, `listTree`, `main` | readdir/stat failures, listing order, relative paths, exit status after a partial failure |
| Page: caches | `commitShaCache`, `fileContentCache` | `getCommitShaForRef`, `getRepoTree`, `fetchFileCached`, token change | a branch moving under a cached sha while files are fetched by name |

## Modules

- **`AmalgamationPaths`**: the path helpers. A path is its `split('/')`
  segment sequence, so `endsWith` is tested on the joined string,
  character by character.
- **`AmalgamationText`**: pure operators over a file's text. The text is
  abstracted to line kinds (code, blank, pragma, include with its token,
  copyright, SPDX), and an emitted line is identified by file and line number.
  The module also holds the banner, the trim-and-two-eols `Finish`, the
  include classification, author/SPDX recording and sorting, and the order
  resolution.
- **`AmalgamationCore`**: one `buildSingleLibraryHeaderUsingContext` call,
  step by step.
  - `processFileRecursively`'s recursion is an explicit stack of frames
    `[path, idx, content]`.
  - Actions:
    - `ResolveOrder`: lines 160-180.
    - `NextEntry`: the loop of `amalgamateFilesRecursively` with the
      `has`/`add` entry, lines 83-85.
    - `ReadOk` / `ReadFails`: the `readFile` await and its catch.
    - `ScanLine`: one iteration of lines 106-135.
    - `ReturnFile`: line 137 and the return to the caller or to the phase
      result.
    - `EndHeaders`: line 186, which shares the set.
    - `Assemble`: lines 188-229.
- **`AmalgamationSpec`**: what a build promises, in one step. Mutually
  recursive `ExpandFile`/`ExpandLines`/`ExpandList` compute the artifact for
  any set of failing reads. The banner's holders and ids are defined from the
  body (count descending, ties by first appearance). `AmalgamationCore`
  instantiates it with the identity mapping, and `AbstractSpec` checks the
  refinement.
- **`LineCounter`**: `countLoc` on the string itself, covering the split on
  `/\r?\n/`, `trim`, `startsWith` and `includes`.
- **`AppRefView`**: the page's boot and its handlers for a ref or token
  change.
  - `boot` is the await `init()` is at. The page starts on the literal
    `'main'` with no release tag (`latestTag = NoTag`).
    - `MetaFetched`: `getRepoMeta` answers with the default branch, or
      fails and is ignored.
    - `DepsFetched`: `Dependencies.json`, then the fallback path. A second
      failure rejects `init` (`boot = "failed"`): nothing else happens.
    - `ReleasesFetched`: `populateReleases` sets `latestReleaseTag` to the
      newest non-draft tag, or none (no release, or a failure, which is
      logged). `init` then calls `onRefChanged` in the same task
      (`StartInitialView`).
    - The token input works from the start. The select offers a choice
      only after `populateReleases`, so `OnRefChanged` needs
      `boot = "done"`.
  - Each call is a record stepped from await to await.
  - `briefObjs` keeps every `libraryBriefByName` object the page created,
    because `obj[name] = await ...` evaluates the object before the await.
  - Actions:
    - `OnRefChanged`
    - `TokenChanged`
    - `VersionSettled`: the sha answer, then the synchronous start of the
      workers.
    - `BriefFetched`
    - `Rendered`
- **`AppDownload`**: the row download and Download All with their cancels,
  racing `SelectRef`, pushes to the branch (`BranchMoved`) and the token
  change that clears the caches (`TokenChanged`).
  - A build is abstracted to the commit of its tree and the commits its
    files are read at.
  - `ShaFor`/`CacheSha` are `getCommitShaForRef` with `commitShaCache`.
  - `FileSha`/`CacheFiles` are `fetchFileCached`, which fetches by ref
    name, with `fileContentCache` (one entry per library's files).
  - A build also caches its ref's sha, as the build context's
    `getVersionString` calls `getCommitShaForRef`. The version text itself
    is left out.
  - A delivery records the libraries whose headers it holds (`libs`).
  - Row runs are named by the click that started them (`RunIds`). Each
    carries the rendering of its row (`gen`); `busy` is the disabled state of
    the buttons of the rows now in the table.
  - `Rerender` is `renderTableRows`: every row is rebuilt with an enabled
    button. `SingleCancel` needs the run's row to be the current one,
    because the old row's Cancel is no longer on the page. `EndRun` is the
    handler's `finally`, which enables the button it closed over.
- **`Cli`**: `cli.js`.
  - `ParseArgs` is `parseArgs` over the argument tokens.
  - `Walk`/`WalkNames` are `listFilesRecursive`, with failing `readdirSync`
    (unreadable directories) and `statSync` (dangling links).
  - `ListTree` is the context's `listTree`: the three roots and
    `substring(repoRoot.length + 1)`.
  - `Parse`, `MainStart`, `LoadDeps`, `Build` and `Write` are `main`'s steps.
    Each can throw into `main().catch`, which exits with status 1.
    `MainReturned` is the exit 0 once `main`'s promise resolves.
  - `RunStatus` maps `pc` and `exitCode` to the status CI sees. `Contract`
    instantiates `CliContract` with `written` as its outputs, `RunStatus`
    as its status and `ParseArgs` as its request.
- **`CliContract`**: what a run promises the CI job that diffs its outputs,
  from the header comment and the usage line. It writes headers of
  requested libraries only, one at a time. It ends `ok` only for `-h` or
  once every requested header is written; it may end `failed` at any
  point; nothing is written after it ends.
- **`MCCli`**: 144 checkouts of a library `Foo`, and a reference walk
  (the files below readable directories, sorted by segment sequence).

Each has an `MC*` module that fixes model values and small inputs.

`MCHelpers` composes `MCAmalgamationPaths`, `MCLineCounter` and `MCCli`.
The constant values it gives them are defined in `MCHelpers` itself:
`MCDirs`, `MCSegments`, `MCLineTexts`, `MCAlphabet`, `MCArgvs` and `MCDepNames`.
A value defined inside an instance and fed back as that instance's own
parameter forms a cycle, and TLC's coverage pass overflows the stack on it.

## Runs

| Run | What it shows |
|---|---|
| `helpers` | The sequential parts, each in its own initial states (`MCHelpers`). `joinPath` equals a reference normalisation over all tokens of up to 5 segments from two directories (`JoinPathNormalizes`). `countLoc` equals the spec 4.4 classification for texts as emitted, with either line ending (`CountLocMatchesSpec`). The CLI's `listTree` lists every readable file of every checkout once, in sorted depth-first order (`ListTreeIsSortedWalk`). Over all command lines of up to three tokens, the CLI's `main` implements `CliContract` (`MainImplementsContract`): it writes only requested headers, writes nothing after the exit, and exits 0 only for `-h` or after writing every requested header |
| `core_safety` | Inputs: all 1-2 line texts of `Foo.h`, `Internal/FooInternal.h` and `Foo.cpp` (self include, cycle, `..`, cross-library and unresolved includes, an include of `LibrariesExtra/Foo/FooExtra.h`, pragma, blanks), three order files, every set of failing reads (about 1.57M states). Checks: no file re-entered (`NoReentry`); no line emitted twice across phases (`EmittedOnce`); the inlined files are exactly the readable ones reachable from the named ones through includes that spec 4.2 expands, under either library root (`ReachableInlined`); the banner's holders and SPDX ids, counted while scanning, agree with the body (`LicenseBlockMatchesBody`) |
| `core_refinement` | every build returns (`Termination`, under weak fairness), and the stack machine implements the recursive `AmalgamationSpec` (`AbstractSpec`) |
| `ref_view` | From page load, with every failure of the boot's fetches and two ref or token changes overlapping it: every handler returns (`HandlersFinish`); once all are done the table has an entry per library (`QuiescentTableComplete`); once `Dependencies.json` is loaded, the table is eventually rendered, whatever `getRepoMeta` and `getReleases` did (`TableLoads`) |
| `app_download` | every zip Download All hands over holds every library's header, because a Cancel, a failed build or a ref change in the loop ends the run in `catch` (`ZipHasEveryLibrary`); a row's button is disabled exactly while a run started from that row is in flight, across re-renders (`RowButtonMatchesRuns`); with GitHub answering, every disabled download button is enabled again, whether the run succeeds, fails or is cancelled (`ButtonsReenabled`) |

Violation runs, each recorded as a finding in `PROJECT.json`:

- **`banner_top_level`**: `Foo.h` gets a provenance banner. Spec 4.2 and the
  section 8 scenario give banners to nested files only.
- **`unresolved_include`**: an include missing from the tree is copied into
  the output. Spec 7 says it is dropped.
- **`suffix_resolution`**: the entry `String.h` resolves to `SmallString.h`,
  because `endsWith` has no `/` boundary.
- **`stale_view`**: after overlapping ref changes settle, the page can show
  descriptions of the previous ref, or a version line with a sha of a ref no
  longer selected.
- **`zip_after_cancel`**: Download All delivers the zip after Cancel was
  clicked during the README/LICENSE/packaging awaits.
- **`mixed_refs`**: a delivered header is built from one commit's tree and
  another commit's files (`DeliveredFromOneCommit`).
  - Through a ref change during the download, because the handler reads
    `state.currentRef` again after the tree. TLC's shortest trace: click on
    `main`, select `v1`, `main`'s tree, build of `v1`'s files.
  - Through a push to the branch: `commitShaCache` keeps the old tree until
    a token change, while files are fetched by branch name. With
    `Refs = {main}` in the cfg, TLC's shortest trace is click, tree, push,
    build.
- **`listing_order`**: the CLI lists `Libraries/Foo/Foo/Posix.cpp` before
  `Foo.h` and `Foo.cpp`. The Git trees API that the browser gets lists them
  after. The derived source order and `resolveToPath`'s first match follow
  the listing, so the two backends build different artifacts from one
  commit.

Every property of a passing run has a mutant in `PROJECT.json`: an operator
defined just before the one it replaces, with one plausible bug, which the run
must reject.

## Bounds and why they suffice

- **Core.** One target library with a public header, an internal header
  and a source, a header of a library of the same name under
  `LibrariesExtra/`, plus a second library.
  - This is the smallest tree with both include directions (`Internal/` and
    `..`), a cycle, a file reached from both phases, and a cross-library
    include.
  - Two lines per file let an include sit before or after code, which makes
    the include-site order observable.
  - `MaxDepth = 4` is at least the number of target files, so it never cuts
    a correct build (an `ASSUME` states it).
  - Only `Foo.h` may include the `LibrariesExtra/` header, and that header
    has one code line. This is enough to show which root an include
    crosses to; the refinement run's texts leave it out.
  - The main run has copyright lines in `FooInternal.h` and `Foo.cpp` and an
    SPDX line in `Foo.cpp`. A holder can then be found first with a lower
    count, which exercises the stable sort by count.
  - Termination and refinement run on a smaller text alphabet, because
    liveness checking is costly. It keeps blanks, the cross-library include,
    the cycle and the `.cpp` reaching `Foo.h`.
- **Ref view.** Two refs, three libraries and two workers sharing the
  index. The workers are fewer than the libraries, so one loops while the
  other may still be fetching, and a worker takes a library after a switch.
  The `QuiescentTableComplete` mutant renders once the first worker is done.
  It is caught only with two or more workers. `MaxCalls = 2` user calls besides the boot's: a token change
  during the boot, then a ref change, or two ref changes.
- **Downloads.** A branch and a tag, two libraries (Download All loops),
  one push to the branch, one re-render, two clicks in the passing run and
  three in the violation runs. Two clicks are enough for a download after
  another one filled the caches, with a push between them. They are also
  enough for a run of a row, a re-render, and a second run of the same
  library from the new row.
- **CLI.** The checkouts vary a dangling public header, an optional
  source, a readable or unreadable `Internal/` and `Foo/`, and
  `LibrariesExtra/` absent, readable or unreadable. The command lines are
  every sequence of up to three tokens over the options and one value,
  which covers a value option at the end and `-h` anywhere. The repository
  root is `/r`. At `/` the relative paths lose a character: with
  `RepoRoot = "/"`, `ListTreeIsSortedWalk` fails. That is a listed hazard,
  and no run checks it.
- **Line counter.** Four lines from nine line shapes: blank, whitespace,
  code, `//`, open `/*`, closed `/* */`, closer, code-then-opener,
  closer-then-code.

## Fairness

- **Core.** `WF_vars(Next)`. A build is one chain of awaits on the context.
  Assuming the context's promises settle, the next step is always enabled and
  taken.
- **Ref view.** Weak fairness on the boot's steps, and on each call's version
  answer, brief answers and render. The network answers every request, and the user is not forced to
  act.
- **Downloads.** Weak fairness on each row run's tree and build answers,
  and on Download All's steps (its fetches, `sleep(50)` and
  `generateAsync`). The user's clicks, renders, ref and token changes and
  pushes are not forced.

## Not modelled, and the plan

- **Formatting.** Guards, dependency and version lines, `getLineEnding` and
  `divider` are fixed text or opaque strings.
- **Network.** The GitHub client's requests and its rate-limit and error
  messages are left out. Fetches succeed or fail nondeterministically. The
  version line's sha fetch, which also fills `commitShaCache`, belongs to
  `AppRefView`. In `AppDownload` the downloads fill the cache themselves.
- **CLI.** `ctx.readFile` and `getVersionString` (git through `execSync`)
  are left out: the build succeeds or throws. Windows separators
  (`replaceAll('\\', '/')`) are not modelled.
- **Lost row Cancel.** After a re-render (a keystroke in the filter, or
  the end of `onRefChanged`) a running row download has no Cancel on the
  page, although the header comment promises inline progress with Cancel.
  `AppDownload` models this (`SingleCancel` is disabled), but no run
  states it as a property.
- **Boot failure.** When both `Dependencies.json` fetches fail, `init`
  rejects and the page stays empty with no message. This is modelled
  (`boot = "failed"`). No property states it, because it is what the code
  does.
- **Row markup and the filter.** The filter's hiding of rows, links and
  the dependency toggle are left out: every row is in the table.
- **`LibrariesExtra/` orders.** The derived header and source orders and
  `resolveToPath` look only under `Libraries/`, as the code does. Spec 3
  does not say which root a library's public headers come from.
- **Next step.** The order of the GitHub tree listing in the core's MC
  trees, next to the CLI's.

