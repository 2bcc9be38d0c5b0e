# TLA+ models of steamdepot

steamdepot is a Rust client that logs in to Steam's CM servers over a WebSocket,
resolves the depots of an app, fetches their manifests and downloads their chunks
from Steam's CDN into an install directory. This directory holds TLA+ models of
its control: what runs concurrently, what fails, what is retried, and what a
caller may rely on afterwards. Paths below are relative to the repository root.

## The system

| Component | Source | State it keeps | Operations | How it can go wrong |
|---|---|---|---|---|
| CDN server pool | `steamdepot/src/cdn.rs` 50-99 | server list, penalty per host, auth tokens with expiry | `pick_server`, `penalize`, token get/set | picks and penalties of concurrent tasks interleave; tokens expire |
| Chunk download | `steamdepot/src/download.rs` 123-360 | semaphore, task set, retry counters, files | `download_depot` and what it calls | aborts, late blocking writes, lost permits, retry rules |
| Progress reporting | `download.rs` 213-222, `steamdepot-cli/src/main.rs` 357-403 | relaxed counters, `last_pct`, throttle | `fetch_add`/`load`, `Log::progress` | stale loads, lost compare-exchange, lines out of order, swallowed last line |
| CM requests | `steamdepot/src/connection.rs` 183-275, `cdn.rs` 109-276, `pics.rs` | `NEXT_JOB_ID`, requests under way | service calls, PICS, licence and key calls | late and reordered answers, timeouts, no job id, no timeout, a send outside the timeout |
| CM connection and session | `connection.rs` 57-165, 279-317, `login.rs`, `session.rs` | sink behind a mutex, session, heartbeat task | connect, login, heartbeat, send, shutdown, drop | heartbeat races, stale session header |
| CM stream | `connection.rs` 319-470 | queue of unpacked messages | `recv`, `unpack_multi`, `recv_raw` | order of nested Multi messages, truncated ones |
| Manifest fetching | `steamdepot/src/depot.rs` 136-255, `cdn.rs` 284-400 | server list, request code, tokens, last error | `fetch_manifests`, `download_manifest` | 403 and tokens inside the rotation, expired codes |
| Download plan | `depot.rs` 53-134, 261-342 | depots, keys, licence cache | `prepare_download`, `resolve_depots` | partial failure, cache against server |
| Install tree | `download.rs` 28-121 | directories, files, links | `decrypt_manifest_filenames`, `prepare_directory_tree` | reruns, late writes of an earlier run, half decrypted names |
| Steam mail server | `steam-mail/src/lib.rs` | SMTP sessions, channel of 16 items | SMTP verbs, `recv*`, extraction | full channel, discarded items, a 250 that is not delivered, wrong code |
| Pure algorithms | `download.rs` 360-474, `keyvalues.rs`, `crypto.rs`, `cdn.rs` 346-400 | none | Adler-32, decompression, parsers, AES | boundaries |
| Auth flow | `auth.rs`, `login.rs` 67-290 | auth session, guard code, tokens | `begin`, `submit_guard`, `poll` | stale codes, silent connections, a changed key |
| CLI | `steamdepot-cli/src/main.rs` 444-592 | options, cursor in the plan, output | composes all of the above | an error in the middle of the composition, depots that share paths or reach them through links |

The CLI runs the parts in this order on one connection: login, heartbeat, product
info, optionally one depot key, then for an app to download: product info,
licence, one key per depot, server list, request code and manifest per depot, and
for each depot filename decryption, directory tree, chunk download. Only three
things run concurrently: the chunk tasks of one `download_depot` (with the
blocking threads that write their files), the heartbeat with everything else,
and the SMTP sessions of the mail server. The tasks share the server pool (a
mutex), the semaphore, two relaxed counters and the progress callback.

What makes the parts correct:

- *Pool*: concurrent failures rotate away from a bad host without running away
  from the other scores.
- *Chunk download*: Ok means every region of every file holds its chunk; no
  region is written twice or with bytes the checksum refused; permits are
  conserved; every failure reaches the caller; the call returns and leaves
  nothing running; a transient error never ends a chunk early.
- *Progress*: no percentage is announced twice or unreached, the last line appears.
- *CM requests*: an answer belongs to the request of the call that returns it;
  a call with a timeout returns once its send has ended.
- *Session*: one writer at a time, nothing after the logoff, no heartbeat of a
  connection that was dropped.
- *Stream*: every known message once, in the order it was sent.
- *Manifest fetching and tokens*: Ok means a manifest for every depot; a token
  goes only to the depot and host it was made for.
- *Plan*: licences before keys, a cache that says what was asked, every depot of the
  branch and system that were asked for and no other.
- *Install tree and command line*: a run that finishes has installed its version
  whatever an earlier one left, but for blocks that writes of an earlier one of the
  same process still take; what a line announces is in the directory.
- *Mail*: an acknowledged mail is delivered, and acknowledged once; its code is found.
- *Auth*: tokens come from a confirmed session, and the flow ends.
- *Pure algorithms*: sums that never wrap, sections that are whole, texts that
  parse to what was printed.

## Modules

- `InstallContract` is the abstract specification of `download_depot`: one region
  per chunk (`content`), one outcome. `Put` writes a region once, over the zeros
  of the fresh file, with the chunk's bytes or a torn write (or anything, for a
  chunk the manifest gives no checksum for) and not after Ok; `Succeed` needs all
  regions to hold their chunk; `Fail` may come at any time, and regions may still
  be written after it.
- `CdnPool` holds the operations of the pool: `Picks` is `pick_server` (lowest
  score, first in list order), `Penalize` is `penalize`. Scores belong to host
  names, which several servers may share.
- `DepotDownload` models `download_depot`, `download_chunk_with_retry`,
  `fetch_and_process` and `is_retryable`. `Spawn` takes a permit and spawns one
  task; `PickServer`, `FetchOk`, `Retry`, `GiveUp` and `ChunkDone` are the lock
  sections and awaits of a task; `BlockingWrite` is the closure given to
  `spawn_blocking`, which goes on when its task is dropped; `JoinOk`, `JoinErr`
  and `ReturnOk` are the join loop, which starts after the last spawn; `Cancel`
  is the drop of a task after `abort_all`. An error is one of seven classes:
  `busy` (a status `is_retryable` lists), `net` (connect or timeout), `status`
  (another status), `body` (the response broke off), `corrupt` (decryption,
  decompression or checksum), `open` and `io` (the write). For those that end as
  `Error::Other` text the retry decision depends on digits that may occur in that
  text; the model leaves that open. `INSTANCE InstallContract WITH content <-
  region, outcome <- result` is the refinement mapping.
- `ChunkProgress` models the epilogue of a chunk task and `Log::progress`. A
  relaxed load returns any value not older than what the task itself has seen,
  so each counter that is loaded without a read-modify-write keeps its history.
  In human mode the mutex makes the decision and the line one step; in JSON mode
  loading `last_pct`, exchanging it and printing are three, so lines may come out in
  another order than the thresholds were raised.
- `CmCalls` models the requests a client makes over one connection, one after
  the other. `content` calls are the service methods of `cdn.rs` with their
  retry loop, `auth` calls those of `login.rs` without it; `info`, `key` and
  `license` are the calls of `pics.rs`. The CM (external) answers each request
  at most once, late, in any order or never, sends unrelated messages and frames
  that do not decode, and hangs up. A send needs the sink (`sink`), whose lock a
  heartbeat may hold over a write that hangs, or whose socket may take nothing more
  (`Congestion`); it is awaited before the timeout of the call begins. The caller may
  drop a call anywhere (`Drop`).
- `CmStream` models the reader: taking a frame (`Recv`), `Unpack` and the queue between
  them, with calls of `recv` dropped by the timeout around them. `MessageFeed` is
  its abstract specification, one queue of messages; `MCConnection` maps the parts
  in the queue and the frames behind them on the wire to it (`Messages(Unread)`).
  A frame is a message or a Multi of at most two levels.
- `CmSession` models the connection as a session: the sink behind its mutex with
  each await of a write, heartbeat tasks, both logins, requests as writes,
  `shutdown` and drop. An aborted task ends at an await; a caller may drop the
  connection at any of its own.
- `ManifestFetch` extends `CdnPool` (with its token operators) and models
  `fetch_manifests`, `download_manifest` and `get_cdn_auth_token`; after it the
  chunk requests look tokens up while the clock moves. A CM call is one step, its
  inside is in `CmCalls`.
- `DepotResolution` holds `resolve_depots` as operators, `PrepareDownload` models
  `prepare_download` call by call: licence, keys, a partial failure at each, and a
  new login in between.
- `InstallTree` models `prepare_directory_tree` and the chunk writes over a tree
  that runs of other versions left behind. A run ends with its process (`CutOff`), on
  an error, or when a fetch fails and its tasks are aborted (`Abort`); in the latter
  two the blocking writes that were handed out go on (`pending`), and when a later run
  of the same process begins they become `late` and land when they like
  (`LateWrite`), at their path or where a link leads. What such a write leaves in a
  block is `Stray`, unless it is of the version being installed.
- `Ciphers` holds the padding and length checks of `crypto.rs`; AES is a function
  that inverts encryption under its key. `ManifestNames` models
  `decrypt_manifest_filenames`, which works in place.
- `SteamMail` models SMTP sessions, the bounded channel with its queue of waiting
  senders, and the three receiving calls. The send into the channel (`Sent`) and the
  250 after it (`Acknowledge`) are two steps, between which the client may be gone
  (`Leave`); then it sends the mail again in another session. `MailText` holds
  `decode_quoted_printable`, `extract_guard_code` and `extract_verification_link` over
  sequences of characters; the decoder makes a character of each byte, so a letter
  that is no ASCII comes out as two.
- `Adler32` runs the block-wise sums beside the defined checksum. `ManifestBody`
  models how a manifest response is unpacked and its sections read.
- `KeyValues` models the parser, one iteration of `parse_map` per step and a stack
  for its recursion.
- `AuthFlow` models `auth.rs` and the login helpers it calls, with a caller that
  waits for its mail and a Steam that hangs up on silent connections. A key or a code
  that Steam refuses is an error of the call and, through `?`, the end of the flow.
- `Cli` is `main`: every call it awaits is one step that succeeds or fails, `?`
  is `QuestionMark`, and the depots of one app may share paths: two may list the same
  file, or one a file where another has a link. `File::create` and `open` follow the
  links that earlier depots left (`Places`).
- The `MC` modules give the constants their small values. Where several modules
  belong to one half of the system that share no state, one `MC` module runs all of
  them: its variable `part` says at the start which one this behaviour runs, and the
  others stay where they begin. `MCConnection` holds `CmSession` and `CmStream`,
  `MCDepot` `PrepareDownload` and `ManifestFetch`, `MCInstall` `ManifestNames`,
  `Ciphers` and `InstallTree`, `MCOutput` `ChunkProgress` and `Cli`, `MCMail`
  `SteamMail`, `MailText` and `AuthFlow`, `MCFormats` `Adler32`, `ManifestBody` and
  `KeyValues`. The one call of a pure function (`Decrypt`, `Read`) and what is
  expected of it are written beside the inputs.
- The `Proofs` modules hold the theorems, for one component (`DepotDownloadProofs`,
  `CmCallsProofs`) or for those that an `MC` module runs (`ConnectionProofs`,
  `DepotProofs`, `InstallProofs`, `OutputProofs`, `MailProofs`, `FormatsProofs`, which
  extend `MCConnection`, `MCDepot`, `MCInstall`, `MCOutput`, `MCMail`, `MCFormats`).
  What these `MC` modules have for inputs (frames, apps, versions, mailboxes, options,
  manifest bodies, texts) is a CONSTANT that the configuration gives a value, so that
  the theorems are about any other value, too.

How they fit together: a step of an outer module stands for a run of an inner one,
with the outcomes the inner one allows. `Cli` relies on `PrepareDownload`,
`ManifestFetch`, `InstallTree` and `DepotDownload` that way, these on `CmCalls`, and
`CmCalls` on `CmStream` (frames in order) and `CmSession` (a request is one write).

Before the definitions they vary, the modules have slips a programmer could have
made, marked "Slip" (`CancelKeepingPermit`, `TakesAnyResponse`, ...). No specification
uses them; substituting one for its original must break the property it is paired
with in `PROJECT.json`, which shows that the property depends on the code.

## Runs

Several properties are conjunctions, whose parts are named in their modules
(`FetchInv` is `TypeOK`, `OkIsComplete`, `ErrorIsOfLastAttempt` and
`RotationCovered`, for instance; `PermitsConserved` is a part of `DownloadInv`, and
`QuietAfterLogoff` of `SessionInv`).

| Run | What it shows | Bounds |
|---|---|---|
| `download_safety` | `DownloadInv`, the inductive invariant of the proofs; permits are neither lost nor doubled; the counter never runs ahead of the files; the scores of two hosts stay within `MaxConcurrent`; `download_depot` implements `InstallContract` | 3 chunks, one without checksum, 2 permits, 1 retry, 3 servers of which two share a host |
| `download_liveness` | a chunk fails over a transient error only with its retries spent; a failed task is reported; the call returns, and then nothing runs | 2 chunks, 2 permits, the 3 retries of the code, 3 servers |
| `calls` | a service call returns the answer to its own last attempt, and returns whatever the CM does unless its send is stuck for ever; the calls without a job id return their own answer until a call was dropped or ended over a frame that does not decode | 2 calls out of a request code, an auth poll, product info, licence and a key; 1 retry (the code has 3); 2 frames on the wire |
| `connection` | session: one writer at a time, LogOff then Close at the end and no heartbeat after, a session only moves to newer ones, `shutdown` returns though a heartbeat hangs in its write, a drop ends the heartbeat. Reader: it implements `MessageFeed` on flat Multis, loses and doubles nothing on nested ones, and gets to the end | 2 logins, 1 request, 1 task of 2 beats; 3 frames of 2 known, 1 unknown and 1 unreadable message |
| `depot` | plan: licences once a session and before keys, an honest cache, plans with every depot of the branch and system asked for and no other. Fetching: Ok means a manifest for each depot, the last error is the one returned, the rotation covers the preferred servers, the call returns; tokens served before they are kept and go out with their own depot and host while valid | 2 calls, 1 login between them, every pair of 5 depot entries, 2 branches, 2 systems; 2 depots, 3 servers with 2 host names, the 3 retries of the code, clock to 2 |
| `install` | a cleared flag means plain names and the right key never fails; both ciphers give back what was padded; a finished run has installed its version whatever earlier ones left, but for blocks that their late writes take, and an old tree of the same kinds makes none fail; no file mixes versions beside such blocks, even when paths change their kind | 3 calls, 3 keys; every text of 4 bytes in blocks of 2; 3 runs, failed or killed anywhere, of six versions: of three that agree on kinds, and of all six |
| `output` | the stored percentage only rises, and each line announces one that was stored, no two the same; the line with the full chunk count is printed; what the lines and the exit status of `main` say is true of the directory | 3 tasks of 1, 2 and 3 bytes, 5 in total, so that 100 % is passed; every set of options, 3 depots with shared files, one of them with a link where another has a file |
| `mail` | no acknowledged mail is lost or acknowledged twice, and items keep their order; a mail is decoded byte by byte, and its code and link are found; tokens come from a confirmed session; blocked sessions go on and a code behind links is found; every flow ends, and only a stale code, a changed key or a failed call ends one that keeps its heartbeat going before it has its tokens | 2 sessions, 2 mails of 2 lines, a channel of 2; mails to be read of 3 lines of 8 kinds with a soft break anywhere; three flows, up to 2 stale codes |
| `formats` | the block-wise sum is the defined one and never wraps; only whole manifests are accepted, and read as sent; a printed tree parses to itself; on any text the parser stays within it, and what it accepts without quotes and comments has its braces in balance | 10 bytes in blocks of 3, the smallest word; 3 pieces in any order, wrong lengths, cut short; trees of 2 levels, texts of 5 characters |
| `calls_key` | a depot key can be the answer to a request for another depot | 2 key calls |
| `download_corrupt` | a corrupt chunk is not retried | 2 chunks, 3 retries |
| `install_links` | a file is created through an old link | 2 runs |

The bounds are small but not degenerate. Three chunks under two permits is the
least for a task to wait for a permit while two run and one of them fails; two
concurrent tasks are enough for a pick that is overtaken by a penalty, and the
proofs cover any number. Three progress reports allow a compare-exchange to be
lost to a lower percentage while a third raises it. Two calls with one retry each
put up to three requests in the way of one answer, the number of retries does not
change what a stale answer can do, and the proofs cover any number. `MAX_RETRIES` is 3 where the count
matters. Two logins are
the least for a heartbeat with an old session id, two sessions of two mails and a channel
of two items for a code that lies behind a link, a sender that waits and a mail that
is sent twice, three runs for a version installed over the
remains of two others. Where a bound scales a constant of the code (the block of
Adler-32, AES blocks of two bytes, the channel), the ratio that matters is kept:
`Adler32` runs with the smallest word its assumption allows, and the assumption
holds of 5552, 65521, 255 and 2^32.

Deadlock is checked wherever a system goes on or names the states in which it has
ended (`Settled`, `Through`, `Done`); the configurations that switch the check off
are those of functions that return and of sessions that close.

### Fairness

`DepotDownload`: weak fairness of the caller, of each task and of each blocking
write, because tokio polls every runnable task and runs every closure it was
given. It contains the assumption that every request is answered or broken off:
`reqwest::Client::new()` sets no timeout, and without the assumption a task may
wait forever (a hazard listed in `PROJECT.json`). `CmCalls`: weak fairness of the
client and of its timer, and strong fairness of a send, which gets a sink that is
free again and again because tokio's mutex serves its waiters in order; none of the
CM, and none of the sink, which may stay stuck for ever. `CmStream`: the callers loop, so `recv` is
called again and a call with something to read goes on. `CmSession`: the caller's
own writes end and aborted tasks are dropped; nothing is assumed of a heartbeat's
write. `ManifestFetch`: every CM call and CDN request ends, the same assumption as
for chunks. `SteamMail`: a session whose item was taken into the channel goes on,
and so does one that answers;
`Take` is strongly fair because a `recv` takes what is there at its first poll, so
a caller that gives up and calls again does not miss it for ever. `AuthFlow`: the
caller and time go on, Steam mails a code and the user confirms.

## Disagreements between code and documentation

Three are shown by runs; `PROJECT.json` quotes the texts they disagree with.

- `CorruptRetried`: `SteamProtocolBreakdown.md:645` asks for a corrupt chunk to
  be retried from another server; `is_retryable` (`download.rs:333`) ends the
  download instead, unless the error text happens to contain a status code.
- `KeyIsForItsDepot`: after a key call that was dropped or ended on an unreadable
  frame, the next key call, for another depot, accepts the answer to the request for
  the first one's key (`pics.rs:205`).
- `PreparedSizes`: a file at a path that was a link is created and sized through
  the link (`download.rs:106`), over the file it points to.

The others were met while modelling and are built into the models as the code has
them; no run is about them. Where a property would be false because of one, its
statement says what holds instead.

- A response that breaks off is a network failure, which the comment at
  `download.rs:333` counts as retryable; the code does not (`body` in `DepotDownload`).
- The comment at `main.rs:379` says another thread already emitted the threshold; it
  may have emitted a lower one, and the higher one, even 100, is never announced. Lines
  are printed after the exchange, so a lower percentage may follow a higher one
  (`main.rs:378`-381); `EachPercentOnce` says what holds.
- The parts of a Multi inside a Multi go to the back of the queue
  (`connection.rs:450`), behind parts that were sent after them; `ImplementsFeed` is
  checked on flat Multis, `EachOnce` on nested ones.
- A second `start_heartbeat` (`connection.rs:140`) detaches the first task.
- `login_with_token` returns a copy that is not `authenticated` (`login.rs:330`).
- A token is asked for when "403" occurs anywhere in the error text, URL included;
  not after a 401; and not when the old one expires (`depot.rs:200`, `cdn.rs:90`).
- `depot.rs:81` and the doc at `pics.rs:240` say the opposite of each other about
  free licences of anonymous sessions.
- A depot that falls back to `public` gets its request code under the branch it does
  not have (`depot.rs:174`).
- An executable flag that a later version drops stays set (`download.rs:112`).
- `recv_code` may return a code from before the call (`steam-mail/src/lib.rs:62`).
- The doc at `steam-mail/src/lib.rs:213` names "Your Steam Guard code is: XXXXX" as a form
  a code comes in. There a code that begins with I or S loses its first letters with the
  word "is" (`lib.rs:226`), is then too short, and is not found; on a line of its own it
  is. `TextRead` says both, and the mails of its run have such codes.
- Every mail is decoded as quoted-printable; a five-letter word after "code" hides the
  code below, which `TextRead` says (`steam-mail/src/lib.rs:101`, 228); each byte of a
  letter that is no ASCII becomes a letter of its own (`lib.rs:171`).
- An item is in the channel before its mail is acknowledged (`lib.rs:104`, 109), so the
  item of a mail whose 250 got lost comes out twice when the client sends it again.
- A service call's send is outside its timeout (`connection.rs:194`, 222): it hangs as
  long as the sink is held or takes nothing, which `ServiceCallReturns` excepts.
- A run that failed leaves blocking writes behind that a later run of the same process
  finds in its files (`download.rs:316`); `TreeInv` and `NoMix` name their blocks.
- A zlib body of a multiple of 16 bytes is decrypted first, and raw protobuf is not
  read at all (`cdn.rs:308`).
- The map of `keyvalues.rs` keeps the last of duplicate keys, its doc (line 12) says it
  preserves them.
- The auth flow sends no heartbeat while it waits (`auth.rs:37`), and the pre-logon form
  of a service call (`connection.rs:229`) is never used. What
  `FlowEnds` says of a flow that is not cut off by Steam is therefore stated for callers
  that keep the connection alive.
- The example at `auth.rs:9` takes the next code of the mailbox: one of an earlier
  attempt is refused and ends the flow (`connection.rs:211`).
- Errors that leave `main` through `?` write no JSON line; `--install-dir` without
  `--fetch-manifests` succeeds and does nothing (`main.rs:525`, 546).

## Theorems

Each theorem holds for all values of the constants that satisfy the assumption of its
module. The assumptions say that constants have their types, and further only what is
named below. Runs evaluate them on the values of the configurations. Hardly any property
is inductive alone; each section names the invariant that is (`...IInv`, `...Inv`) and
what it adds. TLC checked every one of them on the instance of the component's run
before it was proved.

### Chunk download (`DepotDownloadProofs`)

Any number of chunks, permits (zero included), retries, servers and hosts. The server
list is not empty (`PoolAssumption`: `fetch_manifests` refuses an empty one).
`Invariance` (`DownloadInv`), `TypeCorrect`, `Permits` (its part
`PermitsConserved`), `Spread`, `Progress`, `Retried` and `Refinement` of `InstallContract`.

`PenaltySpread` needs to count the attempts that have picked a host and not failed yet:
`PenaltyLead` bounds score *plus* aimed attempts. A pick adds one aimed attempt to a
host of lowest score, and the aimed attempts of a host are permit holders, so
`PermitsConserved` bounds them; a penalty turns an aimed attempt into a point, so it
changes nothing. The refinement needs `WriteInv` (a pending write finds zeros and bytes
the checksum accepted; a finished task's write succeeded) and `JoinInv` (Ok only after
all tasks finished), which leave no write pending at Ok. `CountInv` and
`PermitsConserved` give the ranges of the counters. `TransientRetried` needs only the
types and that a failed task moves no more.

### Requests (`CmCallsProofs`)

Any calls, retries and frames on the wire. `ServiceAnswers` (`ServiceAnswerIsOwn`) and
`Answers` (`AnswerIsOwn`), by `CallsInv`: a job id is drawn once and belongs to one
request (`JobsInv`), a frame in flight carries the id of the request it answers, with
the answers to one request in order (`FramesInv`). The calls that match by type alone
take their own answer because none of them ends while its request may still be answered
(`LeftoverInv`), except by being dropped or on an unreadable frame. That exception is
the finding `KeyIsForItsDepot`.

### Connection (`ConnectionProofs`)

Session, for any number of tasks, logins, requests and beats: `SharedInvariance`
(`SharedInv`: one writer holds the lock; the sessions on the wire are newer than the one
held, in the order they were granted; the copy that login returned is the stored one)
and `SessionsOnlyAdvance` (the action property `SessionsAdvance`).

`EndingInvariance` and `SessionHolds` (`SessionInv`) have
the hypothesis `OneHeartbeat`: no more than one heartbeat task is ever started. With two
the statements are false, because a second `start_heartbeat` overwrites the handle of
the first (`connection.rs:140`); the only call in the repository (`main.rs:496`) comes
once per connection. The invariant they add, `EndingInv`, says in whose hands a task
that runs is (`TaskOwned`): shutdown writes LogOff only after it has joined it.

Reader, for any messages and frames with Multis of up to two levels (`StreamAssumption`;
a deeper Multi would need a longer unfolding of the same definition and is not
modelled): `MessagesOnce` (`EachOnce`), which is inductive together with `CloseIsLast`,
nothing comes off the wire after the end; and `FeedImplemented`, the refinement of
`MessageFeed` for frames whose Multis hold messages only, step by step: a message that
`recv` takes off the queue or the wire is the head of the feed, and `Unpack` is a
stutter, because the queue holds messages only, so that a Multi is unpacked into an
empty one (`FlatIInv`). The mapping joins runs of frames by a recursive function
(`Flatten`); that it distributes over concatenation is shown by induction over the set
of prefix lengths for which it holds.

### Manifests and plan (`DepotProofs`)

Manifests, for any depots, servers, hosts, preferred servers, retries and clock:
`FetchHolds` (`FetchInv`), `KeptTokensServed` (`TokensServed`), `ChunkTokens`
(`ChunkTokenIsOwn`), by `FetchIInv`: the depots are done in order (`PlaceInv`), each
attempt asked the next server (`RotationInv`), the kept tokens are of depots that are
done, one of each at most, and served there (`TokensInv`), and the pool holds exactly
these (`CacheInv`). The loop that seeds it is a recursive function (`Seeded`);
`PrefixInduction` takes the least number of steps at which a claim would fail.

Plan, for any apps, product information, branches, systems, failures and calls:
`Licences` (`LicenceInv`) and `Plans` (`PlanInv`), by `PlanIInv`: at each phase of
`prepare_download`, which licences were asked for and for whom they are kept, which keys
were, and that the depots it goes through are all that `resolve_depots` has given.
`PrepareAssumption` says that what a depot names as the
app it comes from is an app.

### Output (`OutputProofs`)

Progress, for any number of tasks, sizes, total and rounding: `Announced`
(`EachPercentOnce`) and `FinalLine` (`FinalLineShown`), by `ProgressIInv`: the counter
counts the tasks that are past it, and one of them knows its last value (`CountInv`); a
task about to replace the threshold has more than it loaded (`PctsInv`); what a task is
about to print was stored by it alone (`AnnouncedInv`); in human mode
no task is turned away before the throttle, and one that is through with the full count
has printed it (`LinesInv`).

Command, for any finite set of depots, any sharing of paths, any links and any set of
options: `OutputHolds` (`OutputInv`), by `CliIInv`: at each place of `main`, which depots
of the plan are announced as begun and as complete (`PlaceOk`), and that a complete depot
has its files and links unless a later one that shares or reaches them was begun
(`Held`). `CliAssumption` says that a manifest lists a path once and that no link leads
to a path that a depot lists as a link. Two files of one depot that a link of another
may bring together are excepted (`Alone`).

### Mail and auth (`MailProofs`)

Mail server, for any sessions, mails, lines and any capacity but zero (the code's is
16): `MailHolds` (`MailInv`), by `MailIInv`: whose the lines and the item of a session
are (`BodyInv`), the queues before and behind the channel (`QueueInv`), that what has
passed is acknowledged, waits for its 250 or has lost its client, in each session's order
(`PassedInv`), and that what is acknowledged or about to be has passed, while no mail is
under way twice or again after its 250 (`AckedInv`).

Auth flow, for any mailboxes, interval and patience of Steam: `FlowHolds` (`AuthInv`),
by `FlowIInv`. That Steam confirms no session that waits for its code is not inductive
by itself: a call that begins a session would find an older confirmation. `Confirmed`
therefore also says that there is neither a code nor a confirmation before the flow has
begun a session.

Mail text, for any text over any characters: `DecodesWhatWasSent` (`Decode` undoes the
sender's quoted-printable, wherever it puts soft breaks, into the bytes of the text: an
ASCII text is given back as it was) and, from it,
`TextDecodedHolds` (`TextDecoded`). `FlattenSeq` and `Decode` are recursive functions;
that they exist, and their values at each place, follow from `PrefixInduction`, which
takes the least place at which a claim would fail. What a mail of the model looks like
after encoding is described place by place (`Written`), where each piece of it stands
in the text that is read.

### Install (`InstallProofs`)

Names, for any manifests, keys, block and number of calls: `PaddingRemoved` (both ways
to unpad invert the padding) and `NamesHold` (`NamesInv`), by `NamesIInv`: what the loop
of the in-place decryption has left behind it (`LoopInv`), and where a caller with the
right key alone has got to (`RightInv`). `NamesAssumption` says that a name before
encryption is UTF-8 up to its NULs, and that a missing name is none.

Ciphers, for any text and block, under the right key: `RoundTripHolds` (`RoundTrip`), from
`PaddingRemoved` and `UnpadsAgree`: where the strict unpadding succeeds, the lenient one
gives the same.

Tree, for any paths, versions and number of runs, each failed or killed anywhere, with
the blocking writes of earlier ones landing at any moment: `TreeInvariance` (`TreeIInv`), in two layers.

- `MixIInv` is for versions of any kinds and gives `NoMixHolds` (`NoMix`). That no file
  mixes versions is not inductive: a run may write through a link an older version left.
  `MixIInv` adds that each file holds bytes of one version only, beside zeros and
  `Stray` (`Of`), that the file of every mapping this run has opened holds of the
  versions nothing but this run's, found at the place a link there leads to (`Holds`), and where links may lead
  (`LinksOk`).
- `SameIInv` gives `TreeInvHolds` (`TreeInv`: no run fails, and one that finishes has
  installed its version), for versions that agree on the kind of each path (`Agree`).
  It adds what a path may hold at all (`Fits`), and what this run has made so far
  (`Made`, `Filled`). Without `Agree` the statement is false: a directory in the place
  of a file makes a run fail.

`InstallAssumption` says that a path occurs once in a manifest and is not above itself,
and that what a link points to is a file wherever a version maps it: links to directories
and to links are not modelled. `TreeAssumption` adds that the versions in `Similar`
agree.

### Formats (`FormatsProofs`)

Adler-32, for any text, modulus, block, word and largest byte that `AdlerAssumption`
allows; it bounds both sums at the end of a block, explicitly, and holds of 65521, 5552,
2^32 and 255. `ChecksumIsAdler32` (`AdlerInv`), by `AdlerIInv`: the sums are those of the
definition modulo `MOD_ADLER`, and bounded by the bytes since they were reduced. The
products in these bounds are not linear, so they have lemmas of their own.

Manifest sections, for any bodies: `SectionsFaithfulHolds` (`SectionsFaithful`), by
`ManifestIInv`: each section that was read stands in the data right behind the one before
it (`Placed`), and a failure has its reason in the data (`Bad`). That a manifest is
accepted *only* if it is whole follows from the first, that it is accepted *whenever* it
is whole from the second.

KeyValues parser, for any texts: `ParserInvHolds` (`ParserInv`), by `ParserIInv`: the
place is within the text, the stack not deeper than what was read, and every brace behind
the parser is counted against the maps that are open (`Counted`). `QuotedReadsBack` says
that any string, written in quotes, is read by `parse_string` as it was, with the place
right behind it.

`FormatsAssumption` says that the data of a body is a sequence, and that texts do not
hold the mark that stands for their end.

### Only model-checked

- Everything under fairness: liveness is out of the prover's reach
  (`FailureReported`, `ComesToRest`, `ServiceCallReturns`, `ShutdownReturns`,
  `DropStopsHeartbeat`, `Drains`, `FetchEnds`, `MailGetsThrough`, `FlowEnds`).
- `TextRead`: which code and link are found in a mail, in every mail of three lines. The
  search splits a decoded text into words and lines, and the expected result is computed
  from the lines; to prove it, each split would need an induction of its own.
- `TreeParsed`: a whole tree reads as it was printed. Its core is proved
  (`QuotedReadsBack`); the rest is an induction over trees.

## Not modelled

Generated protobuf code, the parsing of arguments by clap and the wording of lines
have no behaviour of interest. AES, RSA, base64, LZMA, zstd, zip and zlib, HTTP and
WebSocket libraries are taken to work; a chunk's bytes are just good or bad. A
caller that drops the future of `download_depot` is not modelled: no caller in the
repository does. A panic inside a task is an error like any other.
`extract_steamid_from_jwt` is a decode without state; its result is part of the
logon in `CmSession`. Links to directories and to links are left out of
`InstallTree` and `Cli`. `CmSession` does not repeat that a request's send may wait for
ever (its requests end), nor does `AuthFlow`, whose calls end; that is `CmCalls`'
subject. What a call of `decrypt_manifest_filenames` with the right key makes of the
names that one with a wrong key left half decrypted is not stated. Three hazards in `PROJECT.json` have no property, each with its reason:
they are places where the code promises nothing (no HTTP timeout, no PICS timeout,
no second heartbeat). For the same reason there is no property of `max_concurrent` =
0, of the depth of nested KeyValues, of a polling interval that is not a number, or
of the age of a request code.

## Plan

Every component above is modelled, and of the safety properties all but `TextRead` and
`TreeParsed` are proved. Two extensions would be worth their effort:

1. `TreeParsed` for trees of one level, from `QuotedReadsBack` and a lemma about the
   blanks and comments between two strings.
2. `TextRead` for the code alone, from a lemma that splitting joined lines gives the
   lines back.
