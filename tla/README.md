# A verification model of the PDF chatbot backend

TLA+ models of the FastAPI backend in `src/app` and of its schema migrations:
device sessions, accounts and the connection pool, document uploads, what is
read and embedded of a PDF, chat turns and the text splitter.  All are checked
with TLC on small instances, and all the safety properties that hold are proved
with TLAPS for every instance, among them that the upload pipeline implements
the document library and that sessions served one request at a time implement
the session store.  Paths below are relative to `src/app` unless they start
with `src/`.

## 1. The system

| Component | State it keeps | Operations | Interacts with |
|---|---|---|---|
| Device sessions (`services/auth_session_service.py`) | one row per user in `user_auth_sessions` with a JSON list of sessions; two Redis key spaces, by access and by refresh jti | issue, validate, rotate, touch, delete, list, purge | endpoints, bearer dependency, Redis, PostgreSQL |
| Session endpoints, bearer dependency (`routes/auth.py`, `auth_dependencies.py`) | none | login, refresh, me, sessions, logout | sessions, accounts |
| Tokens, passwords (`core/security.py`) | none | sign, decode, hash, verify | sessions, accounts |
| Password accounts (`services/auth_service.py`), Google sign-in (`services/google_auth_service.py`) | `users` rows | signup, login; find, create or link a user | sessions, Google, connection pool |
| Session cache (`cache/`) | the Redis client | set, get, delete; errors are logged and swallowed | sessions |
| Upload pipeline (`document_service.py`, `routes/documents.py`) | `documents`, `document_chunks`, `document_processing_logs` | upload; list, get | validation, storage, extraction, chunking, embeddings, vector index |
| Document storage (`document_storage_service.py`) | temporary files | store, delete, in worker threads | upload |
| Vector index (`pinecone_service.py`) | the Pinecone index; its host, cached in a module variable | upsert, query, delete, in worker threads | upload, chat |
| PDF extraction (`services/pdf_service.py`) | none | classify a page, read it with up to three extractors, merge | validation, upload |
| Chunking (`services/chunk_service.py`), embeddings (`services/embedding_service.py`) | none | split pages; call OpenAI in batches | upload, chat |
| Chat turns (`chat_service.py`, `routes/chat.py`) | `chat_sessions`, `chat_messages`, `message_sources`, `usage_logs` | open, list, get, answer, stream | documents, embeddings, vector index, language model |
| Language model client (`llm_service.py`) | none | build a prompt, answer, stream | chat |
| Database engine (`db/session.py`) | a pool of connections; one `AsyncSession` per request (`expire_on_commit=False`, no autoflush) | check out, commit, roll back, check in | everything |
| Health check (`routes/health.py`) | none | one query on a connection of its own | connection pool |
| Migrations (`src/alembic/`, `src/Makefile`) | the schema, `alembic_version`, the rows they rewrite | upgrade, downgrade | every table |
| Start-up, configuration, logging | none of their own | wiring; the purge at start-up | everything |

All the concurrency is that of one event loop per worker process: a request
runs until its next `await`, where any other request, in this or in another
process, may run; blocking calls go to threads that nobody can cancel.  The
database serialises commits, but the code reads rows without locks or versions.

What is hard here:

* *Sessions*: the whole list is read, changed and written back across awaits,
  by five different operations; two caches are filled from what was read
  earlier; every Redis error is swallowed; the purge rewrites the rows of all
  users; a rollback expires the objects the callers still hold.
* *Uploads*: four stores, three transactions, compensation by hand in exception
  handlers that themselves may fail, threads that outlive a cancelled request,
  a crash between any two steps.
* *Chats*: turns of one session overlap; a streamed turn fails after its status
  has been sent; the identity map answers with what was loaded before; the
  document may be withdrawn under a turn.
* *Splitting*: a loop whose step is computed from two settings and the text.
* *Accounts*: a user is found by e-mail or by Google account and written later,
  without a lock; only the constraints of the table decide between two requests,
  and the order of the `except` clauses decides what they are told; a chat turn
  keeps its connection while it waits for OpenAI and Pinecone.
* *Reading a PDF*: eight classes of pages over two area thresholds and a number
  of words, with tools that may be missing; batches whose answers come in any
  order and are paired with chunks by position.
* *Migrations*: sessions are regrouped in place while users are signed in; two
  revisions with the same parent change the same columns.

What makes each correct is what the properties in section 3 say; the hazards,
with the line where each bites, are listed in `PROJECT.json`.

## 2. The modules

| Module | Models |
|---|---|
| `AuthStore` | what the session store promises: live sessions with one current token each, changed in one step per request |
| `AuthSessions` | the session service, the caches, and the requests that drive them |
| `AuthSessionsProofs` | the theorems about `AuthSessions` with any overlapping requests |
| `AuthSerialProofs` | the theorems about requests that do not overlap, the refinement of `AuthStore` among them |
| `DocumentStore` | what the document library promises: a document is published whole or not at all, a confirmed one stays |
| `UploadPipeline` | `upload_document` with storage, threads, index and handlers; implements `DocumentStore` |
| `UploadPipelineProofs` | the theorems about `UploadPipeline`, its refinement among them |
| `ChatTurn` | the turns of one chat session, answered or streamed; composed with `DocumentStore` for the document under it |
| `ChatTurnProofs` | the theorems about `ChatTurn` |
| `Chunking` | `split_pages` |
| `ChunkingProofs` | the theorems about `Chunking` |
| `Accounts` | signup, login, the Google callback, the health check and a chat turn over one table of users and one pool of connections |
| `AccountsProofs` | the theorems about `Accounts` |
| `PageAnalysis` | the classification of a page, the choice of its extractors, what they read |
| `Ingestion` | `extract_document`, the check of the pages, splitting and `create_embeddings`, from pages to vectors |
| `IngestionProofs` | the theorems about `Ingestion` |
| `Migrations` | the six revisions and the commands that apply and undo them |
| `MigrationsProofs` | the theorems about `Migrations` |
| `MC*` | instances for TLC |

`ChatTurn` composes with `DocumentStore`, which `UploadPipeline` implements;
`AuthSessions`, served one request at a time, implements `AuthStore`; `Ingestion` opens up the steps "extract"
and "embed" of `UploadPipeline` and takes from `Chunking` what it promises of
`split_pages` (proved there as `PagesKept`); `Accounts` takes the issue of tokens as one step, which is
`AuthSessions`' login.

In every module an action is what one request (or its thread) does from one
await to the next, so that every interleaving of requests is a behaviour.
Operators marked "Mutant" are the plausible bugs listed in `PROJECT.json`, one for
each property; no specification uses them.

**AuthSessions.**  A token is a record of its pair id (the two jti's minted
together), session and user; an entry of a row, a cached value and a presented
token are equal exactly when all of the code's comparisons (session id, jti,
hash, user) succeed.  `work` is the unit of work of a request's database
session: the lists it will write when it commits.  `CommitSucceeds` follows
SQLAlchemy: an INSERT of a row that exists by then fails, an UPDATE of a row
that is gone fails, a DELETE of one is only warned about.  `RevokeLoad` models
the identity map: the second select of `delete_session` gets the object that
was loaded first.  `PurgeFails` and `AfterLostTouch` model what a rollback does
to the callers: it expires the user object, and reading `user.id` afterwards
raises.  Times are abstracted to `life` (fresh, access expired, both expired);
devices, timestamps and the order of a list are left out.

**UploadPipeline.**  `pc` is the place in `upload_document`, `thread` the worker
thread it has started, `faults` a history of what went wrong for each document,
so that a property can name the cause of what it tolerates.  A commit or an index
call that fails may have taken effect.  A handler first rolls back; when what
failed is the database, the rollback may raise too (`DatabaseFails`), and the handler
is left with the vectors not deleted and the document not marked.  A cancelled request skips the `except
Exception` handlers and runs `finally`; its thread goes on.  A crash ends
all requests and threads and forgets the cached index host.

**ChatTurn.**  `seen` is `session.messages` as the turn loaded it, from which both
the prompt and (through the identity map) the response are made.  `prompt` is the
messages that go to the language model: the last `MaxHistory` of them
(`CHAT_MAX_HISTORY_MESSAGES`), where the order of overlapping turns is any.  `http` is what
the client has got: a stream has its status 200 before anything is checked.  A
failed query or commit also breaks a stream, because the handlers' own log
lines read `session.id` after a rollback has expired it.  The document follows
`Library!Next`, any behaviour of `DocumentStore`; as `UploadPipeline` implements
that, nothing the pipeline can do to a document is missed.  The vector index
may return any chunks.

**Chunking.**  Only spaces matter to the splitter, so a text is a sequence of "word"
(a character of one) and "space", normalized as `_normalize_text` leaves it.

**Accounts.**  `users` is the table, a row known by its e-mail, which is unique and
never changed.  `pc` is the query, commit or call a request is at, `view` the row
as the Google callback loaded it; `LinkRow` writes, like SQLAlchemy, only the
columns that differ from the row as loaded.  `Admitted` is the table's
constraints: e-mail format, unique e-mail, unique `google_sub`.  `held` are the
requests whose session has a connection: a query takes one, a commit, a
rollback or the end of the request returns it, and `refresh` after a commit takes
one again.  A chat turn is there for what it does to the pool: it holds its
connection while it waits for OpenAI and Pinecone (`TurnWait`).  `met`, `barred` and
`faults` are histories: which Google sign-ins were under way together, who was
inactive when a sign-in began, what failed for whom.  Operators deactivate a user
in the database (`Deactivate`); no code does.

**PageAnalysis, Ingestion.**  A page is its number of words, whether they are prose
or tables, whether there are images, how much of it they cover and whether they
show text themselves; `Consistent` says which combinations exist.  The
text read of a page is the set of kinds of text in it, so that merging is union.
A response of the embedding service is a sequence of the indices it names, which
may leave some out, repeat some and come in any order; `ByIndex` is what `sorted`
makes of it, with place k going to the least index that at least k items do not
exceed; `Pair` is the one count over all batches and the pairing by position in
`document_service.py`.

**Migrations.**  A revision is what it does to rows that exist, and the statements
that fail; the rest of a schema has no state.  Undoing `92d4c8a1e5bf` always fails
(`CanUndoLists`): it renames indexes and constraints by names of up to 66 characters,
which PostgreSQL cuts at 63 in the statement, while SQLAlchemy has created them
under 55 characters and a hash.  `MakeAware` and `MakeNaive` do what `AT TIME ZONE 'UTC'` does to a column that
is, or already was, timezone-aware.  A command is one transaction.  The initial
databases are the empty one and one that an earlier version of the program
filled: users with passwords, a row per session, naive times.

## 3. The runs

| Run | Instance | Shows |
|---|---|---|
| `auth_overlap` | 1 user, 2 sessions, 2 token pairs, 2 overlapping requests: login, read, refresh, logout, start-up; failing Redis, expiry, crashes, commits whose answer is lost | `TypeOK`, `RowsSound`, `CachesSound`, `InFlightSound`, `GoneForGood` |
| `auth_serial` | 1 user, 2 sessions, 3 pairs, one request at a time, every operation; expiry, eviction, refused commits | `LogoutSticks`, `ImplementsStore`, `RequestsFinish` |
| `auth_logout_race` | 2 overlapping requests | `LogoutSticks` violated (finding 1) |
| `auth_refresh_reuse` | 2 overlapping requests | `NoDoubleRotation` violated (finding 2) |
| `accounts` | 3 requests of any endpoint, 3 e-mails of which the table refuses 1, 2 Google accounts, a pool of 2; failing database, waits for a connection that time out, an operator | `TypeOK`, `SoleGoogle`, `AnswersTrue`, `InactiveRefused`, `AccountsKept`, `RequestsAnswered` |
| `uploads` | 2 uploads, 2 upsert requests each, every failure | type, the five safety properties, `UploadsEnd`, `ImplementsStore` |
| `ingestion` | documents of up to 2 pages of every consistent kind, at and around the thresholds 20 words, 35 % and 55 %; up to 2 chunks a page, batches of 2 | `TypeOK`, `PagesRead`, `Aligned` |
| `chats` | 2 turns, 2 chunks of which 1 is the document's, every failure | type, five safety properties, `TurnsEnd` |
| `chat_response` | 1 turn | `SessionShowsTurn` violated (finding 3) |
| `chunks` | 2 pages of at most 7 characters, sizes to 6, every accepted overlap | `TypeOK`, `Covered`, `ChunksSound`, `EachChunkNew`, `Progress` |
| `migrations` | 2 users, up to 3 sessions, a server 2 hours ahead of UTC | `TypeOK`, `TimesKept`, `AccessKept` |
| `migrate_head` | the same | `MigrateUpReachesHead` violated (finding 4) |

Each property is stated with a comment in its module.  The ones that matter most:

* `RowsSound`, `CachesSound`, `InFlightSound`: however requests overlap, fail and
  stop, a row holds only its user's signed sessions, one entry for each; a pair
  id identifies its token; every list waiting to be written back is one its
  row could hold.
* `GoneForGood`: a deleted session can come back, but only out of a cache or of
  what a request in flight still carries; once nothing does, nothing restores it.
* `LogoutSticks`: no token of a logged-out session is accepted.  It holds for
  requests that do not overlap and fails for those that do.
* `ConfirmedComplete`, `ProcessedSearchable`, `NoOrphanVectors`, `StuckHasCause`: a
  201 answer is true of all stores; a document that a chat accepts has its
  chunks and vectors; what a failed upload leaves behind has a named cause.
* `AnswerAtomic`, `DeliveredIsStored`, `FailureIsUnsaved`, `PromptSound`: what a
  client was told agrees with what is stored, and prompts with the history.
* `Covered`, `Progress`: the splitter loses no word and ends.
* `SoleGoogle`: two Google accounts get tokens of one user only if two sign-ins as
  that user overlapped.  The check of the link and the commit that writes it are
  not one step, so overlapping sign-ins can replace a link; later ones cannot.
* `AnswersTrue`: what a signup or a login was told is true of the table, then and
  for ever; at most one signup of an e-mail was told "created".
* `AccountsKept`: a row written from what was read earlier takes back no
  password, link, verification or deactivation made in between.
* `RequestsAnswered`: no request waits for a connection that only its own
  progress would return.  A turn needs no second connection while it holds one.
* `PagesRead`: exactly what can go unread of a page, for all classes and missing
  tools.  `Aligned`: a chunk is stored with its own embedding.
* `PromptSound`: in a prompt an answer lacks its question only if the limit on
  messages cut it off a history that has it.
* `AccessKept`: no order of upgrades and downgrades drops a session that has a refresh
  token, or takes anyone's way to sign in.  It holds because the one revision that
  would drop the refresh tokens when undone cannot be undone; the rows of the earlier
  version go when their table does.  `TimesKept`: the times of chats do not move
  unless both timestamp revisions are applied.

**Bounds.**  Sessions and pairs are used up (`SessionIdLeft`, `PairIdLeft`: a request
that mints starts only while there is an id for it); three pairs allow a login,
a rotation and a second login or rotation, the least with which a superseded
token meets its successor and a third party, and two sessions of one user are
the least for a row that outlives a logout.  Two requests exhibit every race of
two; `GoneForGood` and the invariants are proved for any number, and so is what
the purge does to the rows of other users, which `auth_overlap` with its one user
does not show.  Three requests are the least with which a third one waits
for a pool of two, and with which a sign-in comes after the one that linked the
user while another is under way; one request meets one failure, one user is
deactivated.  Three e-mails give two users and one that only the table
refuses; what holds for three requests is proved for any number.  Two pages and
two chunks a page are up to two batches of two, the least with which an error of
one batch can cancel that of another.  Three sessions of two users are the least
for a user with a list; every revision is in the model.  Two uploads
share the index and its cached host, and two batches are the least for a
partial upsert.  Two turns are the least that overlap, a limit of one message (`MaxHistory`) is
the least that separates an answer from its question, and one foreign chunk
the least that can be cited wrongly; for uploads, turns and texts of any number
and length the safety properties are proved.  Seven characters and sizes to 6 hold a
window with a space in each half, a pulled-back window and its successor.
`MaxLength`, `MaxPages` and `MaxSize` are marked BOUND in the module.

**Deadlock** is not checked: the other systems may stop, when the ids are used up,
every request, upload or turn has ended, the pages are split, or the ingestion of
a document is over; only for `Migrations`, which never stops, is it checked.

**Fairness.**  Weak fairness of `Continue` of each request: an event loop goes on with
every request it serves, threads run, and every external call has a time
limit or fails.  No fairness is assumed of clients, of the environment or of
failures; in `uploads`, a request that is cancelled or crashes has ended.  In
`accounts` the time limit of the wait for a connection (`DB_POOL_TIMEOUT`) is
not relied on: `PoolTimeout` is outside `Continue`, so requests are answered because
connections come back, not because waits are cut short.

**EachChunkNew** is stated for sizes of at least 3 and overlaps of at most half the
size: the configuration accepts any overlap below the size, and beyond that the
splitter makes chunks that lie inside their predecessors (the defaults, 1200 and 200,
do not).

## 4. Findings

1. *A logged-out token is accepted again.*  `touch_session`, run by every
   authenticated request, writes back a list it read before the logout
   (`routes/auth.py:344` promises otherwise).
2. *A refresh token is used twice.*  Two refreshes check the same row before
   either commits (`routes/auth.py:217`).
3. *The returned session lacks the turn.*  The session is selected again in the
   same `AsyncSession`, whose identity map keeps the messages loaded first
   (`routes/chat.py:205`).
4. *`make migrate-up` applies nothing.*  Two revisions follow `92d4c8a1e5bf`, so
   "head" is ambiguous and Alembic refuses (`src/README.md:549`, `src/Makefile:36`).

Modelling also showed, outside any documented promise: a document is left in
"processing" by a failure between its insertion and the return of
`_create_processing_document`; a failed refresh after the publishing commit
withdraws a document that chats already use; the vectors of a partial upsert
stay for ever; a question is stored again with each retry of a failed turn.
These are hazards in `PROJECT.json`, and the properties name them as causes.
Further:

* the file of a temporary upload whose write fails half-way stays, as nobody has
  its path; a streamed turn that is refused is a 200 that breaks off, because the
  checks run after the response has started;
* the table's e-mail pattern (`models/user.py:16`) refuses addresses that `EmailStr`
  accepts, and the signup is then told 409, "already exists"; a password login of
  a user that only Google created is answered 500;
* prose beside a table is not read on a page with too few words to count as text
  (no class has both PyMuPDF and pdfplumber there);
* in one response of the embedding service, a text that is left out and another
  that is repeated cancel in the count, and the chunks between are stored with
  their neighbours' vectors;
* a prompt may begin with an answer whose question the limit on messages has cut
  off (`llm_service.py:92`);
* a rollback that raises, in the handler of a failed publishing transaction, skips the
  deletion of the vectors (`document_service.py:329`);
* undoing revision `92d4c8a1e5bf` always fails, so `make migrate-down`
  (`src/Makefile:37`) stops there; with shorter names it would make rows without
  refresh tokens of all sessions;
* deleting the vectors of a document with more
  than 1000 chunks exceeds what Pinecone takes in a request, and is only logged;
* with both timestamp revisions applied, chat times move by the offset of the
  database server's time zone, and undoing one makes the columns naive under the
  other.

The repository's own README (`src/README.md:12-13`) still calls the document and
chat services in-memory and the pipeline a stub; the models follow the code,
which has outgrown that text.

## 5. The proofs

**Sessions.**  `AuthSessionsProofs` proves, for any users, ids, requests and
environment (the assumptions are `OpsAssumption`, `EnvAssumption`, `NoTokenAssumption`):

| Theorem | States |
|---|---|
| `TypeCorrect` | `Spec => []TypeOK` |
| `RowsCorrect`, `CachesCorrect`, `InFlightCorrect` | `Spec => []RowsSound`, `[]CachesSound`, `[]InFlightSound` |
| `NoResurrection` | `Spec => GoneForGood` |

`RowsSound` alone is not inductive: a request writes back a list it read many
steps ago.  The inductive invariant is `Sound`, the conjunction of
`RowsSound`, `CachesSound` and `InFlightSound`, on top of `TypeOK`: a list in
flight is sound when it is read and stays so, because `issued` only grows, and
a minted token enters a list that has no entry with its session (a new session
id, or the entry it replaces removed).  The same three formulas are the
invariants of `auth_overlap`.  The proof has a lemma for each group of actions
(start, purge, login, authenticate, delete, rotate, drop), first for types, then
for `Sound`, then for `Gone(s)`; `NoResurrection` uses the first two at every step.

While requests overlap a logged-out token can come back (finding 1).
`AuthSerialProofs` proves what holds while they do not, for any users, ids, expiry,
eviction and refused commits:

| Theorem | States |
|---|---|
| `LogoutIsFinal` | `Serial` implies `Spec => []LogoutSticks` |
| `SessionsImplementStore` | `Serial` implies `Spec => ImplementsStore` |
| `SupersededStayOut` | `Serial` implies that a token a client has that is not current never becomes current again: none rotates twice |

`Serial` is four conditions on the constants: one request at a time, a Redis that
does what it is told, a commit that is reported as failed has failed, and no
request that is cut off.  `auth_serial` is an instance of it, and TLC finds a
logged-out token accepted when any one of the four is dropped, so they are what
the logout of this code relies on.  The invariant `SerialInv` says, for each place
of the only request, that what it has read is still what the row holds
(`Purging`, `Adding`, `Rotating`, `Validated`, `Removing`), and of the access cache that
an entry is the current token of its session, but for keys that the request has
committed to delete (`CachedCurrent`).  It holds together with `Sound`.  For the
refinement, `StoreNext` takes each action to the one of `AuthStore` that it is seen
as (login, rotation, end, delivery, admission, answer) or to none;
`SupersededStayOut` then follows from `AuthStore` alone.

`CachesSound` makes the mismatch branches of validation and rotation (lines
121-132 and 175-187 of `auth_session_service.py`) dead code, which is why
`StartRefresh` does not model the comparison with the cached refresh session.

**Accounts.**  `AccountsProofs` proves, for any e-mails, Google accounts, requests,
pool size and environment (the assumptions are those in `Accounts`: the pool is
positive, `Unfit` are e-mails, `None` is neither a row nor a name):

| Theorem | States |
|---|---|
| `PoolRespected` | `Spec => []TypeOK` |
| `AnswersStayTrue` | `Spec => []AnswersTrue` |
| `InactiveStayOut` | `Spec => []InactiveRefused` |
| `OneGoogleAccount` | `Spec => []SoleGoogle` |
| `AccountsStay` | `Spec => AccountsKept` |

None of the invariants is inductive by itself.  `IInv` is six parts, each
inductive given those before it:

* `HeldOK`, `ShapeOK`: the pool and the types.
* `Local`: where a request is agrees with its operation, what it was given and what
  it has loaded; in particular `who` is set only once the user is chosen.
* `Answers`: `Made(p)`, a committed signup, is true from the INSERT on, before its
  client knows; two such are of different e-mails (`Unique`); every row has a
  password or a link (`Rooted`), which is why a login that finds no password has
  met a user of Google's.
* `Inactives`: a user barred when the request came is still inactive, so each of
  the three places that read `is_active` stops it.
* `Links`: `Overlapping`, Google sign-ins in progress have all met; `Origins`, every
  link was written by a request `r` that is past it, and every request that
  waits to write over a row it saw without a link has met `r`; `Sole`, what a
  request believes of its user's link is so, or the user was contested.  The step
  that matters is a link replaced: the writer saw none, so it has met the origin
  of the one it replaces, and they are the two that `Contested` asks for.

`Keeps`, a formula about one step, says that no step takes anything back from
a row; all parts rest on it, and `AccountsKept` is it.  A lemma per action and part
is avoided by `Still(q)` (nothing of q changes) for all requests but the one that
steps, and by lemmas for the ways in which actions end (`Ended`, `Fails`, `Goto`).

**Uploads.**  `UploadPipelineProofs` proves, for any uploads, batches and environment
(`EnvAssumption`, `BatchesAssumption`):

| Theorem | States |
|---|---|
| `UploadTypes` | `Spec => []TypeOK` |
| `ConfirmedIsComplete`, `PublishedIsSearchable` | `Spec => []ConfirmedComplete`, `[]ProcessedSearchable` |
| `OrphansHaveCause`, `StuckHasItsCause`, `FileHasItsCause` | `Spec => []NoOrphanVectors`, `[]StuckHasCause`, `[]FileRemovedUnlessDisk` |
| `PipelineImplementsStore` | `Spec => ImplementsStore` |

The invariant is one formula for each upload, `DocInv(d)`: `Placed`, what each place of
the request says of the four stores; `Answers`, what it is going to answer;
`Threads`, where its worker thread can be; `Causes`, what has gone wrong where
something is left behind.  A published document keeps its vectors because a
thread that deletes is only started by a handler, and after the publishing
commit only a database failure leads there; a thread that still sends belongs to
an upload that has published nothing.  No step of one upload touches what the
invariant says of another (`OthersSame`); a crash, the only step of all, has a lemma
of its own.  For the refinement, `searchable` is read as the documents with chunk
rows whose vectors are all there: every step is then, in one document, one of
the library's (`Seen`) or none (`Unseen`).

**Chats.**  `ChatTurnProofs` proves, for any turns, chunks and environment (`EnvAssumption`,
`ChunksAssumption`, `HistoryAssumption`), `TurnTypes`, `AnswersAreAtomic`, `DeliveredAreStored`, `FailuresAreUnsaved`,
`PromptsAreSound` and `AskedOnlyOfPublished`: `Spec => []P` for `TypeOK`, `AnswerAtomic`,
`DeliveredIsStored`, `FailureIsUnsaved`, `PromptSound` and `AskedOfPublished`.  The invariant is one
formula for each turn: `Stored`, which of its rows are committed at each place;
`Told`, that nothing has failed for a turn that goes on, so that what a client was
told of a failure is told of the failure that ended it; `Loaded`, the history, the prompt
and the chunks; `SeenStored`, that what was loaded stays stored.  `PromptSound` rests
on `Stored` of all the other turns: a history loaded at any moment has no answer without
its question because the conversation never has, so that an answer without one in a
prompt has lost it to the limit.  `AskedOfPublished` rests on what `DocumentStore` allows, which is what the proved
refinement says the pipeline does.

**Splitting.**  `ChunkingProofs` proves, for texts of any length, any number of pages
and all settings (`BoundsAssumption`; the bounds of `chunks` are parameters there),
`SplitTypes`, `NoWordLost`, `ChunksFit`, `ChunksNew` and `SplitAdvances`: `TypeOK`, `Covered`, `ChunksSound`,
`EachChunkNew` and `Progress`; and `PagesKept`, that chunks come in the order of the
pages, at least one from a page with a text and none from a blank one.  Two lemmas
carry it: where a window can end (`WindowEnds`, on `Greatest`, that a bounded set of
positions has a greatest one, from the well-foundedness of `<`), and which words its
chunk has (`WindowChunk`).  For
`EachChunkNew` the invariant adds `Behind`: the chunks of the page under the window end
before the page does, and at most `overlap` characters after the window's start.

**Ingestion.**  `IngestionProofs` proves, for any documents of consistent pages,
thresholds, tools, limits, batch size and responses (`ThresholdsAssumption`,
`PagesAssumption`, `LimitsAssumption`):

| Theorem | States |
|---|---|
| `IngestionTyped` | `Spec => []TypeOK` |
| `NothingElseUnread` | `Spec => []PagesRead` |
| `EmbeddingsAligned` | `Spec => []Aligned` |

The invariant `EmbedInv` is five parts.  `ReadInv`: the text of each page read so far
is what its extractors read; a lemma for each kind of text then says when the
extractors of a page miss it.  `OnlyAsked`, `InOrder`: embeddings are of texts that
were asked for and in their order, as long as no response has repeated an
index; so that when there are as many as chunks, each is its own chunk's.
`AllSplit`: every page with a text has a chunk.  `Counted`: a finished upload has as
many vectors as chunks.  What sorting does is a lemma about ranks (`ByIndex`), not
an induction over the response.

**Migrations.**  `MigrationsProofs` proves, for any users, sessions and time zone
(`OffsetAssumption`):

| Theorem | States |
|---|---|
| `MigrationsTyped` | `Spec => []TypeOK` |
| `ChatTimesKept` | `Spec => []TimesKept` |
| `NobodyLockedOut` | `Spec => AccessKept` |
| `ListsForGood` | revision `92d4c8a1e5bf` once applied is never undone |
| `MigrateUpRefused` | `make migrate-up` is refused in every reachable state |
| `MakeAloneNeverServes` | with the commands of the Makefile alone, the program never gets its schema |

The invariant `MigrationsInv` adds to the types what the times can be for each set of
revisions applied (`TimesGood`), and that they are untouched as long as the two
timestamp revisions have never been applied together (`TimesClean`), and that there is a
session with a refresh token only where `92d4c8a1e5bf` is applied (`TokensGood`), on which
`NobodyLockedOut` rests together with `CannotUndoLists`.  The set of
revisions applied is closed under predecessors (part of `TypeOK`), so what an upgrade
still has to apply follows case by case (`UpgradeIs`).  `MigrateUpRefused` and `MakeAloneNeverServes` carry finding 4 from the
instance to every database: two revisions have no successor (`TwoHeads`), whatever
has been applied.  `render.yaml` and `docker-compose.yml` run the same
`alembic upgrade head`.

**Progress.**  Liveness needs fairness and `ENABLED`, which the prover does not
handle, but half of it is a property of steps, and that half is proved for any
number of requests, uploads and turns: every step of one's own takes it onward
along a rank with a bottom, and no step of anyone else sends it back.

| Theorem | States | Half of |
|---|---|---|
| `RequestsAdvance` (`AuthSessionsProofs`) | a request gets to a later one of thirteen places or deletes one of its keys; others do not move it | `RequestsFinish` |
| `DropsEnd` | a batch of deletions is finite, and not empty where a request is to delete one | `RequestsFinish` |
| `UploadsAdvance` | the request or its thread gets to a later place, or a batch is sent; others do not send it back | `UploadsEnd` |
| `TurnsAdvance` | a turn gets to a later place; others do not move it | `TurnsEnd` |
| `RequestsAdvance` (`AccountsProofs`) | a request gets to a later one of seven places; others do not move it | `RequestsAnswered` |
| `PoolFlows` | while requests are in progress, one of them has or can get a connection, whatever the size of the pool | `RequestsAnswered` |

So nothing can loop or undo another's progress.  That a step is possible where
one is due, and is then taken, is what TLC checks.

**Only model-checked**: the four liveness properties `RequestsFinish`, `UploadsEnd`,
`TurnsEnd` and `RequestsAnswered`, for the reason above.  Every other property of a
passing run is stated by a theorem.  The four violations are counterexamples that
TLC finds; `MigrateUpRefused` proves the cause of the fourth.

## 6. Not modelled

* The wording of prompts, events and logs; list order; timestamps, among them
  `last_message_at`, which overlapping turns overwrite.
* The documentation pages and request logging, which have no state; the wording of
  errors; configuration beyond the limits that the modules take as constants;
  creating and disposing of the engine and of the Redis client.
* The checks of an upload's name, type and size, and the redirect to Google
  (`google_start`), which are stateless.
* The layout of tables that the migrations create, and indexes: only what they do
  to rows that exist.
* Libraries and services: PyMuPDF, pdfplumber and Tesseract by what they read of
  a page; OpenAI, Google, the JWT encoding and password hashing as steps that
  succeed or fail.
* A configured index host and `PINECONE_CREATE_INDEX_IF_MISSING = false`, which only
  remove steps of `ResolveIndexHost`.

## 7. Plan

Done: every module of section 2, with the safety properties of its runs proved,
the two refinements among them, and the step half of every liveness property.

Next:

1. `ChatTurn` over `UploadPipeline` itself, in one theorem: that the document under a
   turn is any behaviour of `DocumentStore` and that the pipeline implements it are
   two theorems now, joined in the text.
2. The number of chunks that the splitter makes of a text, as a bound that the limits
   of `Ingestion` (`MaxChunks`) could then be derived from.
3. Which of the four conditions of `Serial` a version column on
   `user_auth_sessions` would make unnecessary.
