# CloudOps Automation Hub: a TLA+ verification development

The CloudOps Automation Hub is a FastAPI backend with static pages in front of it.
It lets operators act on AWS, Azure, Kubernetes, Docker and Terraform, and has an AI
agent that calls the same services as tools. This directory holds TLA+ modules of the
parts of it that have a protocol, TLC configurations that check them on small instances,
and TLAPS proofs of all their safety properties. Paths below are relative to the
repository; line numbers are in `PROJECT.json` under `map`.

## 1. Inventory

The backend is one uvicorn worker: one process, one asyncio event loop. A handler runs
without interruption from one `await` to the next. Provider calls go through
`asyncio.to_thread` and run in a pool of threads; each database call opens its own SQLite
connection. Nothing in the process keeps two handlers about the same row, instance, node
or workspace apart: there is no lock in the code.

| part | source | state | operations |
|---|---|---|---|
| AI approvals | `backend/routers/ai_agent.py`, `backend/db/database.py` | table `ai_approvals` | queue, list, approve (and execute), deny |
| AI chat | `ai_agent.py`, `backend/services/ai_tools.py` | the messages of one stream | model turns, tool calls, server-sent events |
| Tool registry | `ai_tools.py` | none (a constant table) | `tool_risk_tier`, `execute_tool` |
| Login limiter | `backend/routers/auth.py` | `_login_attempts`, in memory | `_check_login_rate_limit` |
| Sessions | `auth.py`, `backend/auth/*` | JWT cookies | login, refresh, logout, `require_role` |
| Audited handlers | `backend/routers/{aws,azure,docker_ops,kubernetes_ops}.py` | `activity_log` | run a service, log OK or FAIL |
| AWS operations | `backend/services/aws_client.py` | EC2's | start, stop, terminate, resize, snapshot, volume, patch |
| Node operations | `backend/services/k8s_client.py` | a Kubernetes node's | cordon, uncordon, drain, upgrade |
| Workloads, Helm | `k8s_client.py` | the cluster's | deploy, scale, patch resources, releases |
| Azure operations | `backend/services/azure_client.py` | Azure's | create VM, resize, disks |
| Docker operations | `backend/services/docker_client.py` | the daemon's | one request each |
| Terraform | `backend/routers/terraform.py`, `services/terraform_runner.py` | workspaces, state lock | plan (streamed), apply, destroy |
| Activity log | `database.py`, `routers/activity.py` | `activity_log` | append, page, count |
| Event loop, threads | `backend/main.py` | the default executor | `to_thread` |
| Dashboard | `routers/dashboard.py` | none | reads providers |
| Frontend | `frontend/*.html`, `shared.js` | what a page shows | parses streams, pages, polls |
| Pipelines | `pipelines/*.yml` | job results | build, scan, deploy |
| Declarative config | `terraform/`, `k8s/`, `helm/`, `gitops/`, `policies/`, `nginx/` | none | none |

How they interact. A page calls a handler. A handler calls a service in a thread, then
`log_activity`. The chat calls services through `execute_tool` for green tools and writes
a row to `ai_approvals` for the others; an administrator's approve call executes that
row's tool. nginx sits in front and answers 504 after 120 seconds (`nginx.conf:84`) while
the handler behind it goes on.

What is hard here:

- *Check, await, act.* The approval handlers read a row in one awaited query and update
  it in another, without a condition on its status.
- *A `try` that covers too much.* In every audited handler, in `approve_action` and in
  the chat loop, the log write is inside the `try` of the operation, so an error of the
  database takes the failure path of an operation that worked.
- *Sequences without undo.* Resize, create-volume and upgrade are several requests; what
  the first did stays done when a later one fails.
- *Two calls about one thing.* A resize polls for minutes while anybody may start the
  instance; an upgrade drains a node that anybody may uncordon; a patch, an Azure
  resize and the expansion of a disk write back an object they read before, and an Azure
  create is the same unconditional PUT.
- *State kept elsewhere.* Terraform's lock and a pending Helm revision outlive the process
  that made them; a session lives in the browser's cookies and the server cannot end it.
- *Few threads, one loop.* Calls of minutes share the default executor; a Docker call
  holds the event loop.
- *Crashes.* The process may stop between an operation and its record, or between the
  record and the answer; nothing in `startup` (`main.py:46-50`) looks back.
- *Boundaries.* The edge of the limiter's window, the last round of the chat.

`PROJECT.json` lists each hazard at its line, with the properties that cover it, or the
reason why none does.

### What makes each part correct

- Approvals: a tool runs only if an administrator approved its row, at most once, never
  after a denial; table, log and answers agree; every call is answered.
- Chat: risky tools are queued, in their order, and not run; each tool call gets its
  message before the next turn; the user sees the number of the row they queued; the
  stream never goes back, and ends.
- Chats and approvals together: each row whose tool took effect was queued by a chat, signed
  by an administrator and approved by the call that ran it, no chat runs a risky tool by
  itself, and the log shows both halves.
- Limiter: at most LIMIT admissions in any window; nobody is refused without reason.
- Audited handlers: of the calls that are answered, the log says OK exactly for those
  answered with success; an entry without an answer is one a crash cut off from it.
- Sessions: a token goes back to a login in the log, has its role, and ends; a logout
  stays one.
- EC2, nodes, Azure, Docker, workloads and Helm: what calls leave behind is what the last
  one promised, or is explained by a call that failed and said so; what others changed is
  not undone, or only by a call that writes without a condition; no call waits for ever.
- Terraform: one process at a time works on a workspace; answers and log are true of the
  infrastructure; locks come free.

## 2. Modules

A definition keeps the name of the function it models where it models one. Names ending
in `_<Mistake>` are variants that no action uses: plausible slips in the code that
substitute for the definition after them, to see which property notices. `PROJECT.json`
pairs each property with one. Modules whose name begins with `MC` instantiate a module
for TLC, modules whose name ends in `Proofs` hold its theorems (those of LoginLimiter are
in SessionProofs, those of AgentHub in AgentChatProofs).

**ApprovalLifecycle** is the abstract specification: the life of each approval by itself,
`absent -> pending -> approved -> executed | failed` or `pending -> denied`, with a single
execution between approval and result. A database error may make an executed row
`failed` (the overwrite in `ai_agent.py:300`); nothing else moves a decided row.

**ApprovalQueue** is `approve_action` and `deny_action` with the queries under them. Each
await is an action: `ReceiveApprove`/`ReceiveDeny` (the query for pending rows),
`MarkApproved`, `ExecuteTool`, `RecordExecuted`, `LogSuccess`, `MarkFailed`, `LogFailed`,
`MarkDenied`, `LogDenied`. `req[r].pc` is the await a handler rests at. `UpdateRow` and
`LogEntry` have both outcomes of a database call: done, or raised with nothing written.
`Crash` loses the handlers and keeps the rows. `create_approval` stands for the chat.
`Overlap` says whether calls about the *same* row may be in flight together. The code
allows it; FALSE is what a single administrator who waits for answers does. A tool that
raises may have taken effect. `ImplementsLifecycle` is the refinement of ApprovalLifecycle.
`ApprovedRowsAreInHand` is the safety half of `ApprovedRowsSettle`: what a handler must not
do for a row to be settled in the end.

**AgentChat** is the generator of `ai_chat`, from one await or yield to the next:
`Ask` (a model turn), `Call`, `Execute`, `LogResult`, `Queue`, `Announce`, `LogQueued`,
`Finish`, `Cancel` (the browser leaves) and `Crash` (the process dies with all its
streams). The model answers anything, unknown names
included. `replies[k]` counts the tool messages appended for call `k` of the turn: the
protocol of the chat API is about their number, not their text. Arguments and text are
left out.

**AgentHub** is the AI agent as a whole: AgentChat and ApprovalQueue (`Table ==
INSTANCE ApprovalQueue`) over one table `ai_approvals`, in one process. AgentChat's `rows`
holds the columns of a row its chat writes, ApprovalQueue's `approvals` those that handlers
write later. `ChatRuns` is a step of a chat in which a row that is appended to `rows` is
`create_approval`'s, with the next number; `HandlerRuns` a step of a handler; when the
process dies (`ProcessDies`), both die. Its properties are about what neither part can see
by itself: whether each row whose tool took effect, that very row, was queued by a chat,
signed and approved (`EffectsAreApproved`), and whether the log shows who asked for what
was decided (`DecisionsAreTraced`). A denied row bears an administrator's name too, so
`EffectsAreApproved` asks for the approve call as well.

**LoginLimiter** is `_check_login_rate_limit`, one action since it has no await.
`attempts` is `_login_attempts`; `admitted` and `verdict` are history. The popping loop is
`Pops`/`Drop`: the number of leading attempts that have expired.

**AuditedOperation** is the form all mutating handlers of four routers share: call the
service, log OK inside the same `try`, or log FAIL and raise 500. `log_activity` commits
(`LogOK`, `LogFail`) and then awaits the end of its connection, so the answer is a step of
its own (`Answer`): between the two, a crash leaves a verdict in the log for a call nobody
gets an answer to. Its definitions are mapped to handlers of several routers because all of
them have that shape; what the service does is left open.

**Session** EXTENDS LoginLimiter with `login`, `refresh`, `logout`, the tokens of
`jwt_handler.py` and the check in `dependencies.py`. Seen from one browser: `cookie` is
what it holds, `call[k]` how far each of its calls is and the cookies the answer carries.
`Login` starts with the limiter's verdict; a call whose entry cannot be written becomes a
500 that sets no cookies (`LogFailed`), an answer may arrive late or be lost (`Arrive`,
`Lose`), and `SessionRestart` may find another ADMIN_ROLE and JWT_SECRET in the settings.
`Valid` is `decode_token`: the signature, the type and the lifetime, the second it ends in
included (jose compares whole seconds), not whether anybody logged out. That a password and
a one-time code are right is a choice.

**Ec2Ops** puts the functions of `aws_client.py` into that handler (`Audit == INSTANCE
AuditedOperation`). `Steps` is the sequence of EC2 requests of each function; EC2 itself is
external: `Accepted` and `Rejected` say what it does with a request in each state,
`Ec2Step` that it finishes transitions by itself. The loop of a snapshot over the volumes
of the instance makes any number of requests. `RequestFails` leaves what was done done, and
a request refused for another reason than state may have taken effect. `instance_stopped`
and `volume_available` are boto3's waiters.

**NodeOps** does the same for cordon, uncordon, drain and upgrade of one node. `kubectl
drain` is two steps, cordon and evict. A command may fail, time out, and in either case
have done its work. An upgrade whose command returns non-zero *returns* a result with
`status: failed` (`UpgradeReturnsFailed`), one whose command cannot be started or times
out *raises* (`CommandFails`). Upgrades run on the backend's own host; the model lets that
host be the node, the one deployment in which they make sense (the shipped image does not
contain kubeadm). `isKind` and `stuck` are facts of the cluster, chosen at the start: a
kind node name, and a disruption budget that forbids every eviction.

**ProviderCalls, AzureOps, Workloads, DockerOps, Providers.** The service functions of
Azure, Kubernetes, Helm and Docker behind the same handler. ProviderCalls EXTENDS
AuditedOperation with what each call asks for (`job`), how many of its requests are made
(`at`) and the object it has read (`seen`). AzureOps, Workloads and DockerOps give the
requests of each function in order (`AzureSteps`, ...), what the provider refuses in which
state (`AzureAllows`, ...) and what a request does (`AzureDoes`, ...); the last two are
external. An Azure PUT replaces the whole machine or disk, without an ETag and without the
condition that it be new: `VmPut` and `DiskPut` write back what was read (`seen`) with one
field changed, and `VmCreate` over a machine that exists replaces it and leaves it running
or stopped as it was. `EditVM` and `EditDisk` are changes by others. A Kubernetes replace
names the version it was made from and is refused if that is gone. A Helm release is its
sequence of revisions; a killed command leaves one pending. Providers puts the three
together, because they share the log and the event loop: `OnTheLoop` says that no handler
moves while a Docker function runs.

**TerraformRuns** is `terraform.py` and `terraform_runner.py`. `init`, `apply` and `destroy`
take one of `Workers` threads (`queued` until one is free) and are killed after 600
seconds; `plan` is logged as STARTED, opens a process and streams its lines through a pipe
of `PipeSize`. A browser may leave (`Leave`), and the reader may fail (`ReaderFails`: a line
over the 64 KiB of asyncio's StreamReader raises at `terraform_runner.py:54`): either way
the generator ends and nobody reads the pipe any more. `Answer` is again a step after the
commit of the verdict.
Terraform is external: the state lock, taken by every command but `init` and refused at
once if held, and the fact that a remote backend keeps the lock of a process that was
killed.

## 3. Runs

| run | question | what it shows |
|---|---|---|
| `approvals_overlap` | what survives with no coordination? | a tool runs only after an administrator marked its row; a tool that returned is audited despite one database error; each run has a call of its own and an approved row a call that holds it; decided rows are not reopened; every call is answered and approved rows settle, save the cases the property names |
| `approvals_serial` | and if calls about a row follow one another? | at most one execution, none of a row somebody was told is denied, answers and log stay true, the lifecycle is implemented |
| `approve_twice` | *violated* | two approve calls that both saw the row pending run the tool twice |
| `chats` | two streams, every kind of tool, a crash | well-formed conversation, risky tools wait in their order, rows are traced, streams move on and end |
| `hub` | two streams and an administrator over one table | each row whose tool took effect was queued, signed and approved by a call; decisions are traced to their chats |
| `sessions` | a browser with two calls, any times, a restart | no window with more than LIMIT admissions, no undue refusal, sessions go back to a login and end, logouts stick |
| `ec2` | two calls about an instance | who may leave it down, what is left over, what the last call leaves, every call ends |
| `next_device` | *violated* | the second volume is never attached |
| `nodes` | two calls about a node | who may leave it cordoned, no restart under pods, what the last call leaves, every call ends |
| `failed_upgrade` | *violated* | a failed upgrade is logged OK |
| `providers` | two calls to Azure, Kubernetes, Helm or Docker | log agrees with answers, misreports cost faults, what is left half done, what is undone and by whom, what the last call leaves |
| `terraform` | two calls about a workspace, one thread | who holds the lock, answers true of the infrastructure, calls and locks come to an end |

Bounds. Interference here is between two parties (two handlers of a row, an operation and
another on the same instance, two streams), so two of each with a third where that stays
cheap. `approvals_*` has three calls: two to race and one that comes after; with overlap
about one row, since no handler touches a row but its own (the safety properties are proved
for any number), without overlap about two. Fault bounds are chosen per run so that a fault
and its recovery path can both be hit: a database error in the `try` *and* one in the
`except`. `sessions` has LIMIT = 2, WINDOW = 3 and a clock to 4: attempts on, before and
after the edge of a window; ACCESS_TTL = 1 and REFRESH_TTL = 2, inclusive, let an access
token end before its refresh token, and both within the clock. The two roles are model
values: no handler tells them apart, so they are symmetric. One browser is enough because
the server keeps nothing by which two could meet but the limiter's table and the log, and
the table is per client. `hub` has one round of two calls for each of two chats, three rows
and one call of an administrator, an error on either side and a crash: the administrator
can decide a row before its chat has announced it, while the other chat queues, and either
chat may break off. Two chat rounds are the first and the last: the counter only decides
whether there is another. Two calls in a turn include a risky one after a green one and the
reverse. Two types, sizes or values suffice for a change: same and other. `providers` has
two calls, one change by others to one of the three objects, and one of each fault (10
million states, the largest run); the two calls may be of the same provider or of two.
`terraform` has one thread for two calls, so that one waits for the other, and a pipe of
one line for a plan of up to two, so that a plan nobody reads blocks. `SYMMETRY` is used
where no liveness property is checked and the permuted values are not otherwise told apart.

`Overlap` (ApprovalQueue) and the history variable `overlapped` (Ec2Ops, NodeOps,
Providers) serve the same purpose: properties about calls that follow one another are
stated for those behaviours only, and they are not true of the others: the two approval
races are the evidence.

Deadlock is not checked: calls are finite in number, and a system whose calls have all
been answered stops.

Fairness. Weak fairness of each handler's own steps: the event loop resumes every
coroutine whose await has completed. What it awaits must end: commands and AWS calls do
because they have timeouts (boto3's requests, its waiters' 40 polls, `subprocess.run`'s
`timeout=`, the drain's `--timeout`); the Kubernetes and Azure clients are given none, so
for a tool that calls them it is an assumption about the provider. `Ec2Step` is fair
because EC2 finishes transitions. In TerraformRuns the process is fair as well
(`Work`): an apply ends by itself or by the timeout; that a plan which is read ends is an
assumption about terraform, and a plan that nobody reads any more, because its browser left
or its reader failed, is the exception `LocksComeFree` names. `Leave` and `ReaderFails` are
not fair: browsers need not leave, nor lines be long.
Session, Providers and AgentHub state no liveness and assume no fairness. Nothing is assumed
of users, of the model's answers, of the scheduler, of crashes or of faults.

### What the runs say of the code

- `approve_action` looks the row up at l. 278 and marks it at l. 286 with an `UPDATE` that
  names only the id. The same gap lets a deny call overwrite a row whose tool is being
  executed (`DeniedNeverRuns` is a theorem for calls that do not overlap, and only for them).
- The `try` of `approve_action` covers `update_approval` and `log_activity` as well as the
  tool: a database error after a tool that returned makes it write `failed` over `executed`
  and answer "Execution failed" (the step from executed to failed in ApprovalLifecycle
  stands for it). The chat's loop has the same shape, and there a second tool message, an
  error, follows the result (`EveryCallIsFedBack` allows one for each database error).
- `attach_volume` always names `/dev/xvdf`; the comment says "or next available".
- `upgrade_cluster` logs whatever returns as OK, also `{"status": "failed"}`.

More follows from the models without a run of its own:

- A crash after `MarkApproved` leaves a row approved for ever: approve answers 404 for it
  and nothing resumes it.
- The loop's `continue` in the last round ends the stream without the summary the comment
  at `ai_agent.py:250` announces.
- A plan that fails, or that its browser leaves, has STARTED in the log and nothing else.
- A plan with a line over 64 KiB is cut off in the browser, blocks on its full pipe and keeps
  the state lock until the container is restarted.
- A crash between the commit of an entry and the answer leaves OK in the log for a call
  whose caller saw it fail.
- `azure_create_vm` over a machine that exists (a retry, say) replaces it, with what others
  set in it, and does not start it if it was stopped.
- A logout that is answered 401 or 500 leaves the cookies in place, and `shared.js:99-103`
  goes to the login page whatever the answer is. No page ever calls `/auth/refresh`.
- The cookies' `max_age` is fixed (900 and 604800) whatever lifetimes the settings give
  the tokens.
- A first `helm install` that is killed blocks its release: an install and an upgrade are
  refused, there is nothing to roll back to, and no handler uninstalls. The temporary
  values files are never deleted (`k8s_client.py:298`).
- While an image is pulled, no other handler of the backend goes on.

## 4. Proofs

The theorems hold for every value of the constants that meets the module's `ASSUME`,
which says that bounds and lifetimes are numbers, that NULL is not a name, and which
operations there are. TLC checked each property before it was proved.

**ApprovalQueueProofs.** `TypeCorrect`: the type invariant needs `BusyKnowsCall`, that a
handler under way has a row and an administrator. `NoRunWithoutAdmin`, with no assumption
on overlap, faults or crashes: `AdminInv` adds that every handler past its decision has a
row signed by an administrator. Since the `UPDATE` overwrites whatever it finds, the
point of the argument is that `COALESCE` never removes a signature and that no write
returns a row to `pending` (`UpdateSigns`).

`DecisionsAreFinal` (the action property `NeverReopened`) and `ExecutedMeansRan` rest on
`RowChanges`, which lists what any step may do to a row; `RanInv` adds that a handler about
to record success has run its tool. `ReturnedMeansAudited` counts: by `AuditInv`, a handler
whose tool returned is on its way to an entry, or one of its database calls has raised;
if it ends without an entry, two have.

`RunsHaveCalls` counts too: `RanGrows` shows that the only step that puts a call among
those that ran a row's tool is its `ExecuteTool`, that it puts one there that was not, and
that no other step changes `runs`. For `ApprovedRowsHeld`, `HandInv` joins what a handler
knows of its tool (`OutcomeInv`) with `AuditInv`: a call that lets go of a row has written
another status to it, or one of the errors that excuse it has happened; and excuses are not
taken back (`ExcusesStay`).

The second half of the module assumes `~Overlap`; without it these theorems are false
(`approve_twice`). `SerialInv` says that handlers of one row exclude each other
(`Exclusive`), that the row is what the handler's step expects (`RowFollowsHandler`), that
executions fit the status (`RunsFitStatus`), and that logging comes last
(`LoggedRowsAreLeftAlone`): `LogAgreesWithRows` would not be inductive without the last
one. From it follow `SerialRunsAtMostOnce`, `SerialDeniedNeverRuns`,
`SerialLogAgreesWithRows`, and `SerialImplementsLifecycle`, the refinement: each action is
a step of ApprovalLifecycle or a stutter. `SerialAnswersHold` needs `AnswersInv` on top: a
handler past its update finds its own administrator on the row, and nobody works on a row
that has been answered.

**AgentChatProofs.** `TurnInv` follows a stream through a turn: the calls before the one at
hand have their message and those after it have none. A second message for one call comes
only from the path of a database error, which costs a fault (`CallsAreFedBack`). For
`RowsAreTraced` the invariant says that the only unlogged row of a chat is the one its
generator works on, or worked on when a fault or the browser ended it.
`RiskyToolsAreQueued`: `QueueInv` says that there is an increasing map from the risky calls
of the turn handled so far to rows of the chat, after the first of which the chat has no
others. Rows that other chats append lie outside it (`SameHandled`); a call that is queued
extends it by the new last row (`QueueAppends`). `StreamsGoForward` is what the end of the
loop rests on apart from fairness: each step takes a stream to a later round, call or step.

Then the hub. `HubRunsChats` and `HubRunsTheQueue` show that it implements AgentChat and
ApprovalQueue, so that the theorems about each hold in it (`HubRunsRowsOnce` is one of
them). `HubInv` joins `TraceInv`, `AdminInv` and `QueuedInv`, the invariants of the parts,
by `RowsMatch`: a row is in the chats' table exactly if it is in the handlers'.
`HubEffectsAreApproved` and `HubDecisionsAreTraced` then follow from both sides: the row of
a run is signed (`AdminInv`), was appended by a chat (`RowsMatch`, `ChatInv`), and one of the
approve calls about it ran its tool (`CostInv`, with `RunIsApproved`); the row of
an entry exists (`QueuedInv`) and is one the log mentions, or the only one its chat has not
got to (`RowsOf`).

**SessionProofs.** First the limiter. `WindowLimit` is about the whole history of
admissions, of which the table keeps only the end. `TableInv` says that the table is what
remains of the history after its first `k` entries, and that those `k` have expired. An
admission then finds fewer than LIMIT entries left, so the admission LIMIT places earlier
is among the expired. `LimiterTypeCorrect`, `AtMostLimitPerWindow` and `NoUndueRefusal`
follow. `SessionImplementsLimiter`: every step of Session is one of the limiter's or leaves
it alone, which carries the three theorems above over. `SessionInv` traces tokens: every
token in a cookie, or in an answer on its way, goes back to a log entry or to a login that
is about to write it; `AnswersInv` says what answers under way carry; `LoggedOutInv` says
that after a logout only a refresh made before it may still bring an access token.
`TokensEnd` and `LogoutIsFinal` follow.

**AuditProofs.** `AuditIsTruthful` by `StageInv`, what is logged and what has worked at
each stage of an audited handler, the one between commit and answer and the lost ones
included; `MisreportsCostFaults` by `FaultsInv`, a comparison of cardinalities. Three
refinements carry both over to every mutating handler of four routers:
`ProvidersAreAudited`, and through an `INSTANCE` of AuditProofs `Ec2IsAudited` and
`NodeIsAudited`, from which `Ec2LogIsTruthful` and `NodeLogIsTruthful` follow.

**ProvidersProofs.** `ProvidersInv` joins what each call has done and read at each of its
requests (`JobInv`, `SeenInv`), and `VersionInv`: a deployment that still has the version a
patch read is exactly what the patch read. From the last one follow `CallsChangeOnlyTheirs`
and the deployment's part of `NoEditUndone`, that is, why Kubernetes's check is enough
where Azure's missing one is not. For machines and disks `NoEditUndone` says who may have
undone a change (`UndoneInVm`, `UndoneInDisk`); since a call reads once (`ReadsOnce`), the
culprit of an earlier step stays one (`UndoneStays`). `LeftoversInv` says which call an
unattached interface or a pending revision belongs to (`LeftoversAreOwned`).
`LastPromiseHolds`: by `PromiseInv` calls to a provider that have not overlapped are served
one at a time (Docker's always, by `OnTheLoop`), a call that has made its last request has
done what it promises, and what the last one did stays; the lemmas about requests say that
each touches its own provider only. That a create leaves its machine running unless a stop
was asked for needs one fact about all calls: a machine is deallocated only if one of them
is a stop (`StopInv`).

**Ec2Proofs, NodeProofs.** One invariant each: what a call has done when it stands at a
given request (`OpInv`), who explains a stopped instance or a cordoned node (`DownInv`,
`CordonedInv`), where each volume comes from (`VolumeInv`), and, for calls that did not
overlap, what the state is between the requests of the one under way (`SerialInv`), which
gives the theorems about the last call.

**TerraformProofs.** `ProcInv` relates a handler to its process, `LockInv` a process to the
lock, `InfraInv` and `EntriesInv` the infrastructure and the log to the answers. The step
that matters is the timeout: it leaves the lock and a partly changed infrastructure, and
the call they belong to is one that is answered as failed (`LocksExplained`,
`OutcomesTrue`). A verdict that is logged but not answered is at `reply_ok` or `reply_error`,
or its call was lost.

The type invariants, and `ExecutedRowsRan` and `DeniedNeverRuns` of ApprovalQueue, were
checked by TLC and are now proved for every instance; the runs are about the other
properties, which say more.

Only model-checked: the liveness properties (`EveryCallEnds`, `ApprovedRowsSettle`,
`EveryChatEnds`, `LocksComeFree`), since they rest on fairness and ENABLED, which this
prover does not reason about. Every invariant and action property of a passing run is a
theorem.

## 5. Plan

Done: the modules of section 2 and the proofs of section 4. Left, in order of importance:

1. `run_instances` in Ec2Ops: a retry after a lost answer makes a second instance.
2. The safety halves of the other liveness properties, as `StreamsMoveOn` and
   `ApprovedRowsAreInHand` are for chats and rows: which steps a call may not take if it is
   to end.
3. The page of `activity_log`: `get_activity` and `count_activity` are two reads, with
   entries written in between.

## 6. Not modelled

- Rendering, validation of bodies, wording, redaction of secrets: stateless. The framing
  of server-sent events, and a chunk that ends inside a line, are a matter of text.
- Listing, cost and dashboard calls: they change nothing.
- What a registered tool does beyond taking effect once, or not: that of its service.
- `run_instances` beyond its audited handler (see the plan).
- SQLite's own locking: a call that meets a locked file is a call that raises.
- Pipelines and declarative configuration: other systems interpret them; they have no steps
  of this program.
- Time, except in the limiter and the sessions: a timeout is a command that fails at any
  moment.
