------------------------------- MODULE DockerOps ------------------------------
(***************************************************************************)
(* What the functions of backend/services/docker_client.py do to one       *)
(* container.  They are not async and run in no thread: the handlers of    *)
(* backend/routers/docker_ops.py call them on the event loop, which does   *)
(* nothing else until the Docker daemon, external, has answered.           *)
(***************************************************************************)
EXTENDS ProviderCalls

CONSTANT DockerEnabled  \* the setting DOCKER_OPERATIONS_ENABLED

ASSUME DockerAssumption == DockerEnabled \in BOOLEAN

VARIABLE container      \* the state of the container

DockerTypeOK == container \in {"running", "exited", "absent"}

DockerInit == container = "running"

\* _client() is made with the first request of each function.
DockerSteps == [
    start_container   |-> <<"container_get", "container_start">>,
    stop_container    |-> <<"container_get", "container_stop">>,
    restart_container |-> <<"container_get", "container_restart">>,
    remove_container  |-> <<"container_get", "container_remove">>,
    pull_image        |-> <<"image_pull">>]

\* A container that runs is not removed.
DockerAllows(r) ==
    /\ r \in {"container_get", "image_pull"} => DockerEnabled
    /\ r # "image_pull" => container # "absent"
    /\ r = "container_remove" => container = "exited"

DockerDoes(r) ==
    /\ container' = CASE r \in {"container_start", "container_restart"} -> "running"
                      [] r = "container_stop" -> "exited"
                      [] r = "container_remove" -> "absent"
                      [] OTHER -> container
    /\ UNCHANGED seen

OnTheLoop_None(c) == FALSE

\* The call holds the event loop.
OnTheLoop(c) == stage[c] = "running" /\ job[c].op \in DOMAIN DockerSteps

DockerHolds(c) ==
    CASE job[c].op \in {"start_container", "restart_container"} -> container = "running"
      [] job[c].op = "stop_container" -> container = "exited"
      [] job[c].op = "remove_container" -> container = "absent"
      [] OTHER -> TRUE
==============================================================================
