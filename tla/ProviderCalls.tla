---------------------------- MODULE ProviderCalls -----------------------------
(***************************************************************************)
(* Calls that change something at a provider: the handler of               *)
(* AuditedOperation around a service function that makes one or more       *)
(* requests.  What the requests do is said by the modules that extend this *)
(* one: AzureOps, Workloads and DockerOps.  Providers puts them together.  *)
(***************************************************************************)
EXTENDS AuditedOperation, Sequences

CONSTANTS
    Values,             \* the sizes, counts and quantities a body may ask for
    Fields,             \* the resource fields a patch may set
    None,               \* no call; no object
    MaxEdits            \* bound on what others change, all together

ASSUME ProviderAssumption ==
    /\ Values \subseteq Nat \ {0} /\ 1 \in Values
    /\ None \notin Calls
    /\ MaxEdits \in Nat

VARIABLES
    job,                \* what each call asks for
    at,                 \* the number of its requests that succeeded
    seen                \* the object it has read, to write it back

Nothing == [op |-> "none", value |-> 0, fields |-> {}]

ReadsInto(c, object) == seen' = [seen EXCEPT ![c] = object]
==============================================================================
