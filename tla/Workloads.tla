------------------------------ MODULE Workloads ------------------------------
(***************************************************************************)
(* What the functions of backend/services/k8s_client.py do to a namespace, *)
(* to a deployment in it and to a Helm release in it.                      *)
(*                                                                         *)
(* The API server and Helm are external.  A patch that names the version   *)
(* of the object it was made from is refused (409) if the object has       *)
(* changed since.  Helm keeps a release as a sequence of revisions: a      *)
(* command adds one that is pending, and makes it deployed or failed at    *)
(* its end; killed in between, it leaves it pending.                       *)
(***************************************************************************)
EXTENDS ProviderCalls

VARIABLES
    namespace,          \* the state of the namespace
    dep,                \* the deployment, or None
    depEdits,           \* the changes others have made to it so far
    revs                \* the release: its revisions

cluster == <<namespace, dep, depEdits, revs>>

Deployments == [res : [Fields -> Values \cup {0}], replicas : Nat,
                edit : 0..MaxEdits, version : Nat]
Revisions == [status : {"pending", "deployed", "failed", "superseded"}, by : Calls \cup {None}]

WorkloadsTypeOK ==
    /\ namespace \in {"absent", "active", "terminating"}
    /\ dep \in Deployments \cup {None}
    /\ depEdits \in 0..MaxEdits
    /\ revs \in Seq(Revisions)

Revision(status, by) == [status |-> status, by |-> by]
NewDeployment == [res |-> [f \in Fields |-> 0], replicas |-> 1, edit |-> 0, version |-> 0]

WorkloadsInit ==
    /\ namespace = "active"
    /\ dep = NewDeployment /\ depEdits = 0
    /\ revs \in {<<>>, <<Revision("superseded", None), Revision("deployed", None)>>}

\* The requests of each function, in order; a Helm command counts as two.
WorkloadSteps == [
    create_namespace |-> <<"ns_create">>,
    delete_namespace |-> <<"ns_delete">>,
    patch            |-> <<"dep_read", "dep_patch">>,
    scale            |-> <<"dep_scale">>,
    helm_install     |-> <<"install", "finish">>,
    helm_upgrade     |-> <<"upgrade", "finish">>,
    helm_rollback    |-> <<"rollback", "finish">>]

Newest == revs[Len(revs)]
OwnRevision(c) == {i \in 1..Len(revs) : revs[i].by = c}

WorkloadsAllow_AnyVersion(c, r) ==
    /\ r = "ns_create" => namespace = "absent"
    /\ r = "ns_delete" => namespace = "active"
    /\ r \in {"dep_read", "dep_patch", "dep_scale"} => dep # None
    /\ r \in {"install", "upgrade", "rollback"} => namespace # "terminating"
    /\ r = "install" => revs = <<>>
    /\ r = "upgrade" => revs # <<>> /\ Newest.status # "pending"
    /\ r = "rollback" => Len(revs) > 1
    /\ r = "finish" => OwnRevision(c) # {}

\* Helm installs under a free name, upgrades what is not pending, and rolls
\* back to an earlier revision whatever the state of the last.
WorkloadsAllow(c, r) ==
    /\ r = "ns_create" => namespace = "absent"
    /\ r = "ns_delete" => namespace = "active"
    /\ r \in {"dep_read", "dep_patch", "dep_scale"} => dep # None
    /\ r = "dep_patch" => dep.version = seen[c].version
    /\ r \in {"install", "upgrade", "rollback"} => namespace # "terminating"
    /\ r = "install" => revs = <<>>
    /\ r = "upgrade" => revs # <<>> /\ Newest.status # "pending"
    /\ r = "rollback" => Len(revs) > 1
    /\ r = "finish" => OwnRevision(c) # {}

\* The whole object read goes back, with the fields the body names replaced.
Patched(c) ==
    [seen[c] EXCEPT !.res = [f \in Fields |-> IF f \in job[c].fields
                                              THEN job[c].value ELSE @[f]]]

Touched(d) == dep' = [d EXCEPT !.version = dep.version + 1]

\* A command ends: its revision is deployed, and replaces the one before.
Settled(c, status) ==
    [i \in 1..Len(revs) |->
        IF revs[i].by = c THEN [revs[i] EXCEPT !.status = status]
        ELSE IF status = "deployed" /\ revs[i].status = "deployed"
                THEN [revs[i] EXCEPT !.status = "superseded"] ELSE revs[i]]

WorkloadsDo(c, r) ==
    /\ namespace' = IF r \in {"ns_create", "install"} THEN "active"
                    ELSE IF r = "ns_delete" THEN "terminating" ELSE namespace
    /\ revs' = IF r \in {"install", "upgrade", "rollback"}
               THEN Append(revs, Revision("pending", c))
               ELSE IF r = "finish" THEN Settled(c, "deployed") ELSE revs
    /\ IF r = "dep_read" THEN ReadsInto(c, dep) ELSE UNCHANGED seen
    /\ \/ r = "dep_patch" /\ Touched(Patched(c))
       \/ r = "dep_scale" /\ Touched([dep EXCEPT !.replicas = job[c].value])
       \/ r \notin {"dep_patch", "dep_scale"} /\ UNCHANGED dep
    /\ UNCHANGED depEdits

\* A command fails and says so in its revision; one that is killed does not.
HelmFails(c, r) ==
    /\ r = "finish" /\ OwnRevision(c) # {}
    /\ revs' = Settled(c, "failed")
    /\ UNCHANGED <<namespace, dep, depEdits>>

\* Somebody else changes the deployment: a controller, or kubectl.
EditDeployment ==
    /\ dep # None
    /\ depEdits' = depEdits + 1
    /\ Touched([dep EXCEPT !.edit = depEdits'])
    /\ UNCHANGED <<namespace, revs>>

\* Everything in a namespace that is deleted goes before it.
Terminates ==
    /\ namespace = "terminating"
    /\ namespace' = "absent" /\ dep' = None /\ revs' = <<>>
    /\ UNCHANGED depEdits

\* What a call that worked promised, while no other has changed anything.
WorkloadsHold(c) ==
    CASE job[c].op = "create_namespace" -> namespace = "active"
      [] job[c].op = "delete_namespace" -> namespace # "active"
      [] job[c].op = "patch" ->
             dep # None => \A f \in job[c].fields : dep.res[f] = job[c].value
      [] job[c].op = "scale" -> dep # None => dep.replicas = job[c].value
      [] job[c].op \in {"helm_install", "helm_upgrade", "helm_rollback"} ->
             {i \in 1..Len(revs) : revs[i].status = "deployed"} = OwnRevision(c)
      [] OTHER -> TRUE
==============================================================================
