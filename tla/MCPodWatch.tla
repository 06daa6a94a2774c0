----------------------------- MODULE MCPodWatch -----------------------------
(* Pods of a custom resource, with two containers, of a Deployment whose   *)
(* image may not be pulled, of a job, which is not restarted, may be asked *)
(* to stop and starts its containers in the same second, and of nobody,    *)
(* started twice in one second.  What may befall them from outside is      *)
(* shared out.                                                             *)
EXTENDS PodWatch

Instances == {"app", "proxy"} \X (0 .. MaxRestarts)
Apart     == [i \in Instances |-> i]
Together  == [Apart EXCEPT ![<<"proxy", 0>>] = <<"app", 0>>]
AtOnce    == [Apart EXCEPT ![<<"app", 1>>] = <<"app", 0>>]

PodOf(owner, policy, containers, fates, second, mishaps) ==
  [owner |-> owner, restartPolicy |-> policy, containers |-> containers,
   fates |-> fates, second |-> second, mishaps |-> mishaps]

App   == <<"app">>
Both  == <<"app", "proxy">>
Pulls == {"ErrImagePull", "ImagePullBackOff"}

Alike(fates) == [c \in {"app", "proxy"} |-> fates]
Unlike       == [app |-> {"Error"}, proxy |-> {"Completed"}]

FourPods ==
  {PodOf("custom", "Always", Both, Unlike, Apart, {"deleted"}),
   PodOf("web", "Always", App, Alike({"Error", "OOMKilled"} \cup Pulls), Apart,
         {"node", "target", "evicted", "deleted"}),
   PodOf("job", "Never", Both, Alike({"Error", "SIGTERM", "Completed"}), Together,
         {"node", "evicted"}),
   PodOf(NoOwner, "Always", App, Alike({"Error"} \cup Pulls), AtOnce, {"target", "deleted"})}

(* A crashing pod whose owner can always be found.       *)
OwnedPod == {PodOf("web", "Always", App, Alike({"Error", "OOMKilled"}), Apart,
                   {"node", "deleted"})}
=============================================================================
