------------------------------ MODULE MCEngine ------------------------------
(***************************************************************************)
(* Small clusters for TLC.  Each configuration picks the keys, events and  *)
(* baselines of one scenario; the durations are given in its .cfg.         *)
(***************************************************************************)
EXTENDS EngineAlerts, TLC

NoBaseline == {[k \in Key |-> [p \in PodName |-> Unseen]]}

Seeded(entries, age) ==
  [k \in Key |-> [p \in PodName |-> IF <<k, p>> \in entries THEN age ELSE Unseen]]

Ident(resource, namespace, name) ==
  [resource |-> resource, namespace |-> namespace, name |-> name]

Ev(key, pod, node, severity, restarts) ==
  [key |-> key, pod |-> pod, node |-> node, severity |-> severity, restarts |-> restarts]

NeverRenotify == [s \in Severity |-> 0]

(* One node with two conditions, and on it a pod that crashes at two        *)
(* severities while its restart count climbs past the tiers.               *)
OutageKey      == {"n1:NotReady", "n1:DiskPressure", "a:web:CrashLoopBackOff"}
OutageIdentity ==
  ("n1:NotReady"     :> Ident("node", "", "n1")) @@
  ("n1:DiskPressure" :> Ident("node", "", "n1")) @@
  ("a:web:CrashLoopBackOff" :> Ident("pod", "a", "web"))
OutageEvent ==
  {Ev("n1:NotReady", "n1", "n1", 0, NoStatus), Ev("n1:DiskPressure", "n1", "n1", 0, NoStatus)}
    \cup {Ev("a:web:CrashLoopBackOff", "web-0", "n1", s, r) : s \in {0, 3}, r \in {1, 2}}
OutageTiers == <<1, 2>>
OutageRenotify == [s \in Severity |-> IF s = 3 THEN 1 ELSE 0]

(* Two workloads of one namespace failing together, one at two severities. *)
StormKey      == {"a:web:OOMKilled", "a:db:OOMKilled"}
StormIdentity ==
  ("a:web:OOMKilled" :> Ident("pod", "a", "web")) @@
  ("a:db:OOMKilled"  :> Ident("pod", "a", "db"))
StormEvent ==
  {Ev("a:web:OOMKilled", "web-0", "", 0, NoStatus),
   Ev("a:web:OOMKilled", "web-0", "", 2, NoStatus),
   Ev("a:db:OOMKilled", "db-0", "", 0, NoStatus)}

(* A StatefulSet of the same name in two namespaces, and a volume.  The     *)
(* limit was three when the baseline was saved, and is two now.            *)
SeedKey      == {"a:db:OOMKilled", "b:db:OOMKilled", "a:pv1:VolumeUsageHigh"}
SeedIdentity ==
  ("a:db:OOMKilled" :> Ident("pod", "a", "db")) @@
  ("b:db:OOMKilled" :> Ident("pod", "b", "db")) @@
  ("a:pv1:VolumeUsageHigh" :> Ident("pvc", "a", "pv1"))
SeedEvent ==
  {Ev("a:db:OOMKilled", p, "", 0, NoStatus) : p \in {"db-0", "db-1"}}
    \cup {Ev("b:db:OOMKilled", "db-0", "", 0, NoStatus),
          Ev("a:pv1:VolumeUsageHigh", "db-1", "", 0, NoStatus)}
SeedPersisted ==
  {Seeded({}, 0),
   Seeded({<<"a:db:OOMKilled", "db-1">>, <<"b:db:OOMKilled", "db-0">>}, 1),
   [Seeded({<<"a:db:OOMKilled", "db-1">>, <<"b:db:OOMKilled", "db-0">>}, 1) EXCEPT
      !["a:db:OOMKilled"]["db-0"] = 0]}
SeedLive ==
  {Seeded({}, 0),
   Seeded({<<"a:db:OOMKilled", "db-0">>, <<"a:db:OOMKilled", "db-1">>}, 0),
   Seeded({<<"a:db:OOMKilled", "db-0">>, <<"b:db:OOMKilled", "db-0">>}, 0)}
=============================================================================
