---------------------------- MODULE MCFileStore ----------------------------
(* Two clients of two owners, one content that can be stored convergently  *)
(* and under one private path, k + m = 2 shards on two nodes.              *)
EXTENDS FileStore, TLC

CONSTANTS c1, c2, h1, p1, n1, n2

MCOwner == [c \in Clients |-> c]
MCPathOwner == [p \in Paths |-> c1]
MCLength == [h \in Contents |-> 1]

(* The second node is only used as long as nothing is stored privately. *)
OneNodeForPaths ==
    keys > 0 => /\ \A x \in DOMAIN shard : x[1] = n2 => shard[x] = None
                /\ \A c \in Clients, i \in Indices : op[c].map[i] # n2
=============================================================================
