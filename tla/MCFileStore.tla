----------------------------- MODULE MCFileStore ----------------------------
(***************************************************************************)
(* Workloads of the TLC runs of FileStore.                                 *)
(***************************************************************************)
EXTENDS FileStore

Seed == "ASCON_SEED"

\* Every operation; two parts of one file are written, and another is saved.
AllOps ==
  {InitOp, DeinitOp, BadOp, ReadOp(Seed), SyncOp(Seed)}
    \cup {WriteOp(Seed, p, v) : p \in Parts, v \in Values}

WriteAndSync ==
  {InitOp, SyncOp(Seed)} \cup {WriteOp(Seed, p, v) : p \in Parts, v \in Values}
=============================================================================
