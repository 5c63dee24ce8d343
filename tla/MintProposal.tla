---------------------------- MODULE MintProposal ----------------------------
(***************************************************************************)
(* proposeMint, the Safe multisig it proposes to, and the wallet it mints  *)
(* to.  The Safe is external: SafeService never passes a nonce, so a       *)
(* proposal gets the nonce of the next execution, and the transactions     *)
(* proposed for one nonce exclude each other.                              *)
(***************************************************************************)
EXTENDS DepositState

(* Variants of the guard of proposeMint, each without one of its checks.   *)
MayProposeUnreviewed(d) ==
  op[d].proof /\ wallet[Owner[d]] # None /\ op[d].safeTx = None
MayProposeWalletless(d) ==
  op[d].status = "APPROVED" /\ op[d].proof /\ op[d].safeTx = None
MayProposeAgain(d) ==
  op[d].status = "APPROVED" /\ op[d].proof /\ wallet[Owner[d]] # None

MayPropose(d) ==
  /\ op[d].status = "APPROVED"
  /\ op[d].proof
  /\ wallet[Owner[d]] # None
  /\ op[d].safeTx = None

StartPropose(r, d) ==
  LET u == Owner[d] IN
  /\ Idle(r)
  /\ ~isMinted(op[d])
  /\ MayPropose(d)
  /\ req' = [req EXCEPT ![r] = [IdleRequest EXCEPT !.pc = "propose", !.dep = d,
                                                   !.to = wallet[u],
                                                   !.first = firstMint[u]]]
  /\ UNCHANGED <<op, expired, userVars, chainVars, jobVars, listenVars, saves, historyVars>>

(* The call to Safe has taken effect; the answer is on its way.            *)
ProposeToSafe(r) ==
  LET tx == [to |-> req[r].to, amount |-> Amount[req[r].dep],
             airdrop |-> req[r].first, nonce |-> Len(executed)] IN
  /\ req[r].pc = "propose"
  /\ proposed' = proposed \cup {tx}
  /\ req' = [req EXCEPT ![r].pc = "save", ![r].tx = tx]
  /\ UNCHANGED <<op, expired, userVars, executed, jobVars, listenVars, saves, historyVars>>

(* Variant: safeTxHash without its unique index.                           *)
NotUnique(d, tx) == FALSE

Taken(d, tx) == \E e \in Deposit \ {d} : op[e].safeTx = tx

(* Variant: the flag is left alone.                                        *)
FirstMintKept(r) == firstMint

FirstMintSpent(r) == [firstMint EXCEPT ![Owner[req[r].dep]] = @ /\ ~req[r].first]

(* Saving the hash.  safeTxHash is unique: when another deposit holds it,  *)
(* the update throws and nothing is stored.                                *)
SaveProposal(r) ==
  LET d == req[r].dep
      tx == req[r].tx IN
  /\ req[r].pc = "save"
  /\ \/ /\ Taken(d, tx)
        /\ UNCHANGED <<op, firstMint, saves>>
     \/ /\ ~Taken(d, tx)
        /\ Update(d, [op[d] EXCEPT !.safeTx = tx, !.proposedAt = saves + 1])
        /\ saves' = saves + 1
        /\ firstMint' = FirstMintSpent(r)
  /\ Respond(r)
  /\ UNCHANGED <<expired, wallet, chainVars, jobVars, listenVars, historyVars>>
-----------------------------------------------------------------------------
(* The owners collect their signatures and execute a proposal.             *)
SafeExecute(tx) ==
  /\ tx.nonce = Len(executed)
  /\ Len(executed) < MaxNonce
  /\ executed' = Append(executed, tx)
  /\ UNCHANGED <<op, expired, userVars, req, proposed, jobVars, listenVars, saves, historyVars>>

(* They spend the nonce on something else; the proposals for it are dead.  *)
SafeSpendNonce ==
  /\ Len(executed) < MaxNonce
  /\ executed' = Append(executed, Other)
  /\ UNCHANGED <<op, expired, userVars, req, proposed, jobVars, listenVars, saves, historyVars>>

(* PATCH link-wallet, the first time or again.  The address must not be    *)
(* another user's; the column is unique.                                   *)
LinkWallet(u, w) ==
  /\ wallet[u] # w
  /\ \A v \in User \ {u} : wallet[v] # w
  /\ wallet' = [wallet EXCEPT ![u] = w]
  /\ UNCHANGED <<op, expired, firstMint, req, chainVars, jobVars, listenVars, saves, historyVars>>
=============================================================================
