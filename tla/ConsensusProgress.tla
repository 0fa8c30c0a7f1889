------------------------- MODULE ConsensusProgress -------------------------
(***************************************************************************)
(* When the consensus handlers reach a decision: some of the validators,   *)
(* with the proposer of the first round and a quorum among them, keep      *)
(* ticking and get each other's packets before their timeouts.  The others *)
(* may miss the proposal and vote NIL, see the packets in any order, or    *)
(* stop; but nobody waits so long for the acks that it leaves the round.   *)
(***************************************************************************)
EXTENDS ConsensusHandler

CONSTANT Prompt     \* the validators for which the network is fast enough

ASSUME PromptAssumption ==
    /\ Prompt \subseteq Validators
    /\ Proposer[1] \in Prompt
    /\ HasQuorum(Prompt)

\* The timeout for the proposal expires for no prompt validator, the timeout for the acks
\* for nobody: without it, a round is left only when all have acked without a quorum, or
\* others have left it.
InTime ==
    /\ \A n \in Prompt : selfAck'[n][1] # NIL
    /\ \A n \in Validators : currentRound'[n] <= 1

PromptTick(n) == StartUp(n) \/ HandleConsensus(n, 1)

\* The worker calls HandleConsensus again and again, and packets are repeated until the
\* block is there (requestConsensusData, the broadcasts of every tick), so that each of
\* them arrives at some time.
ProgressSpec ==
    /\ Init
    /\ [][Next /\ InTime]_vars
    /\ \A n \in Prompt :
          /\ WF_vars(PromptTick(n) /\ InTime)
          /\ \A p \in Packets :
                p.from \in Prompt /\ p.round = 1 =>
                    WF_vars(p \in sent /\ HandleConsensusPacket(n, p) /\ InTime)

\* The prompt validators decide, in the first round and for the proposal, whatever the
\* others do: a validator that has voted NIL and sees a quorum of OK votes does nothing
\* in all its later ticks (ackBlockProposalTimeout), and the rest have to do without it.
PromptDecide ==
    <>(\A n \in Prompt :
          /\ state[n][1] = BLOCK_STATE_RECEIVED_COMMITS
          /\ precommitHash[n][1] = PrecommitHashOf(proposalHash[n][1], 1))
=============================================================================
