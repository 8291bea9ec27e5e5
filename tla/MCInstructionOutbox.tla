------------------------- MODULE MCInstructionOutbox -------------------------
EXTENDS InstructionOutbox

\* A harness with one turn at a time, one with a stream of turns, one that can be steered.
MCCapabilitySets ==
    {{"resume_session"}, {"bidirectional_stream", "resume_session"}, {"steer_active_turn"}}

\* Two handlers while the wave is busy elsewhere, or one of them and the wave.
MCCrews == {Callers, {CHOOSE c \in Callers : TRUE, Wave}}
=============================================================================
