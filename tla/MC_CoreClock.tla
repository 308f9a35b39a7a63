----------------------------- MODULE MC_CoreClock -----------------------------
(* CoreClock for TLC: short programs of every family of MC_RichardCore. *)
EXTENDS CoreClock, MC_RichardCore

MC_LivePrograms ==
  {Program(<<a, b, c>>) : a, b, c \in DataTemplates}
    \cup {Image(mode \o <<a, b, NOP, NOP>>) :
            mode \in {<<>>, EnterMode(0), EnterMode(1)}, a, b \in TrapTemplates}
=============================================================================
