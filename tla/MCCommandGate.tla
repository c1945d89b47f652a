---------------------------- MODULE MCCommandGate ----------------------------
(* CommandGate for TLC: one action of each sort, and the circumstances.    *)
EXTENDS CommandGate, TLC

Sent == {"containers:list", "containers:exec:input", "stacks:deploy:start",
         "containers:teleport"}

Each == {{}, {"roles", "offline"}, {"roleRace"}}

AnyOrder == Permutations(Command)
=============================================================================
