----------------------------- MODULE MemoryLogMC ----------------------------
(***************************************************************************)
(* Three commands over two scopes: rivals for one head, successors, a      *)
(* bundle and its parts. The scopes are founded on a handle that the       *)
(* counter would name next.                                                *)
(***************************************************************************)
EXTENDS MemoryLog, TLC

\* Single commands, the bundles of two in both orders, an empty list and
\* lists that repeat a command.
MCBundles ==
    {<<>>} \cup {<<c>> : c \in Commands}
        \cup {<<c, d>> : c, d \in Commands}

Symmetric == Permutations(Commands) \cup Permutations(Payloads)

=============================================================================
