----------------------------- MODULE MCFirewall -----------------------------
EXTENDS Firewall

Platform(ipt, modules, nftables, systemd) ==
    [iptables |-> ipt, modules |-> modules, nft |-> nftables, systemd |-> systemd]

(* Without is SelectSeq. *)
ASSUME WithoutSelects ==
    \A c \in UNION {[1..n -> {"dns", "accept", "drop"}] : n \in 0..4}, D \in SUBSET {"dns", "accept", "drop"} :
        Without(c, D) = SelectSeq(c, LAMBDA x : x \notin D)

MCPlatforms ==
    {Platform(TRUE, TRUE, FALSE, TRUE),     \* iptables
     Platform(TRUE, FALSE, TRUE, TRUE),     \* iptables without its modules, nft
     Platform(TRUE, FALSE, FALSE, TRUE),    \* iptables without its modules
     Platform(FALSE, FALSE, TRUE, FALSE),    \* nft, no systemd
     Platform(FALSE, FALSE, FALSE, TRUE)}    \* no tool at all

=============================================================================
