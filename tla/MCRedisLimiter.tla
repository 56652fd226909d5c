---------------------------- MODULE MCRedisLimiter ----------------------------
(* Small instances of RedisLimiter for TLC. *)
EXTENDS RedisLimiter, TLC

CONSTANTS c1, c2

AnyCall == {"ttl", "record", "incr", "expire", "set", "write"}

Symmetry == Permutations(Call)
=============================================================================
