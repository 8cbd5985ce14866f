---------------------------- MODULE MCQueryClient -----------------------------
(* Two blocks of at most two changes together, which change what the query *)
(* matches and how many pages that is; two rows per page.                  *)
EXTENDS QueryClient

CONSTANTS a, b, c

MCAnswers == {<<a, b, c>>, <<c, a>>, <<b>>}
================================================================================
