--------------------------- MODULE MCUploadFrame ---------------------------
(* A small instance of UploadFrame for TLC. *)
EXTENDS UploadFrame

CONSTANTS main, check

\* Stand-ins for MD5 and the round function of XXTEA: neither has a structure
\* that UploadFrame relies on.
MCDigest(n, start, end) == (n + 3 * start + 5 * end) % Modulus
MCMX(r, p, z, y, k) == (r * y + 7 * z + y * z + 11 * k + p) % Modulus

MCText == {[i \in 0..3 |-> CASE i = 0 -> 0 [] i = 3 -> 5 [] OTHER -> 1]}
=============================================================================
