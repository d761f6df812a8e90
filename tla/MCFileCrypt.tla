---------------------------- MODULE MCFileCrypt ----------------------------
\* A small instance of FileCrypt.
EXTENDS FileCrypt

\* Empty, short, whole, the limit with and without a partial block, above it.
SmallFiles == {<<>>, <<5>>, <<16>>, <<16, 16>>, <<16, 1>>, <<16, 16, 15>>, <<16, 16, 16>>,
               <<16, 16, 16, 1>>}
=============================================================================
