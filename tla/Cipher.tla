------------------------------- MODULE Cipher -------------------------------
(***************************************************************************)
(* What ciphering does to a block (AES_ECB_encrypt and AES_ECB_decrypt of  *)
(* aes.c as file.c uses them).  AES with one key is a permutation of the   *)
(* 16-byte blocks, so a block is the word of what it went through: pairs   *)
(* <<key, sign>>, 1 encrypted, -1 decrypted, in which a step and its       *)
(* inverse cancel.                                                         *)
(***************************************************************************)
EXTENDS Integers, Sequences, SequencesExt

Signs == {1, -1}

\* Encrypt (s = 1) or decrypt (s = -1) with key k: each undoes the other.
Aes(w, k, s) ==
    IF w # <<>> /\ Last(w) = <<k, -s>> THEN Front(w) ELSE Append(w, <<k, s>>)
=============================================================================
