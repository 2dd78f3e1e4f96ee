-------------------------- MODULE MCSSHPassphrase --------------------------
(* SSHPassphrase for TLC: runs, trays and passphrases are interchangeable. *)
EXTENDS SSHPassphrase, TLC

PassphraseSymmetry ==
  Permutations(Store) \union Permutations(Tray) \union Permutations(Passphrase)
=============================================================================
