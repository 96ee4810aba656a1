---------------------------- MODULE MCSmtpClient ----------------------------
(* Bounds for model checking SmtpClient: nothing but the constants' values,  *)
(* which the configurations give.                                            *)
EXTENDS SmtpClient
=============================================================================
