--------------------------- MODULE MCProvisioning ---------------------------
(* Boot, provisioning and deprovisioning on a small instance.              *)
EXTENDS Provisioning
====
