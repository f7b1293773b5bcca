---------------------------- MODULE MCSwaggerPin ----------------------------
(* SwaggerPin on a small instance.                                         *)
EXTENDS SwaggerPin, TLC

=============================================================================
