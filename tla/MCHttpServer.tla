---------------------------- MODULE MCHttpServer ----------------------------
(***************************************************************************)
(* TLC instance of HttpServer: either one connection that pipelines two    *)
(* requests, or two with one each, of which one may take the camera down.  *)
(***************************************************************************)
EXTENDS HttpServer

CONSTANTS a, b

MCLoads == {[c \in Conns |-> IF c = a THEN 2 ELSE 0], [c \in Conns |-> 1]}
=============================================================================
