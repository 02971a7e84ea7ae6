----------------------------- MODULE MCHttpServer -----------------------------
EXTENDS HttpServer
================================================================================
