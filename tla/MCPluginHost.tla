---------------------------- MODULE MCPluginHost ----------------------------
(* One calling thread: hosted plugins are called by the commands that run  *)
(* in the main thread (on-demand extraction in `autocapture query`).       *)
EXTENDS PluginHost

============================================================================
