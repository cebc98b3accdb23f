----------------------------- MODULE MCRenderJobs -----------------------------
EXTENDS RenderJobs
=============================================================================
