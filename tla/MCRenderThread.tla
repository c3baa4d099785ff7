--------------------------- MODULE MCRenderThread ---------------------------
\* One retry is enough for a frame to fail for the last time; views come and
\* go, so that the renderer outlives the surface that started it.
EXTENDS RenderThread
=============================================================================
