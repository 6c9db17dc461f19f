------------------------------- MODULE MCPlugins -------------------------------
EXTENDS Plugins

Plugins_ == {"action", "offboard", "follow", "calibration"}
===============================================================================
