SPECIFICATION Spec
PROPERTY
  ManualPauseSticks
